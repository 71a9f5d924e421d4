------------------------------- MODULE Routes -------------------------------
(***************************************************************************)
(* Two kinds of routes: the static routes of tools/static_routes.py with   *)
(* the plans of tools/fqdn_sync.py that keep them in step with a domain    *)
(* list, and the dns-proxy routes of tools/dns_routes.py.  One action per  *)
(* request.                                                                *)
(*                                                                         *)
(* list_static_routes reads sc only, so a route that was not saved is not  *)
(* found by a plan or a delete.  dns-proxy routes are read through the     *)
(* fallbacks of ScRc, whose failures fetch_dns_routes swallows; the answer *)
(* to a dns-proxy write is not looked at.  A plan is kept in memory and    *)
(* may be applied later, by anyone, more than once.                        *)
(***************************************************************************)
EXTENDS ScRc, FiniteSets

CONSTANTS Task,         \* tool calls that may be in flight together
          Dest,         \* destinations, all of them /32
          ListName,     \* names of domain lists
          Plain,        \* the comment of a route that no plan made
          Prefixes,     \* pairs <<a, b>>: the tag of a is a prefix of that of b
          Resolves,     \* Resolves[l]: the addresses list l may resolve to
          Index,        \* indices of dns-proxy routes
          Iface,        \* interfaces a dns-proxy route may use
          Calls,        \* Calls[t]: the calls the agent may make as task t
          InitConfigs,  \* what rc and sc may both hold at the start
          MaxChanges,   \* `max_changes': a plan with more is refused
          Faults,       \* which failures may happen, a subset of FaultKinds
          MaxCalls      \* bound: the calls of a behaviour, a dns-proxy call counted twice

FaultKinds == {"read",     \* a request of a read fails
               "refuse",   \* the router refuses a write
               "lost",     \* a writing request, or its answer, is lost
               "reboot"}   \* the router restarts

Comment == ListName \cup {Plain}
Route == [dest : Dest, tag : Comment]
DnsRoute == [index : Index, list : ListName, iface : Iface]

\* A configuration: static routes and dns-proxy routes.
Config == [static : SUBSET Route, dns : SUBSET DnsRoute]

Plan == [tag : ListName, want : SUBSET Dest, add : SUBSET Dest, remove : SUBSET Dest]

DnsOps == {"dnsAdd", "dnsDelete", "dnsGet"}
Ops == {"add", "delete", "plan", "apply"} \cup DnsOps
Writers == Ops \ {"plan", "dnsGet"}

\* tag: the comment of a new route, or the list.  confirm: only read by apply.
Call == {c \in [op : Ops, dest : Dest, tag : Comment, dns : DnsRoute,
                save : BOOLEAN, confirm : BOOLEAN] :
           c.op = "plan" => c.tag \in ListName}

ASSUME RoutesAssumption ==
  /\ Dest # {} /\ ListName # {} /\ DnsRoute # {}
  /\ Plain \notin ListName
  /\ Prefixes \subseteq ListName \X ListName
  /\ \A l \in ListName : <<l, l>> \in Prefixes
  /\ Resolves \in [ListName -> SUBSET Dest]
  /\ MaxChanges \in Nat
  /\ MaxCalls \in Nat
  /\ Calls \in [Task -> SUBSET Call]
  /\ InitConfigs \subseteq Config
  /\ Faults \subseteq FaultKinds

VARIABLES rc,       \* running configuration
          sc,       \* saved configuration
          plans,    \* _PLANS, which all calls share
          job,      \* what each task is doing
          report,   \* the last answer each task got
          calls     \* how many calls were made

\* History, read by the properties only.
VARIABLES fresh,    \* plans since which nothing was written but by their apply
          seen      \* seen[t]: what happened during t's last call

vars == <<rc, sc, plans, job, report, calls, fresh, seen>>

-----------------------------------------------------------------------------
(* Plans. *)

\* `comment.startswith(tag)'.
Tagged(r, l) == r.tag # Plain /\ <<l, r.tag>> \in Prefixes

TaggedDests(S, l) == {r.dest : r \in {q \in S : Tagged(q, l)}}

MakePlan(l, want, S) ==
  [tag |-> l, want |-> want,
   add |-> want \ TaggedDests(S, l), remove |-> TaggedDests(S, l) \ want]

At(S, d) == {r \in S : r.dest = d}

-----------------------------------------------------------------------------
(* Tasks. *)

\* resolve, list: the steps of a plan.  begin, check, remove, insert, commit:
\* those of an apply.  find, del: delete_static_route, also inside an apply.
\* put: add_static_route.  look, before, dns, after, saved: the dns tools.
Phases == {"idle", "resolve", "list", "begin", "check", "remove", "insert",
           "commit", "find", "del", "put", "look", "before", "dns", "after", "saved"}

Job == [pc : Phases, call : Call, plan : Plan, existing : SUBSET Route,
        remove : SUBSET Dest, insert : SUBSET Dest, dest : Dest, errors : BOOLEAN,
        probe : Probes, old : SUBSET DnsRoute, new : SUBSET DnsRoute, unread : BOOLEAN]

AnyDest == CHOOSE d \in Dest : TRUE
AnyList == CHOOSE l \in ListName : TRUE
NoCall == [op |-> "plan", dest |-> AnyDest, tag |-> AnyList,
           dns |-> CHOOSE d \in DnsRoute : TRUE, save |-> FALSE, confirm |-> FALSE]
NoPlan == [tag |-> AnyList, want |-> {}, add |-> {}, remove |-> {}]
IdleJob == [pc |-> "idle", call |-> NoCall, plan |-> NoPlan, existing |-> {},
            remove |-> {}, insert |-> {}, dest |-> AnyDest, errors |-> FALSE,
            probe |-> 1, old |-> {}, new |-> {}, unread |-> FALSE]

\* hit: `created' or `deleted'.  saved: `config_saved'.  unread: a request of a
\* read failed and was passed over.
Report == [op : Ops \cup {"none"}, ok : BOOLEAN, dns : DnsRoute, hit : BOOLEAN,
           dirty : BOOLEAN, saved : BOOLEAN, unread : BOOLEAN]
NoReport == [op |-> "none", ok |-> FALSE, dns |-> NoCall.dns, hit |-> FALSE,
             dirty |-> FALSE, saved |-> FALSE, unread |-> FALSE]

\* differed: the dns routes of rc and sc were not the same at some moment.
\* raced: something else changed rc or sc.  wrote, saved: the call changed rc, sc.
\* tagged: destinations with a route of the call's list in sc at some moment.
Seen == [differed : BOOLEAN, raced : BOOLEAN, wrote : BOOLEAN, saved : BOOLEAN,
         tagged : SUBSET Dest]

TypeOK ==
  /\ rc \in Config
  /\ sc \in Config
  /\ plans \subseteq Plan
  /\ job \in [Task -> Job]
  /\ report \in [Task -> Report]
  /\ calls \in Nat
  /\ fresh \subseteq plans
  /\ seen \in [Task -> Seen]

NothingSeen == [differed |-> FALSE, raced |-> FALSE, wrote |-> FALSE, saved |-> FALSE,
                tagged |-> {}]

Init ==
  /\ rc \in InitConfigs
  /\ sc = rc
  /\ plans = {}
  /\ job = [t \in Task |-> IdleJob]
  /\ report = [t \in Task |-> NoReport]
  /\ calls = 0
  /\ fresh = {}
  /\ seen = [t \in Task |-> NothingSeen]

Active(t) == job[t].pc # "idle"
AsksSave(c) == c.op \in Writers /\ c.save

Observe(t) ==
  seen' = [u \in Task |->
    IF ~Active(u) THEN seen[u]
    ELSE [differed |-> seen[u].differed \/ rc'.dns # sc'.dns,
          raced |-> seen[u].raced \/ (u # t /\ (rc' # rc \/ sc' # sc)),
          wrote |-> seen[u].wrote \/ (u = t /\ rc' # rc),
          saved |-> seen[u].saved \/ (u = t /\ sc' # sc),
          tagged |-> seen[u].tagged \cup TaggedDests(sc'.static, job[u].plan.tag)]]

\* A step of task t that writes nothing.
Reads(t) ==
  /\ UNCHANGED <<rc, sc, calls>>
  /\ Observe(t)

Goto(t, j) == job' = [job EXCEPT ![t] = j] /\ UNCHANGED report
Answer(t, r) == job' = [job EXCEPT ![t] = IdleJob] /\ report' = [report EXCEPT ![t] = r]
Raise(t) == Answer(t, [NoReport EXCEPT !.op = job[t].call.op])
Answered(t) == [NoReport EXCEPT !.op = job[t].call.op, !.ok = TRUE, !.saved = job[t].call.save]

\* Mutant of Failed: an error of an apply is forgotten.
FailedQuietly(t) ==
  IF job[t].call.op = "apply" /\ job[t].pc \in {"find", "del", "insert"}
  THEN Goto(t, [job[t] EXCEPT !.pc = IF @ = "insert" THEN @ ELSE "remove"])
  ELSE Raise(t)

\* An exception: apply catches those of its deletes and adds.
Failed(t) ==
  IF job[t].call.op = "apply" /\ job[t].pc \in {"find", "del", "insert"}
  THEN Goto(t, [job[t] EXCEPT !.pc = IF @ = "insert" THEN @ ELSE "remove", !.errors = TRUE])
  ELSE Raise(t)

FirstPhase(c) ==
  CASE c.op = "add" -> "put"
    [] c.op = "delete" -> "find"
    [] c.op = "plan" -> "resolve"
    [] c.op = "apply" -> "begin"
    [] c.op = "dnsAdd" -> "look"
    [] OTHER -> "before"

\* How much a call counts: a dns-proxy call may make over ten requests.
Weight(op) == IF op \in DnsOps THEN 2 ELSE 1

Start(t) ==
  /\ ~Active(t)
  /\ \E c \in Calls[t] :
     \E p \in IF c.op = "apply" THEN plans
              ELSE {[NoPlan EXCEPT !.tag = IF c.tag = Plain THEN AnyList ELSE c.tag]} :
       /\ calls' = calls + Weight(c.op)
       /\ calls' <= MaxCalls
       /\ job' = [job EXCEPT ![t] = [IdleJob EXCEPT !.pc = FirstPhase(c), !.call = c,
                                                    !.plan = p, !.dest = c.dest]]
       /\ seen' = [seen EXCEPT ![t] = [NothingSeen EXCEPT !.differed = rc.dns # sc.dns,
                                         !.tagged = TaggedDests(sc.static, p.tag)]]
  /\ report' = [report EXCEPT ![t] = NoReport]
  /\ UNCHANGED <<rc, sc, plans, fresh>>

\* A read whose exception the tool does not swallow.
ReadFails(t) ==
  /\ "read" \in Faults
  /\ job[t].pc \in {"resolve", "list", "check", "find", "look"}
  /\ Failed(t)
  /\ UNCHANGED <<plans, fresh>>
  /\ Reads(t)

-----------------------------------------------------------------------------
(* plan_fqdn_static_sync *)

\* The list and its addresses; a name that does not resolve counts as none.
Resolve(t) ==
  /\ job[t].pc = "resolve"
  /\ \E want \in SUBSET Resolves[job[t].call.tag] :
       Goto(t, [job[t] EXCEPT !.pc = "list", !.plan.want = want])
  /\ UNCHANGED <<plans, fresh>>
  /\ Reads(t)

\* An apply of plan p has read what there is.
Underway(p) ==
  \E t \in Task : /\ job[t].call.op = "apply" /\ job[t].plan = p
                 /\ job[t].pc \notin {"idle", "begin", "check"}

\* The plan is made from sc, and kept.  (One that is equal to a plan under way
\* is not told apart from it, and so not fresh.)
ListAndPlan(t) ==
  LET p == MakePlan(job[t].call.tag, job[t].plan.want, sc.static) IN
  /\ job[t].pc = "list"
  /\ plans' = plans \cup {p}
  /\ fresh' = IF rc = sc /\ ~Underway(p) THEN fresh \cup {p} ELSE fresh \ {p}
  /\ Answer(t, [NoReport EXCEPT !.op = "plan", !.ok = TRUE])
  /\ Reads(t)

-----------------------------------------------------------------------------
(* apply_fqdn_static_sync *)

\* Too many changes are refused; without confirm it is a dry run.
Begin(t) ==
  LET j == job[t]
      tooMany == Cardinality(j.plan.add) + Cardinality(j.plan.remove) > MaxChanges IN
  /\ j.pc = "begin"
  /\ \/ tooMany /\ Raise(t)
     \/ ~tooMany /\ ~j.call.confirm /\ Answer(t, [NoReport EXCEPT !.op = "apply", !.ok = TRUE])
     \/ ~tooMany /\ j.call.confirm /\ Goto(t, [j EXCEPT !.pc = "check"])
  /\ UNCHANGED <<plans, fresh>>
  /\ Reads(t)

\* "Safety: re-check existing before delete".
Recheck(t) ==
  /\ job[t].pc = "check"
  /\ Goto(t, [job[t] EXCEPT !.pc = "remove", !.existing = sc.static,
                            !.remove = job[t].plan.remove, !.insert = job[t].plan.add])
  /\ UNCHANGED <<plans, fresh>>
  /\ Reads(t)

\* Mutant of Removal: the tag is not looked at again.
RemovalUnchecked(t) ==
  LET j == job[t] IN
  /\ j.pc = "remove"
  /\ \/ /\ j.remove = {}
        /\ Goto(t, [j EXCEPT !.pc = "insert"])
     \/ \E d \in j.remove : Goto(t, [j EXCEPT !.remove = @ \ {d}, !.pc = "find", !.dest = d])
  /\ UNCHANGED <<plans, fresh>>
  /\ Reads(t)

\* The next route to remove: passed over when it is not there any more, an
\* error when the first one found has another tag.
Removal(t) ==
  LET j == job[t] IN
  /\ j.pc = "remove"
  /\ \/ /\ j.remove = {}
        /\ Goto(t, [j EXCEPT !.pc = "insert"])
     \/ \E d \in j.remove :
          LET rest == [j EXCEPT !.remove = @ \ {d}]
              matches == At(j.existing, d) IN
          \/ matches = {} /\ Goto(t, rest)
          \/ \E r \in matches :
               Goto(t, IF Tagged(r, j.plan.tag)
                       THEN [rest EXCEPT !.pc = "find", !.dest = d]
                       ELSE [rest EXCEPT !.errors = TRUE])
  /\ UNCHANGED <<plans, fresh>>
  /\ Reads(t)

\* Everything was tried: save if there was no error, then answer.
Conclude(t) ==
  LET j == job[t] IN
  /\ j.pc = "insert"
  /\ j.insert = {}
  /\ IF j.call.save /\ ~j.errors THEN Goto(t, [j EXCEPT !.pc = "commit"])
     ELSE Answer(t, [Answered(t) EXCEPT !.ok = ~j.errors, !.saved = FALSE])
  /\ UNCHANGED <<plans, fresh>>
  /\ Reads(t)

\* delete_static_route looks for the route in sc before it sends the delete.
Find(t) ==
  LET j == job[t] IN
  /\ j.pc = "find"
  /\ IF At(sc.static, j.dest) = {} THEN Failed(t)
     ELSE Goto(t, [j EXCEPT !.pc = "del"])
  /\ UNCHANGED <<plans, fresh>>
  /\ Reads(t)

-----------------------------------------------------------------------------
(* Writes. *)

\* The destinations a writing phase may be about.
Targets(j) == IF j.pc = "insert" THEN j.insert ELSE {j.dest}

\* What the router makes of a writing request about d: `no ip route' names a
\* destination and removes every route to it; a dns route that is there stays.
Effects(f, j, d) ==
  CASE j.pc = "del" -> {[f EXCEPT !.static = @ \ At(@, d)]}
    [] j.pc \in {"put", "insert"} ->
         {[f EXCEPT !.static = @ \cup {[dest |-> d, tag |-> IF j.pc = "put" THEN j.call.tag
                                                            ELSE j.plan.tag]}]}
    [] j.pc = "commit" -> {f}
    [] j.pc = "dns" /\ j.call.op = "dnsDelete" ->
         {[f EXCEPT !.dns = {r \in @ : r.index # j.call.dns.index}]}
    [] OTHER ->
         IF \E r \in f.dns : r.list = j.call.dns.list /\ r.iface = j.call.dns.iface THEN {f}
         ELSE {[f EXCEPT !.dns = @ \cup {[j.call.dns EXCEPT !.index = i]}] :
                 i \in {k \in Index : \A r \in f.dns : r.index # k}}

\* Mutant of Saves: every write saves.
SavesAlways(j) == TRUE

\* Which requests save: an apply saves with a request of its own.
Saves(j) == j.call.save /\ (j.call.op = "apply" => j.pc = "commit")

\* What follows an answered write.
AfterWrite(t, d) ==
  LET j == job[t] IN
  CASE j.pc = "del" /\ j.call.op = "apply" -> Goto(t, [j EXCEPT !.pc = "remove"])
    [] j.pc = "insert" -> Goto(t, [j EXCEPT !.insert = @ \ {d}])
    [] j.pc = "dns" -> Goto(t, [j EXCEPT !.pc = "after"])
    [] OTHER -> Answer(t, Answered(t))

\* What an error does, for an add of an apply: it is not tried again.
AfterError(t, d) ==
  IF job[t].pc = "insert"
  THEN Goto(t, [job[t] EXCEPT !.insert = @ \ {d}, !.errors = TRUE])
  ELSE Failed(t)

WritePhases == {"del", "put", "insert", "commit", "dns"}

\* A plan stays fresh through the writes of its own apply.
StaysFresh(t) == IF job[t].call.op = "apply" THEN fresh \cap {job[t].plan} ELSE {}

\* The writing request reaches the router.  A refused dns write looks like any
\* other.
Write(t) ==
  LET j == job[t] IN
  /\ j.pc \in WritePhases
  /\ \E d \in Targets(j) :
       \/ /\ rc' \in Effects(rc, j, d)
          /\ sc' = IF Saves(j) THEN rc' ELSE sc
          /\ \/ AfterWrite(t, d)
             \/ "lost" \in Faults /\ AfterError(t, d)
       \/ /\ "refuse" \in Faults
          /\ rc' = rc
          \* a refused route does not keep the save behind it from being executed
          /\ sc' = IF Saves(j) /\ j.pc # "commit" THEN rc' ELSE sc
          /\ IF j.pc = "dns" THEN AfterWrite(t, d) ELSE AfterError(t, d)
  /\ fresh' = IF rc' = rc /\ sc' = sc THEN fresh ELSE StaysFresh(t)
  /\ UNCHANGED <<plans, calls>>
  /\ Observe(t)

\* The writing request never reaches the router.
Lose(t) ==
  /\ "lost" \in Faults
  /\ job[t].pc \in WritePhases
  /\ \E d \in Targets(job[t]) : AfterError(t, d)
  /\ UNCHANGED <<plans, fresh>>
  /\ Reads(t)

-----------------------------------------------------------------------------
(* dns-proxy routes. *)

\* add_dns_route resolves the name of the list first.
Look(t) ==
  /\ job[t].pc = "look"
  /\ Goto(t, [job[t] EXCEPT !.pc = "before"])
  /\ UNCHANGED <<plans, fresh>>
  /\ Reads(t)

Reading(t) == job[t].pc \in {"before", "after", "saved"}
Preferred(t) == IF job[t].pc = "saved" THEN "sc" ELSE "rc"
View(t) == Shown(ProbedRoot(Preferred(t), job[t].probe), rc.dns, sc.dns)

\* A request that shows nothing, or fails: the read goes on to the next one.
ProbeNext(t) ==
  /\ Reading(t)
  /\ job[t].probe < LastProbe
  /\ \/ View(t) = {} /\ Goto(t, [job[t] EXCEPT !.probe = @ + 1])
     \/ "read" \in Faults /\ Goto(t, [job[t] EXCEPT !.probe = @ + 1, !.unread = TRUE])
  /\ UNCHANGED <<plans, fresh>>
  /\ Reads(t)

\* The read is over; when the last request fails, it returns no routes.
Returns(t, view, failed) ==
  \/ /\ view = View(t) /\ ~failed
     /\ view # {} \/ job[t].probe = LastProbe
  \/ view = {} /\ failed /\ "read" \in Faults /\ job[t].probe = LastProbe

\* Mutant of DnsAnswer: a dns route is created if it is there afterwards.
DnsAnswerPresent(j, saved) ==
  [NoReport EXCEPT !.op = j.call.op, !.ok = TRUE, !.dns = j.call.dns,
     !.hit = \/ j.call.op = "dnsAdd" /\ \E r \in j.new : r.list = j.call.dns.list
             \/ j.call.op = "dnsDelete" /\ j.old # j.new,
     !.dirty = IF j.call.op = "dnsGet" THEN j.old # saved ELSE j.new # saved,
     !.saved = AsksSave(j.call), !.unread = j.unread]

\* created: the route is there and the routes of rc have changed; deleted: they
\* have changed.
DnsAnswer(j, saved) ==
  [NoReport EXCEPT !.op = j.call.op, !.ok = TRUE, !.dns = j.call.dns,
     !.hit = /\ j.call.op \in {"dnsAdd", "dnsDelete"}
             /\ j.old # j.new
             /\ j.call.op = "dnsAdd" =>
                  \E r \in j.new : r.list = j.call.dns.list /\ r.iface = j.call.dns.iface,
     !.dirty = IF j.call.op = "dnsGet" THEN j.old # saved ELSE j.new # saved,
     !.saved = AsksSave(j.call), !.unread = j.unread]

\* What the read of each phase is for: rc before the write, rc after it, sc.
DnsRead(t) ==
  LET j == job[t] IN
  /\ Reading(t)
  /\ \E view \in {View(t), {}}, failed \in BOOLEAN :
       LET k == [j EXCEPT !.probe = 1, !.unread = @ \/ failed] IN
       /\ Returns(t, view, failed)
       /\ CASE j.pc = "before" ->
                 Goto(t, [k EXCEPT !.old = view,
                                   !.pc = IF j.call.op = "dnsGet" THEN "saved" ELSE "dns"])
            [] j.pc = "after" -> Goto(t, [k EXCEPT !.new = view, !.pc = "saved"])
            [] OTHER -> Answer(t, DnsAnswer(k, view))
  /\ UNCHANGED <<plans, fresh>>
  /\ Reads(t)

-----------------------------------------------------------------------------
\* A call that opens a client for each of its requests: what a restart does to
\* it is what ReadFails and Lose do.
Survives(t) == job[t].call.op \notin DnsOps

\* The router restarts from sc.  The calls that hold one client throughout fail;
\* the plans stay, and the others go on, an apply with the rest of its routes.
Reboot ==
  /\ "reboot" \in Faults
  /\ rc' = sc
  /\ job' = [t \in Task |-> IF Survives(t) THEN job[t] ELSE IdleJob]
  /\ report' = [t \in Task |-> IF Survives(t) THEN report[t]
                               ELSE [NoReport EXCEPT !.op = job[t].call.op]]
  /\ fresh' = IF rc = sc THEN fresh ELSE {}
  /\ UNCHANGED <<sc, plans, calls, seen>>

Step(t) ==
  \/ ReadFails(t)
  \/ Resolve(t) \/ ListAndPlan(t)
  \/ Begin(t) \/ Recheck(t) \/ Removal(t) \/ Conclude(t)
  \/ Find(t) \/ Write(t) \/ Lose(t)
  \/ Look(t) \/ ProbeNext(t) \/ DnsRead(t)

Next == Reboot \/ \E t \in Task : Start(t) \/ Step(t)

Spec == Init /\ [][Next]_vars

-----------------------------------------------------------------------------
(* What concurrency and failures leave standing. *)

\* A configuration as slots: a destination, or an index.
AsSlots(f) ==
  [x \in {<<"ip", r.dest>> : r \in f.static} \cup {<<"dns", r.index>> : r \in f.dns} |->
     IF x[1] = "ip" THEN At(f.static, x[2]) ELSE {r \in f.dns : r.index = x[2]}]

\* A request is about the routes to one destination, or one dns-proxy route; sc
\* changes only for a call that asked for it (every write tool of
\* static_routes.py, fqdn_sync.py and the dns-proxy tools).
SC == INSTANCE SavedConfig
        WITH Client <- Task,
             Slot <- ({"ip"} \X Dest) \cup ({"dns"} \X Index),
             Thing <- (SUBSET Route) \cup (SUBSET DnsRoute),
             running <- AsSlots(rc), saved <- AsSlots(sc),
             open <- {t \in Task : Active(t)},
             consent <- {t \in Task : Active(t) /\ AsksSave(job[t].call)}

ImplementsSavedConfig == SC!SCSpec

\* An apply deletes only at destinations where sc had a route whose comment
\* starts with the tag of its list, at some moment of the call, however old the
\* plan is and whoever changed the routes since ("Safety: re-check").  That is
\* all the re-check gives: which routes go with it, NeverTouchesOthers is about.
OnlyTaggedDests ==
  [][\A t \in Task :
       job[t].call.op = "apply" /\ job[t].pc = "del" /\ rc' # rc /\ job'[t] # job[t] =>
         job[t].dest \in seen[t].tagged]_vars

\* t's call has just answered.
Finished(t) == Active(t) /\ job'[t].pc = "idle" /\ report'[t].ok

\* When nothing else was written since the plan was made, a saved apply brings
\* the routes of the list to exactly the addresses it resolved to: those, and
\* no others, are tagged in rc and in sc.
Converged ==
  [][\A t \in Task :
       LET p == job[t].plan IN
       Finished(t) /\ report'[t].op = "apply" /\ report'[t].saved /\ p \in fresh' =>
         /\ TaggedDests(rc'.static, p.tag) = p.want
         /\ TaggedDests(sc'.static, p.tag) = p.want]_vars

\* created=true of a dns route means that the call changed rc, deleted=true that
\* it changed rc or, by its save, sc, unless a read failed or another call wrote
\* meanwhile.  (With rc empty the read before the delete shows sc: to delete once
\* more, with a save, what was deleted without one counts as deleted.)
DnsHonest ==
  \A t \in Task :
    report[t].hit => \/ seen[t].wrote \/ seen[t].raced \/ report[t].unread
                     \/ report[t].op = "dnsDelete" /\ seen[t].saved

\* dirty=true of a dns route means that rc # sc at some moment of the call,
\* unless a read failed or another call wrote meanwhile.
DnsDirtyDiffers ==
  \A t \in Task :
    report[t].dirty => seen[t].differed \/ seen[t].raced \/ report[t].unread

\* The types, and that the answers about dns routes are true.
RoutesInv == TypeOK /\ DnsHonest /\ DnsDirtyDiffers

-----------------------------------------------------------------------------
(* What a docstring says and the code does not do. *)

\* fqdn_sync.py:42, "Only manages routes with comment fqdnsync:<list_name>.
\* Never touches others": the routes an apply deletes have the comment of its
\* list.  (A comment that only starts with it counts as its own too, and the
\* delete names a destination: every route there goes, whatever its comment.)
NeverTouchesOthers ==
  [][\A t \in Task :
       job[t].call.op = "apply" /\ job[t].pc = "del" /\ job'[t] # job[t] =>
         \A r \in rc.static \ rc'.static : r.tag = job[t].plan.tag]_vars
=============================================================================
