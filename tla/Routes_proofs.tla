---------------------------- MODULE Routes_proofs ----------------------------
(***************************************************************************)
(* Proofs about Routes for any tasks, destinations, lists, tags that are   *)
(* prefixes of each other, calls, faults and bounds.                       *)
(***************************************************************************)
EXTENDS Routes, TLAPS

-----------------------------------------------------------------------------
(* The inductive invariant. *)

Readings == {"before", "after", "saved"}

\* An apply has read what there is.
Busy == {"remove", "find", "del", "insert", "commit"}

\* Which calls go through which phase, and what an apply has left to do.
Ordered(j) ==
  LET op == j.call.op IN
  /\ j.pc \in {"resolve", "list"} => op = "plan"
  /\ j.pc \in {"begin", "check", "remove", "insert", "commit"} => op = "apply"
  /\ j.pc \in {"find", "del"} => op \in {"delete", "apply"}
  /\ j.pc = "put" => op = "add"
  /\ j.pc \in {"look", "dns"} \cup Readings => op \in DnsOps
  /\ j.pc \in {"dns", "after"} => op # "dnsGet"
  /\ j.pc \in {"look", "dns"} => j.probe = 1
  /\ j.remove \subseteq j.plan.remove /\ j.insert \subseteq j.plan.add
  /\ j.pc \in {"find", "del"} /\ op = "apply" => j.dest \in j.plan.remove
  /\ j.pc \in {"insert", "commit"} => j.remove = {}
  /\ j.pc = "commit" => j.insert = {} /\ ~j.errors

\* What there is now, and what an apply has read, is in the history of the call.
Watched(f, g, j, s) ==
  /\ f.dns # g.dns => s.differed
  /\ TaggedDests(g.static, j.plan.tag) \subseteq s.tagged
  /\ j.pc \in {"remove", "find", "del"} /\ j.call.op = "apply" =>
       TaggedDests(j.existing, j.plan.tag) \subseteq s.tagged
  /\ j.pc \in {"find", "del"} /\ j.call.op = "apply" => j.dest \in s.tagged

\* The n-th request of a read shows v, and ends it.
EndsAt(prefer, f, g, v, n) ==
  /\ v = Shown(ProbedRoot(prefer, n), f, g)
  /\ v # {} \/ n = LastProbe
  /\ \A q \in Probes : q < n => Shown(ProbedRoot(prefer, q), f, g) = {}

\* A read of dns routes f (rc) and g (sc) yields v.
ReadAs(prefer, f, g, v) == \E n \in Probes : EndsAt(prefer, f, g, v, n)

Prefers(pc) == IF pc = "saved" THEN "sc" ELSE "rc"

\* What an undisturbed call about dns routes knows.
Undisturbed(f, g, j, s) ==
  /\ j.pc \in Readings =>
       \A q \in Probes : q < j.probe => Shown(ProbedRoot(Prefers(j.pc), q), f, g) = {}
  /\ j.pc = "dns" => ReadAs("rc", f, g, j.old)
  /\ j.pc = "after" /\ ~s.wrote => \/ ReadAs("rc", f, g, j.old)
                                   \/ s.saved /\ f = {} /\ g = {}
  /\ j.pc = "saved" => ReadAs("rc", f, g, IF j.call.op = "dnsGet" THEN j.old ELSE j.new)
  /\ j.pc = "saved" /\ j.call.op # "dnsGet" /\ ~s.wrote =>
       j.old = j.new \/ (s.saved /\ j.new = {})

\* An apply without errors has removed what it no longer has to remove, will
\* find the rest, and has added what it no longer has to add.
OnCourse(f, j) ==
  LET tagged == TaggedDests(f.static, j.plan.tag) IN
  /\ \A d \in tagged \cap j.plan.remove :
       /\ d \in j.remove \/ (j.pc \in {"find", "del"} /\ d = j.dest)
       /\ j.pc \in {"remove", "find", "del"} => d \in TaggedDests(j.existing, j.plan.tag)
  /\ j.plan.add \subseteq tagged \cup j.insert

Fits(f, g, S, j, s) ==
  /\ Ordered(j)
  /\ Watched(f, g, j, s)
  /\ ~s.raced /\ ~j.unread => Undisturbed(f.dns, g.dns, j, s)
  /\ j.pc \in Busy /\ j.call.op = "apply" /\ ~j.errors /\ j.plan \in S => OnCourse(f, j)

\* What an answer may say.
Honest(r, s) ==
  /\ r.hit => s.wrote \/ s.raced \/ r.unread \/ (r.op = "dnsDelete" /\ s.saved)
  /\ r.dirty => s.differed \/ s.raced \/ r.unread

Good(f, g, S, j, r, s) ==
  IF j.pc = "idle" THEN Honest(r, s) ELSE r = NoReport /\ Fits(f, g, S, j, s)

\* A plan and a set of routes that its applies alone have changed since.
Between(p, R) ==
  /\ TaggedDests(R, p.tag) \subseteq p.want \cup p.remove
  /\ p.want \subseteq TaggedDests(R, p.tag) \cup p.add

\* The same of both configurations; what is gone from sc is gone from rc.
Sound(p, R, Q) ==
  /\ p.add \subseteq p.want /\ p.remove \cap p.want = {}
  /\ Between(p, R) /\ Between(p, Q)
  /\ TaggedDests(R, p.tag) \cap p.remove \subseteq TaggedDests(Q, p.tag)

Inv ==
  /\ TypeOK
  /\ \A p \in fresh : Sound(p, rc.static, sc.static)
  /\ \A t \in Task : Good(rc, sc, fresh, job[t], report[t], seen[t])

-----------------------------------------------------------------------------
(* Tags and configurations. *)

LEMMA TagsFacts ==
  ASSUME NEW S, NEW l
  PROVE  /\ \A r \in S : Tagged(r, l) => r.dest \in TaggedDests(S, l)
         /\ \A d \in TaggedDests(S, l) : \E r \in S : Tagged(r, l) /\ r.dest = d
BY DEF TaggedDests

LEMMA TagsType ==
  ASSUME NEW S \in SUBSET Route, NEW l
  PROVE  TaggedDests(S, l) \subseteq Dest
BY TagsFacts DEF Route

\* To remove the routes to d takes d, ...
LEMMA TagsRemove ==
  ASSUME NEW S, NEW l, NEW d
  PROVE  TaggedDests(S \ At(S, d), l) = TaggedDests(S, l) \ {d}
<1> DEFINE T == S \ At(S, d)
<1>1. \A r : r \in T <=> r \in S /\ r.dest # d
  BY DEF At
<1> HIDE DEF T
<1>2. ASSUME NEW x \in TaggedDests(T, l) PROVE x \in TaggedDests(S, l) \ {d}
  BY <1>1, TagsFacts
<1>3. ASSUME NEW x \in TaggedDests(S, l) \ {d} PROVE x \in TaggedDests(T, l)
  BY <1>1, TagsFacts
<1>4. TaggedDests(T, l) = TaggedDests(S, l) \ {d}
  BY <1>2, <1>3
<1>5. QED
  BY <1>4 DEF T

\* ... and a new route adds its destination if it has the tag.
LEMMA TagsAdd ==
  ASSUME NEW S, NEW l, NEW r
  PROVE  /\ TaggedDests(S, l) \subseteq TaggedDests(S \cup {r}, l)
         /\ TaggedDests(S \cup {r}, l) \subseteq TaggedDests(S, l) \cup {r.dest}
         /\ Tagged(r, l) => r.dest \in TaggedDests(S \cup {r}, l)
<1> DEFINE T == S \cup {r}
<1>1. \A q : q \in T <=> q \in S \/ q = r
  OBVIOUS
<1> HIDE DEF T
<1>2. ASSUME NEW x \in TaggedDests(S, l) PROVE x \in TaggedDests(T, l)
  BY <1>1, TagsFacts
<1>3. ASSUME NEW x \in TaggedDests(T, l) PROVE x \in TaggedDests(S, l) \cup {r.dest}
  BY <1>1, TagsFacts
<1>4. Tagged(r, l) => r.dest \in TaggedDests(T, l)
  BY <1>1, TagsFacts
<1>5. QED
  BY <1>2, <1>3, <1>4 DEF T

\* A list has its own tag.
LEMMA OwnTag ==
  ASSUME NEW l \in ListName, NEW d
  PROVE  Tagged([dest |-> d, tag |-> l], l)
BY RoutesAssumption DEF Tagged

LEMMA PlanTypes ==
  /\ AnyDest \in Dest /\ AnyList \in ListName /\ (CHOOSE d \in DnsRoute : TRUE) \in DnsRoute
  /\ NoPlan \in Plan
<1>1. AnyDest \in Dest /\ AnyList \in ListName /\ (CHOOSE d \in DnsRoute : TRUE) \in DnsRoute
  BY RoutesAssumption DEF AnyDest, AnyList
<1>2. QED
  BY <1>1 DEF NoPlan, Plan

LEMMA MakePlanFacts ==
  ASSUME NEW l \in ListName, NEW want \in SUBSET Dest, NEW S \in SUBSET Route
  PROVE  /\ MakePlan(l, want, S) \in Plan
         /\ MakePlan(l, want, S).tag = l
         /\ Sound(MakePlan(l, want, S), S, S)
<1> DEFINE tags == TaggedDests(S, l)
           p == MakePlan(l, want, S)
<1>1. tags \subseteq Dest
  BY TagsType
<1>2. p = [tag |-> l, want |-> want, add |-> want \ tags, remove |-> tags \ want]
  BY DEF MakePlan
<1> HIDE DEF tags, p
<1>3. p \in Plan /\ p.tag = l /\ p.want = want /\ p.add = want \ tags /\ p.remove = tags \ want
  BY <1>1, <1>2 DEF Plan
<1>4. Sound(p, S, S)
  BY <1>3 DEF Sound, Between, tags
<1>5. QED
  BY <1>3, <1>4 DEF p

-----------------------------------------------------------------------------
(* What a writing request does. *)

LEMMA CallFacts ==
  ASSUME NEW j \in Job
  PROVE  /\ j.pc \in Phases /\ j.call \in Call /\ j.call.op \in Ops /\ j.call.dest \in Dest
         /\ j.call.tag \in Comment /\ j.call.dns \in DnsRoute /\ j.call.save \in BOOLEAN
         /\ j.call.op = "plan" => j.call.tag \in ListName
         /\ j.plan \in Plan /\ j.plan.tag \in ListName /\ j.plan.want \subseteq Dest
         /\ j.plan.add \subseteq Dest /\ j.plan.remove \subseteq Dest
         /\ j.existing \subseteq Route /\ j.dest \in Dest /\ j.errors \in BOOLEAN
         /\ j.remove \subseteq Dest /\ j.insert \subseteq Dest
         /\ j.probe \in Probes /\ j.unread \in BOOLEAN
         /\ j.old \subseteq DnsRoute /\ j.new \subseteq DnsRoute
<1>1. j.call \in Call /\ j.plan \in Plan
  BY DEF Job
<1>2. /\ j.call.op \in Ops /\ j.call.dest \in Dest /\ j.call.tag \in Comment
      /\ j.call.dns \in DnsRoute /\ j.call.save \in BOOLEAN
      /\ j.call.op = "plan" => j.call.tag \in ListName
  BY <1>1 DEF Call
<1>3. /\ j.plan.tag \in ListName /\ j.plan.want \subseteq Dest
      /\ j.plan.add \subseteq Dest /\ j.plan.remove \subseteq Dest
  BY <1>1 DEF Plan
<1>4. QED
  BY <1>1, <1>2, <1>3 DEF Job

\* g is f after a request of j about d.
Made(f, j, d, g) ==
  /\ g \in Config
  /\ j.pc = "del" => g.static = f.static \ At(f.static, d) /\ g.dns = f.dns
  /\ j.pc = "put" => g.static = f.static \cup {[dest |-> d, tag |-> j.call.tag]} /\ g.dns = f.dns
  /\ j.pc = "insert" => g.static = f.static \cup {[dest |-> d, tag |-> j.plan.tag]} /\ g.dns = f.dns
  /\ j.pc = "commit" => g = f
  /\ j.pc = "dns" =>
       /\ g.static = f.static
       /\ \E i \in Index : \A r \in DnsRoute : r.index # i => (r \in g.dns <=> r \in f.dns)

LEMMA EffectsMade ==
  ASSUME NEW f \in Config, NEW j \in Job, j.pc \in WritePhases, NEW d \in Dest,
         NEW g \in Effects(f, j, d)
  PROVE  Made(f, j, d, g)
<1> USE DEF Config
<1>1. f.static \subseteq Route /\ f.dns \subseteq DnsRoute
  OBVIOUS
<1>2. ASSUME NEW S \in SUBSET Route
      PROVE  [f EXCEPT !.static = S] \in Config /\ [f EXCEPT !.static = S].static = S
             /\ [f EXCEPT !.static = S].dns = f.dns
  OBVIOUS
<1>3. ASSUME NEW D \in SUBSET DnsRoute
      PROVE  [f EXCEPT !.dns = D] \in Config /\ [f EXCEPT !.dns = D].dns = D
             /\ [f EXCEPT !.dns = D].static = f.static
  OBVIOUS
<1>4. f \in Config
  OBVIOUS
<1> USE CallFacts
<1> HIDE DEF Config
<1>5. CASE j.pc = "del"
  <2> DEFINE S == f.static \ At(f.static, d)
  <2>1. g = [f EXCEPT !.static = S]
    BY <1>5 DEF Effects
  <2>2. S \in SUBSET Route
    BY <1>1
  <2> HIDE DEF S
  <2>3. g \in Config /\ g.static = S /\ g.dns = f.dns
    BY <1>2, <2>1, <2>2
  <2>4. QED
    BY <1>5, <2>3 DEF Made, S
<1>6. ASSUME j.pc \in {"put", "insert"} PROVE Made(f, j, d, g)
  <2> DEFINE l == IF j.pc = "put" THEN j.call.tag ELSE j.plan.tag
             S == f.static \cup {[dest |-> d, tag |-> l]}
  <2>1. g = [f EXCEPT !.static = S]
    BY <1>6 DEF Effects
  <2>2. l \in Comment
    BY DEF Comment
  <2>3. S \in SUBSET Route
    BY <1>1, <2>2 DEF Route
  <2> HIDE DEF S
  <2>4. g \in Config /\ g.static = S /\ g.dns = f.dns
    BY <1>2, <2>1, <2>3
  <2>5. QED
    BY <1>6, <2>4 DEF Made, S
<1>7. CASE j.pc = "commit"
  BY <1>4, <1>7 DEF Made, Effects
<1>8. CASE j.pc = "dns" /\ j.call.op = "dnsDelete"
  <2> DEFINE i == j.call.dns.index
             D == {r \in f.dns : r.index # i}
  <2>1. g = [f EXCEPT !.dns = D]
    BY <1>8 DEF Effects
  <2>2. D \in SUBSET DnsRoute /\ \A r \in DnsRoute : r.index # i => (r \in D <=> r \in f.dns)
    BY <1>1
  <2>3. i \in Index
    BY DEF DnsRoute
  <2> HIDE DEF D, i
  <2>4. g \in Config /\ g.dns = D /\ g.static = f.static
    BY <1>3, <2>1, <2>2
  <2>5. QED
    BY <1>8, <2>2, <2>3, <2>4 DEF Made
<1>9. CASE j.pc = "dns" /\ j.call.op # "dnsDelete"
  <2>1. CASE g = f
    <3>1. j.call.dns.index \in Index
      BY DEF DnsRoute
    <3>2. QED
      BY <1>4, <1>9, <2>1, <3>1 DEF Made
  <2>2. ASSUME NEW i \in Index,
               g = [f EXCEPT !.dns = @ \cup {[j.call.dns EXCEPT !.index = i]}]
        PROVE  Made(f, j, d, g)
    <3> DEFINE e == [j.call.dns EXCEPT !.index = i]
               D == f.dns \cup {e}
    <3>1. e \in DnsRoute /\ e.index = i
      BY DEF DnsRoute
    <3>2. g = [f EXCEPT !.dns = D]
      BY <2>2
    <3> HIDE DEF e
    <3>3. D \in SUBSET DnsRoute /\ \A r \in DnsRoute : r.index # i => (r \in D <=> r \in f.dns)
      BY <1>1, <3>1
    <3> HIDE DEF D
    <3>4. g \in Config /\ g.dns = D /\ g.static = f.static
      BY <1>3, <3>2, <3>3
    <3>5. QED
      BY <1>9, <3>3, <3>4 DEF Made
  <2>3. \/ g = f
        \/ \E i \in Index : g = [f EXCEPT !.dns = @ \cup {[j.call.dns EXCEPT !.index = i]}]
    BY <1>9 DEF Effects
  <2>4. QED
    BY <2>1, <2>2, <2>3
<1>10. QED
  BY <1>5, <1>6, <1>7, <1>8, <1>9 DEF WritePhases

-----------------------------------------------------------------------------
(* How a step of one task leaves the others. *)

LEMMA IdleTypes ==
  /\ IdleJob \in Job /\ IdleJob.pc = "idle"
  /\ NoReport \in Report /\ NoReport.op = "none" /\ ~NoReport.ok /\ ~NoReport.hit
  /\ ~NoReport.dirty /\ ~NoReport.saved
  /\ NothingSeen \in Seen
<1>1. NoCall \in Call
  <2>1. "plan" \in Ops
    BY DEF Ops
  <2>2. NoCall \in [op : Ops, dest : Dest, tag : Comment, dns : DnsRoute,
                    save : BOOLEAN, confirm : BOOLEAN]
    BY <2>1, PlanTypes DEF NoCall, Comment
  <2>3. NoCall.tag \in ListName
    BY PlanTypes DEF NoCall
  <2>4. QED
    BY <2>2, <2>3 DEF Call
<1>2. IdleJob \in Job /\ IdleJob.pc = "idle"
  BY <1>1, PlanTypes DEF IdleJob, Job, Phases, Probes
<1>3. /\ NoReport \in Report /\ NoReport.op = "none" /\ ~NoReport.ok /\ ~NoReport.hit
      /\ ~NoReport.dirty /\ ~NoReport.saved
  BY PlanTypes DEF NoReport, Report, NoCall
<1>4. NothingSeen \in Seen
  BY DEF NothingSeen, Seen
<1>5. QED
  BY <1>2, <1>3, <1>4

\* R becomes Q: what is to be removed does not come back, what is to be added
\* does not go.
Progress(p, R, Q) ==
  /\ TaggedDests(Q, p.tag) \cap p.remove \subseteq TaggedDests(R, p.tag)
  /\ TaggedDests(R, p.tag) \cap p.add \subseteq TaggedDests(Q, p.tag)

\* Task t makes a request.
Moves(t) ==
  /\ Active(t)
  /\ Observe(t)
  /\ rc' \in Config /\ sc' \in Config
  /\ plans' \subseteq Plan /\ fresh' \subseteq plans'
  /\ UNCHANGED calls
  /\ \A p \in fresh' :
       /\ Sound(p, rc'.static, sc'.static)
       /\ Underway(p) => p \in fresh /\ Progress(p, rc.static, rc'.static)

LEMMA ActiveFacts ==
  ASSUME Inv, NEW t \in Task, Active(t)
  PROVE  /\ job[t] \in Job /\ report[t] = NoReport /\ seen[t] \in Seen
         /\ Fits(rc, sc, fresh, job[t], seen[t])
BY DEF Inv, TypeOK, Good, Active

LEMMA ConfigFacts ==
  ASSUME NEW f \in Config
  PROVE  f.static \subseteq Route /\ f.dns \subseteq DnsRoute
BY DEF Config

LEMMA ObserveFacts ==
  ASSUME Inv, NEW t \in Task, Moves(t)
  PROVE  /\ seen' \in [Task -> Seen]
         /\ seen'[t].raced = seen[t].raced
         /\ seen'[t].wrote <=> seen[t].wrote \/ rc' # rc
         /\ seen'[t].saved <=> seen[t].saved \/ sc' # sc
         /\ \A u \in Task :
              IF Active(u)
              THEN /\ (seen[u].differed => seen'[u].differed)
                   /\ (rc'.dns # sc'.dns => seen'[u].differed)
                   /\ seen[u].tagged \cup TaggedDests(sc'.static, job[u].plan.tag)
                        \subseteq seen'[u].tagged
                   /\ u # t => /\ seen'[u].wrote = seen[u].wrote
                               /\ seen'[u].saved = seen[u].saved
                   /\ u # t /\ ~seen'[u].raced => ~seen[u].raced /\ rc' = rc /\ sc' = sc
              ELSE seen'[u] = seen[u]
<1> DEFINE tags(u) == TaggedDests(sc'.static, job[u].plan.tag)
           new(u) ==
             [differed |-> seen[u].differed \/ rc'.dns # sc'.dns,
              raced |-> seen[u].raced \/ (u # t /\ (rc' # rc \/ sc' # sc)),
              wrote |-> seen[u].wrote \/ (u = t /\ rc' # rc),
              saved |-> seen[u].saved \/ (u = t /\ sc' # sc),
              tagged |-> seen[u].tagged \cup tags(u)]
<1>1. seen' = [u \in Task |-> IF ~Active(u) THEN seen[u] ELSE new(u)]
  BY DEF Moves, Observe
<1>2. ASSUME NEW u \in Task
      PROVE  /\ seen[u] \in Seen /\ new(u) \in Seen
             /\ seen[u].raced \in BOOLEAN /\ seen[u].wrote \in BOOLEAN /\ seen[u].saved \in BOOLEAN
  <2>1. seen[u] \in Seen
    BY DEF Inv, TypeOK
  <2>2. tags(u) \subseteq Dest
    BY TagsType, ConfigFacts DEF Moves
  <2> HIDE DEF tags
  <2>3. /\ seen[u].differed \in BOOLEAN /\ seen[u].raced \in BOOLEAN
        /\ seen[u].wrote \in BOOLEAN /\ seen[u].saved \in BOOLEAN /\ seen[u].tagged \subseteq Dest
    BY <2>1 DEF Seen
  <2>4. new(u) \in Seen
    BY <2>2, <2>3 DEF Seen
  <2>5. QED
    BY <2>1, <2>3, <2>4
<1> HIDE DEF tags
<1>3. /\ new(t).raced = seen[t].raced
      /\ new(t).wrote <=> seen[t].wrote \/ rc' # rc
      /\ new(t).saved <=> seen[t].saved \/ sc' # sc
  BY <1>2
<1>4. ASSUME NEW u \in Task
      PROVE  /\ (seen[u].differed => new(u).differed)
             /\ (rc'.dns # sc'.dns => new(u).differed)
             /\ seen[u].tagged \cup tags(u) \subseteq new(u).tagged
             /\ u # t => new(u).wrote = seen[u].wrote /\ new(u).saved = seen[u].saved
             /\ u # t /\ ~new(u).raced => ~seen[u].raced /\ rc' = rc /\ sc' = sc
  BY <1>2
<1> HIDE DEF new
<1>5. seen' \in [Task -> Seen]
  BY <1>1, <1>2
<1>6. seen'[t] = new(t)
  BY <1>1 DEF Moves
<1>7. QED
  BY <1>1, <1>3, <1>4, <1>5, <1>6 DEF tags

LEMMA CourseKept ==
  ASSUME NEW f, NEW g, NEW j, OnCourse(f, j), Progress(j.plan, f.static, g.static)
  PROVE  OnCourse(g, j)
BY DEF OnCourse, Progress

\* What another task knows stays true.
LEMMA OthersFit ==
  ASSUME Inv, NEW t \in Task, Moves(t), NEW u \in Task, u # t
  PROVE  Good(rc', sc', fresh', job[u], report[u], seen'[u])
<1>1. Good(rc, sc, fresh, job[u], report[u], seen[u])
  BY DEF Inv
<1>2. CASE ~Active(u)
  <2>1. seen'[u] = seen[u]
    BY <1>2, ObserveFacts
  <2>2. QED
    BY <1>1, <1>2, <2>1 DEF Good, Active
<1>3. CASE Active(u)
  <2> DEFINE j == job[u]
  <2>1. report[u] = NoReport /\ Fits(rc, sc, fresh, j, seen[u])
    BY <1>3, ActiveFacts
  <2>2. /\ rc'.dns # sc'.dns => seen'[u].differed
        /\ seen[u].tagged \cup TaggedDests(sc'.static, j.plan.tag) \subseteq seen'[u].tagged
        /\ seen'[u].wrote = seen[u].wrote /\ seen'[u].saved = seen[u].saved
        /\ ~seen'[u].raced => ~seen[u].raced /\ rc' = rc /\ sc' = sc
    BY <1>3, ObserveFacts
  <2>3. Ordered(j) /\ Watched(rc', sc', j, seen'[u])
    BY <2>1, <2>2 DEF Watched, Fits
  <2>4. ~seen'[u].raced /\ ~j.unread => Undisturbed(rc'.dns, sc'.dns, j, seen'[u])
    <3>1. ~seen'[u].raced /\ ~j.unread => Undisturbed(rc.dns, sc.dns, j, seen[u])
      BY <2>1, <2>2 DEF Fits
    <3>2. QED
      BY <2>2, <3>1 DEF Undisturbed
  <2>5. ASSUME j.pc \in Busy, j.call.op = "apply", ~j.errors, j.plan \in fresh'
        PROVE  OnCourse(rc', j)
    <3>1. Underway(j.plan)
      BY <2>5 DEF Underway, Busy
    <3>2. j.plan \in fresh /\ Progress(j.plan, rc.static, rc'.static)
      BY <2>5, <3>1 DEF Moves
    <3>3. OnCourse(rc, j)
      BY <2>1, <2>5, <3>2 DEF Fits
    <3>4. QED
      BY <3>2, <3>3, CourseKept
  <2>6. QED
    BY <1>3, <2>1, <2>3, <2>4, <2>5 DEF Good, Fits, Active
<1>4. QED
  BY <1>2, <1>3

LEMMA StepInv ==
  ASSUME Inv, NEW t \in Task, Moves(t), NEW j \in Job, NEW r \in Report,
         job' = [job EXCEPT ![t] = j], report' = [report EXCEPT ![t] = r],
         Good(rc', sc', fresh', j, r, seen'[t])
  PROVE  Inv'
<1>1. \A u \in Task : Good(rc', sc', fresh', job'[u], report'[u], seen'[u])
  BY OthersFit DEF Inv, TypeOK
<1>2. TypeOK'
  BY ObserveFacts DEF Inv, TypeOK, Moves
<1>3. \A p \in fresh' : Sound(p, rc'.static, sc'.static)
  BY DEF Moves
<1>4. QED
  BY <1>1, <1>2, <1>3 DEF Inv

-----------------------------------------------------------------------------
(* The ways a request ends. *)

\* The routes of a list are what its plan wants.
Reached(p) ==
  /\ TaggedDests(rc'.static, p.tag) = p.want
  /\ TaggedDests(sc'.static, p.tag) = p.want

\* A saved apply of a fresh plan has reached it.
Ends(t) ==
  Finished(t) /\ report'[t].op = "apply" /\ report'[t].saved /\ job[t].plan \in fresh' =>
    Reached(job[t].plan)

\* The job of t alone changes; the call goes on as it was made, or ends.
OwnJob(t) ==
  \/ job' = [job EXCEPT ![t] = IdleJob]
  \/ \E k \in Job : job' = [job EXCEPT ![t] = k] /\ k.pc # "idle" /\ k.call = job[t].call

Fine(t) == Inv' /\ Ends(t) /\ OwnJob(t)

LEMMA GotoFine ==
  ASSUME Inv, NEW t \in Task, Moves(t), NEW k \in Job, k.pc # "idle", Goto(t, k),
         k.call = job[t].call, Fits(rc', sc', fresh', k, seen'[t])
  PROVE  Fine(t)
<1>1. report[t] = NoReport /\ report \in [Task -> Report] /\ job \in [Task -> Job]
  BY ActiveFacts DEF Moves, Inv, TypeOK
<1>2. job' = [job EXCEPT ![t] = k] /\ report' = [report EXCEPT ![t] = NoReport]
  BY <1>1 DEF Goto
<1>3. Good(rc', sc', fresh', k, NoReport, seen'[t])
  BY DEF Good
<1>4. Inv'
  BY <1>2, <1>3, StepInv, IdleTypes
<1>5. ~Finished(t)
  BY <1>1, <1>2 DEF Finished
<1>6. OwnJob(t)
  BY <1>2 DEF OwnJob
<1>7. QED
  BY <1>4, <1>5, <1>6 DEF Fine, Ends

LEMMA AnswerFine ==
  ASSUME Inv, NEW t \in Task, Moves(t), NEW r \in Report, Answer(t, r), Honest(r, seen'[t]),
         r.ok /\ r.op = "apply" /\ r.saved /\ job[t].plan \in fresh' => Reached(job[t].plan)
  PROVE  Fine(t)
<1>1. job' = [job EXCEPT ![t] = IdleJob] /\ report' = [report EXCEPT ![t] = r]
  BY DEF Answer
<1>2. Good(rc', sc', fresh', IdleJob, r, seen'[t])
  BY IdleTypes DEF Good
<1>3. Inv'
  BY <1>1, <1>2, StepInv, IdleTypes
<1>4. report'[t] = r
  BY <1>1 DEF Inv, TypeOK
<1>5. OwnJob(t)
  BY <1>1 DEF OwnJob
<1>6. QED
  BY <1>3, <1>4, <1>5 DEF Fine, Ends, Finished

\* Plain answers: nothing is said about dns routes.
IsPlain(r, op, ok, saved) ==
  /\ r \in Report /\ r.op = op /\ r.ok = ok /\ r.saved = saved
  /\ \A s : Honest(r, s)

LEMMA PlainReports ==
  ASSUME NEW op \in Ops, NEW ok \in BOOLEAN, NEW saved \in BOOLEAN
  PROVE  IsPlain([NoReport EXCEPT !.op = op, !.ok = ok, !.saved = saved], op, ok, saved)
<1> DEFINE r == [NoReport EXCEPT !.op = op, !.ok = ok, !.saved = saved]
<1>1. /\ r \in Report /\ r.op = op /\ r.ok = ok /\ r.saved = saved
      /\ r.hit = NoReport.hit /\ r.dirty = NoReport.dirty
  BY IdleTypes DEF Report
<1>2. \A s : Honest(r, s)
  BY <1>1, IdleTypes DEF Honest
<1>3. QED
  BY <1>1, <1>2 DEF IsPlain

LEMMA RaiseFine ==
  ASSUME Inv, NEW t \in Task, Moves(t), Raise(t)
  PROVE  Fine(t)
<1> DEFINE op == job[t].call.op
           r == [NoReport EXCEPT !.op = op, !.ok = FALSE, !.saved = FALSE]
<1>1. op \in Ops
  BY ActiveFacts, CallFacts DEF Moves
<1>2. NoReport.ok = FALSE /\ NoReport.saved = FALSE
  BY DEF NoReport
<1>3. [NoReport EXCEPT !.op = op] = r
  BY <1>2, IdleTypes DEF Report
<1>4. Answer(t, r)
  BY <1>3 DEF Raise
<1>5. IsPlain(r, op, FALSE, FALSE)
  BY <1>1, PlainReports
<1> HIDE DEF r
<1>6. r \in Report /\ r.ok = FALSE /\ Honest(r, seen'[t])
  BY <1>5 DEF IsPlain
<1>7. QED
  BY <1>4, <1>6, AnswerFine

\* A step that writes nothing and keeps the plans.
LEMMA QuietMoves ==
  ASSUME Inv, NEW t \in Task, Active(t), Reads(t), UNCHANGED <<plans, fresh>>
  PROVE  Moves(t) /\ rc' = rc /\ sc' = sc /\ fresh' = fresh
<1>1. /\ rc' = rc /\ sc' = sc /\ fresh' = fresh /\ plans' = plans /\ calls' = calls /\ Observe(t)
  BY DEF Reads
<1>2. \A p \in fresh' : Sound(p, rc'.static, sc'.static)
  BY <1>1 DEF Inv
<1>3. \A p \in fresh' : p \in fresh /\ Progress(p, rc.static, rc'.static)
  BY <1>1 DEF Progress
<1>4. QED
  BY <1>1, <1>2, <1>3 DEF Moves, Inv, TypeOK

\* A call goes on outside the reads of dns routes.
LEMMA PlainGoto ==
  ASSUME Inv, NEW t \in Task, Moves(t), NEW k \in Job, Goto(t, k),
         k.pc \notin {"idle", "dns"} \cup Readings, k.call = job[t].call,
         k.plan.tag = job[t].plan.tag, Ordered(k),
         k.call.op = "apply" /\ k.pc \in {"remove", "find", "del"} =>
           TaggedDests(k.existing, k.plan.tag) \subseteq seen'[t].tagged,
         k.call.op = "apply" /\ k.pc \in {"find", "del"} => k.dest \in seen'[t].tagged,
         k.call.op = "apply" /\ k.pc \in Busy /\ ~k.errors /\ k.plan \in fresh' => OnCourse(rc', k)
  PROVE  Fine(t)
<1>1. /\ rc'.dns # sc'.dns => seen'[t].differed
      /\ TaggedDests(sc'.static, k.plan.tag) \subseteq seen'[t].tagged
  BY ObserveFacts DEF Moves
<1>2. Watched(rc', sc', k, seen'[t])
  BY <1>1 DEF Watched
<1>3. Undisturbed(rc'.dns, sc'.dns, k, seen'[t])
  BY DEF Undisturbed, Readings
<1>4. Fits(rc', sc', fresh', k, seen'[t])
  BY <1>2, <1>3 DEF Fits
<1>5. QED
  BY <1>4, GotoFine

\* What the call has seen before it still has seen.
LEMMA StillSeen ==
  ASSUME Inv, NEW t \in Task, Moves(t)
  PROVE  LET j == job[t] IN
         /\ j \in Job /\ Ordered(j) /\ seen[t].tagged \subseteq seen'[t].tagged
         /\ j.call.op = "apply" /\ j.pc \in {"remove", "find", "del"} =>
              TaggedDests(j.existing, j.plan.tag) \subseteq seen'[t].tagged
         /\ j.call.op = "apply" /\ j.pc \in {"find", "del"} => j.dest \in seen'[t].tagged
         /\ j.call.op = "apply" /\ j.pc \in Busy /\ ~j.errors /\ j.plan \in fresh => OnCourse(rc, j)
<1>1. seen[t].tagged \subseteq seen'[t].tagged
  BY ObserveFacts DEF Moves
<1>2. job[t] \in Job /\ Fits(rc, sc, fresh, job[t], seen[t])
  BY ActiveFacts DEF Moves
<1>3. QED
  BY <1>1, <1>2 DEF Fits, Watched

LEMMA FailedFine ==
  ASSUME Inv, NEW t \in Task, Moves(t), Failed(t)
  PROVE  Fine(t)
<1> DEFINE j == job[t]
           k == [j EXCEPT !.pc = IF @ = "insert" THEN @ ELSE "remove", !.errors = TRUE]
<1>1. CASE ~(j.call.op = "apply" /\ j.pc \in {"find", "del", "insert"})
  BY <1>1, RaiseFine DEF Failed
<1>2. CASE j.call.op = "apply" /\ j.pc \in {"find", "del", "insert"}
  <2> DEFINE p == IF j.pc = "insert" THEN "insert" ELSE "remove"
  <2>1. j \in Job /\ Ordered(j)
    BY StillSeen
  <2>2. Goto(t, k) /\ p \in Phases /\ k = [j EXCEPT !.pc = p, !.errors = TRUE]
    BY <1>2, <2>1 DEF Failed, Phases, Job
  <2>3. /\ p \in {"insert", "remove"}
        /\ p = "insert" => j.pc = "insert"
        /\ p = "remove" => j.pc \in {"find", "del"}
    BY <1>2
  <2> HIDE DEF p
  <2>4. /\ k \in Job /\ k.pc = p /\ k.errors /\ k.call = j.call /\ k.plan = j.plan
        /\ k.existing = j.existing /\ k.remove = j.remove /\ k.insert = j.insert
    BY <2>1, <2>2 DEF Job
  <2> HIDE DEF k
  <2>5. Ordered(k)
    BY <1>2, <2>1, <2>3, <2>4 DEF Ordered, Readings
  <2>6. k.pc \in {"remove", "find", "del"} =>
          TaggedDests(k.existing, k.plan.tag) \subseteq seen'[t].tagged
    <3>1. j.pc \in {"find", "del"} =>
            TaggedDests(j.existing, j.plan.tag) \subseteq seen'[t].tagged
      BY <1>2, StillSeen
    <3>2. QED
      BY <2>3, <2>4, <3>1
  <2>7. QED
    BY <2>2, <2>3, <2>4, <2>5, <2>6, PlainGoto DEF Readings
<1>3. QED
  BY <1>1, <1>2

LEMMA ReadFailsFine ==
  ASSUME Inv, NEW t \in Task, ReadFails(t)
  PROVE  Fine(t)
<1>1. Active(t) /\ Failed(t) /\ UNCHANGED <<plans, fresh>> /\ Reads(t)
  BY DEF ReadFails, Active
<1>2. QED
  BY <1>1, QuietMoves, FailedFine

-----------------------------------------------------------------------------
(* Plans. *)

LEMMA ResolveFine ==
  ASSUME Inv, NEW t \in Task, Resolve(t)
  PROVE  Fine(t)
<1> DEFINE j == job[t]
<1>1. Active(t) /\ j.pc = "resolve" /\ UNCHANGED <<plans, fresh>> /\ Reads(t)
  BY DEF Resolve, Active
<1>2. Moves(t)
  BY <1>1, QuietMoves
<1>3. j \in Job /\ Ordered(j) /\ j.call.op = "plan"
  BY <1>1, <1>2, StillSeen DEF Ordered
<1>4. PICK want \in SUBSET Resolves[j.call.tag] :
        Goto(t, [j EXCEPT !.pc = "list", !.plan.want = want])
  BY DEF Resolve
<1>5. want \subseteq Dest
  BY <1>3, CallFacts, RoutesAssumption
<1> DEFINE q == [j.plan EXCEPT !.want = want]
           k == [j EXCEPT !.pc = "list", !.plan = q]
<1>6. q \in Plan /\ q.tag = j.plan.tag /\ q.remove = j.plan.remove /\ q.add = j.plan.add
  BY <1>3, <1>5, CallFacts DEF Plan
<1>7. Goto(t, k)
  BY <1>3, <1>4 DEF Job
<1> HIDE DEF q
<1>8. "list" \in Phases
  BY DEF Phases
<1>9. /\ k \in Job /\ k.pc = "list" /\ k.call = j.call /\ k.plan = q
      /\ k.remove = j.remove /\ k.insert = j.insert
  BY <1>3, <1>6, <1>8 DEF Job
<1> HIDE DEF k
<1>10. Ordered(k)
  BY <1>3, <1>6, <1>9 DEF Ordered, Readings
<1>11. QED
  BY <1>2, <1>3, <1>6, <1>7, <1>9, <1>10, PlainGoto DEF Readings

LEMMA OkReport ==
  ASSUME NEW op \in Ops
  PROVE  [NoReport EXCEPT !.op = op, !.ok = TRUE]
           = [NoReport EXCEPT !.op = op, !.ok = TRUE, !.saved = FALSE]
<1>1. NoReport.saved = FALSE
  BY DEF NoReport
<1>2. QED
  BY <1>1, IdleTypes DEF Report

\* An answer that does not say that an apply was saved.
LEMMA PlainAnswer ==
  ASSUME Inv, NEW t \in Task, Moves(t), NEW op \in Ops, NEW ok \in BOOLEAN, NEW saved \in BOOLEAN,
         Answer(t, [NoReport EXCEPT !.op = op, !.ok = ok, !.saved = saved]),
         ~saved \/ op # "apply"
  PROVE  Fine(t)
<1> DEFINE r == [NoReport EXCEPT !.op = op, !.ok = ok, !.saved = saved]
<1>1. IsPlain(r, op, ok, saved)
  BY PlainReports
<1>2. Answer(t, r)
  OBVIOUS
<1> HIDE DEF r
<1>3. r \in Report /\ Honest(r, seen'[t]) /\ ~(r.op = "apply" /\ r.saved)
  BY <1>1 DEF IsPlain
<1>4. QED
  BY <1>2, <1>3, AnswerFine

LEMMA ListAndPlanFine ==
  ASSUME Inv, NEW t \in Task, ListAndPlan(t)
  PROVE  Fine(t)
<1> DEFINE j == job[t]
           p == MakePlan(j.call.tag, j.plan.want, sc.static)
<1>1. /\ Active(t) /\ j.pc = "list" /\ Reads(t)
      /\ plans' = plans \cup {p}
      /\ fresh' = IF rc = sc /\ ~Underway(p) THEN fresh \cup {p} ELSE fresh \ {p}
      /\ Answer(t, [NoReport EXCEPT !.op = "plan", !.ok = TRUE])
  BY DEF ListAndPlan, Active
<1>2. rc' = rc /\ sc' = sc /\ calls' = calls /\ Observe(t)
  BY <1>1 DEF Reads
<1>3. j \in Job /\ j.call.op = "plan" /\ rc \in Config /\ sc \in Config
  BY <1>1, ActiveFacts DEF Fits, Ordered, Inv, TypeOK
<1>4. p \in Plan /\ Sound(p, sc.static, sc.static)
  BY <1>3, MakePlanFacts, CallFacts, ConfigFacts
<1> HIDE DEF p
<1>5. ASSUME NEW q \in fresh'
      PROVE  /\ Sound(q, rc'.static, sc'.static)
             /\ Underway(q) => q \in fresh /\ Progress(q, rc.static, rc'.static)
  <2>1. CASE q \in fresh
    <3>1. Sound(q, rc.static, sc.static) /\ Progress(q, rc.static, rc.static)
      BY <2>1 DEF Inv, Progress
    <3>2. QED
      BY <1>2, <2>1, <3>1
  <2>2. CASE q \notin fresh
    <3>1. q = p /\ rc = sc /\ ~Underway(p)
      BY <1>1, <1>5, <2>2
    <3>2. QED
      BY <1>2, <1>4, <3>1
  <2>3. QED
    BY <2>1, <2>2
<1>6. plans' \subseteq Plan /\ fresh' \subseteq plans'
  BY <1>1, <1>4 DEF Inv, TypeOK
<1>7. Moves(t)
  BY <1>1, <1>2, <1>3, <1>5, <1>6 DEF Moves
<1>8. "plan" \in Ops
  BY DEF Ops
<1>9. Answer(t, [NoReport EXCEPT !.op = "plan", !.ok = TRUE, !.saved = FALSE])
  BY <1>1, <1>8, OkReport
<1>10. QED
  BY <1>7, <1>8, <1>9, PlainAnswer

-----------------------------------------------------------------------------
(* Applies. *)

LEMMA BeginFine ==
  ASSUME Inv, NEW t \in Task, Begin(t)
  PROVE  Fine(t)
<1> DEFINE j == job[t]
           k == [j EXCEPT !.pc = "check"]
<1>1. Active(t) /\ j.pc = "begin" /\ UNCHANGED <<plans, fresh>> /\ Reads(t)
  BY DEF Begin, Active
<1>2. Moves(t)
  BY <1>1, QuietMoves
<1>3. j \in Job /\ Ordered(j) /\ j.call.op = "apply"
  BY <1>1, <1>2, StillSeen DEF Ordered
<1>4. CASE Raise(t)
  BY <1>2, <1>4, RaiseFine
<1>5. CASE Answer(t, [NoReport EXCEPT !.op = "apply", !.ok = TRUE])
  <2>1. "apply" \in Ops
    BY DEF Ops
  <2>2. Answer(t, [NoReport EXCEPT !.op = "apply", !.ok = TRUE, !.saved = FALSE])
    BY <1>5, <2>1, OkReport
  <2>3. QED
    BY <1>2, <2>1, <2>2, PlainAnswer
<1>6. CASE Goto(t, k)
  <2>1. "check" \in Phases
    BY DEF Phases
  <2>2. /\ k \in Job /\ k.pc = "check" /\ k.call = j.call /\ k.plan = j.plan
        /\ k.remove = j.remove /\ k.insert = j.insert
    BY <1>3, <2>1 DEF Job
  <2> HIDE DEF k
  <2>3. Ordered(k)
    BY <1>3, <2>2 DEF Ordered, Readings
  <2>4. QED
    BY <1>2, <1>6, <2>2, <2>3, PlainGoto DEF Readings, Busy
<1>7. QED
  BY <1>4, <1>5, <1>6 DEF Begin

LEMMA RecheckFine ==
  ASSUME Inv, NEW t \in Task, Recheck(t)
  PROVE  Fine(t)
<1> DEFINE j == job[t]
           k == [j EXCEPT !.pc = "remove", !.existing = sc.static,
                          !.remove = j.plan.remove, !.insert = j.plan.add]
<1>1. Active(t) /\ j.pc = "check" /\ UNCHANGED <<plans, fresh>> /\ Reads(t) /\ Goto(t, k)
  BY DEF Recheck, Active
<1>2. Moves(t) /\ rc' = rc /\ sc' = sc /\ fresh' = fresh
  BY <1>1, QuietMoves
<1>3. j \in Job /\ Ordered(j) /\ j.call.op = "apply"
  BY <1>1, <1>2, StillSeen DEF Ordered
<1>4. "remove" \in Phases /\ sc.static \subseteq Route /\ j.plan.remove \subseteq Dest
      /\ j.plan.add \subseteq Dest
  BY <1>3, ConfigFacts, CallFacts DEF Phases, Inv, TypeOK
<1>5. /\ k \in Job /\ k.pc = "remove" /\ k.call = j.call /\ k.plan = j.plan
      /\ k.remove = j.plan.remove /\ k.insert = j.plan.add /\ k.existing = sc.static
  BY <1>3, <1>4 DEF Job
<1> HIDE DEF k
<1>6. Ordered(k)
  BY <1>3, <1>5 DEF Ordered, Readings
<1>7. TaggedDests(k.existing, k.plan.tag) \subseteq seen'[t].tagged
  BY <1>2, <1>5, ObserveFacts DEF Moves
<1>8. ASSUME k.plan \in fresh' PROVE OnCourse(rc', k)
  <2>1. Sound(k.plan, rc.static, sc.static)
    BY <1>2, <1>8 DEF Inv
  <2>2. QED
    BY <1>2, <1>5, <2>1 DEF OnCourse, Sound
<1>9. QED
  BY <1>1, <1>2, <1>5, <1>6, <1>7, <1>8, PlainGoto DEF Readings

LEMMA RemovalFine ==
  ASSUME Inv, NEW t \in Task, Removal(t)
  PROVE  Fine(t)
<1> DEFINE j == job[t]
<1>1. Active(t) /\ j.pc = "remove" /\ UNCHANGED <<plans, fresh>> /\ Reads(t)
  BY DEF Removal, Active
<1>2. Moves(t) /\ rc' = rc /\ fresh' = fresh
  BY <1>1, QuietMoves
<1>3. /\ j \in Job /\ Ordered(j) /\ j.call.op = "apply" /\ j.remove \subseteq j.plan.remove
      /\ TaggedDests(j.existing, j.plan.tag) \subseteq seen'[t].tagged
      /\ ~j.errors /\ j.plan \in fresh => OnCourse(rc, j)
  BY <1>1, <1>2, StillSeen DEF Ordered, Busy
<1>4. {"remove", "insert", "find"} \subseteq Phases
  BY DEF Phases
<1>5. CASE j.remove = {} /\ Goto(t, [j EXCEPT !.pc = "insert"])
  <2> DEFINE k == [j EXCEPT !.pc = "insert"]
  <2>1. /\ k \in Job /\ k.pc = "insert" /\ k.call = j.call /\ k.plan = j.plan
        /\ k.remove = j.remove /\ k.insert = j.insert /\ k.errors = j.errors
    BY <1>3, <1>4 DEF Job
  <2> HIDE DEF k
  <2>2. Ordered(k)
    BY <1>3, <1>5, <2>1 DEF Ordered, Readings
  <2>3. ~k.errors /\ k.plan \in fresh' => OnCourse(rc', k)
    BY <1>1, <1>2, <1>3, <1>5, <2>1 DEF OnCourse
  <2>4. QED
    BY <1>2, <1>5, <2>1, <2>2, <2>3, PlainGoto DEF Readings, k
<1>6. ASSUME NEW d \in j.remove, At(j.existing, d) = {}, Goto(t, [j EXCEPT !.remove = @ \ {d}])
      PROVE  Fine(t)
  <2> DEFINE left == j.remove \ {d}
             k == [j EXCEPT !.remove = left]
  <2>1. left \subseteq Dest /\ left \subseteq j.plan.remove
    BY <1>3, CallFacts
  <2>2. Goto(t, k)
    BY <1>3, <1>6 DEF Job
  <2> HIDE DEF left
  <2>3. /\ k \in Job /\ k.pc = "remove" /\ k.call = j.call /\ k.plan = j.plan
        /\ k.remove = left /\ k.insert = j.insert /\ k.existing = j.existing
        /\ k.errors = j.errors
    BY <1>1, <1>3, <2>1 DEF Job
  <2> HIDE DEF k
  <2>4. Ordered(k)
    BY <1>3, <2>1, <2>3 DEF Ordered, Readings
  <2>5. d \notin TaggedDests(j.existing, j.plan.tag)
    BY <1>6, TagsFacts DEF At
  <2>6. ~k.errors /\ k.plan \in fresh' => OnCourse(rc', k)
    BY <1>1, <1>2, <1>3, <2>3, <2>5 DEF OnCourse, left
  <2>7. QED
    BY <1>2, <1>3, <2>2, <2>3, <2>4, <2>6, PlainGoto DEF Readings
<1>7. ASSUME NEW d \in j.remove, NEW r \in At(j.existing, d), Tagged(r, j.plan.tag),
             Goto(t, [j EXCEPT !.remove = @ \ {d}, !.pc = "find", !.dest = d])
      PROVE  Fine(t)
  <2> DEFINE left == j.remove \ {d}
             k == [j EXCEPT !.remove = left, !.pc = "find", !.dest = d]
  <2>1. left \subseteq Dest /\ left \subseteq j.plan.remove /\ d \in Dest
    BY <1>3, <1>7, CallFacts
  <2>2. Goto(t, k)
    BY <1>3, <1>7 DEF Job
  <2> HIDE DEF left
  <2>3. /\ k \in Job /\ k.pc = "find" /\ k.call = j.call /\ k.plan = j.plan
        /\ k.remove = left /\ k.insert = j.insert /\ k.existing = j.existing
        /\ k.errors = j.errors /\ k.dest = d
    BY <1>3, <1>4, <2>1 DEF Job
  <2> HIDE DEF k
  <2>4. Ordered(k)
    BY <1>3, <1>7, <2>1, <2>3 DEF Ordered, Readings
  <2>5. d \in TaggedDests(j.existing, j.plan.tag)
    BY <1>7, TagsFacts DEF At
  <2>6. ~k.errors /\ k.plan \in fresh' => OnCourse(rc', k)
    BY <1>1, <1>2, <1>3, <2>3 DEF OnCourse, left
  <2>7. QED
    BY <1>2, <1>3, <2>2, <2>3, <2>4, <2>5, <2>6, PlainGoto DEF Readings
<1>8. ASSUME NEW d \in j.remove, Goto(t, [j EXCEPT !.remove = @ \ {d}, !.errors = TRUE])
      PROVE  Fine(t)
  <2> DEFINE left == j.remove \ {d}
             k == [j EXCEPT !.remove = left, !.errors = TRUE]
  <2>1. left \subseteq Dest /\ left \subseteq j.plan.remove
    BY <1>3, CallFacts
  <2>2. Goto(t, k)
    BY <1>3, <1>8 DEF Job
  <2> HIDE DEF left
  <2>3. /\ k \in Job /\ k.pc = "remove" /\ k.call = j.call /\ k.plan = j.plan
        /\ k.remove = left /\ k.insert = j.insert /\ k.existing = j.existing /\ k.errors
    BY <1>1, <1>3, <2>1 DEF Job
  <2> HIDE DEF k
  <2>4. Ordered(k)
    BY <1>3, <2>1, <2>3 DEF Ordered, Readings
  <2>5. QED
    BY <1>2, <1>3, <2>2, <2>3, <2>4, PlainGoto DEF Readings
<1>9. ASSUME NEW d \in j.remove, NEW r \in At(j.existing, d),
             Goto(t, IF Tagged(r, j.plan.tag)
                     THEN [[j EXCEPT !.remove = @ \ {d}] EXCEPT !.pc = "find", !.dest = d]
                     ELSE [[j EXCEPT !.remove = @ \ {d}] EXCEPT !.errors = TRUE])
      PROVE  Fine(t)
  <2>1. /\ [[j EXCEPT !.remove = @ \ {d}] EXCEPT !.pc = "find", !.dest = d]
             = [j EXCEPT !.remove = @ \ {d}, !.pc = "find", !.dest = d]
        /\ [[j EXCEPT !.remove = @ \ {d}] EXCEPT !.errors = TRUE]
             = [j EXCEPT !.remove = @ \ {d}, !.errors = TRUE]
    BY <1>3 DEF Job
  <2>2. QED
    BY <1>7, <1>8, <1>9, <2>1
<1>10. QED
  BY <1>5, <1>6, <1>9 DEF Removal

LEMMA ConcludeFine ==
  ASSUME Inv, NEW t \in Task, Conclude(t)
  PROVE  Fine(t)
<1> DEFINE j == job[t]
           k == [j EXCEPT !.pc = "commit"]
<1>1. Active(t) /\ j.pc = "insert" /\ j.insert = {} /\ UNCHANGED <<plans, fresh>> /\ Reads(t)
  BY DEF Conclude, Active
<1>2. Moves(t) /\ rc' = rc /\ fresh' = fresh
  BY <1>1, QuietMoves
<1>3. /\ j \in Job /\ Ordered(j) /\ j.call.op = "apply" /\ j.remove = {}
      /\ ~j.errors /\ j.plan \in fresh => OnCourse(rc, j)
  BY <1>1, <1>2, StillSeen DEF Ordered, Busy
<1>4. CASE ~j.errors /\ Goto(t, k)
  <2>1. "commit" \in Phases
    BY DEF Phases
  <2>2. /\ k \in Job /\ k.pc = "commit" /\ k.call = j.call /\ k.plan = j.plan
        /\ k.remove = j.remove /\ k.insert = j.insert /\ k.errors = j.errors
    BY <1>3, <2>1 DEF Job
  <2> HIDE DEF k
  <2>3. Ordered(k)
    BY <1>1, <1>3, <1>4, <2>2 DEF Ordered, Readings
  <2>4. k.plan \in fresh' => OnCourse(rc', k)
    BY <1>1, <1>2, <1>3, <1>4, <2>2 DEF OnCourse
  <2>5. QED
    BY <1>2, <1>4, <2>2, <2>3, <2>4, PlainGoto DEF Readings
<1>5. CASE Answer(t, [Answered(t) EXCEPT !.ok = ~j.errors, !.saved = FALSE])
  <2> DEFINE ok == ~j.errors
  <2>1. ok \in BOOLEAN /\ "apply" \in Ops
    BY DEF Ops
  <2>2. [Answered(t) EXCEPT !.ok = ok, !.saved = FALSE]
          = [NoReport EXCEPT !.op = "apply", !.ok = ok, !.saved = FALSE]
    BY <1>3, IdleTypes DEF Answered, Report
  <2>3. Answer(t, [NoReport EXCEPT !.op = "apply", !.ok = ok, !.saved = FALSE])
    BY <1>5, <2>2
  <2> HIDE DEF ok
  <2>4. QED
    BY <1>2, <2>1, <2>3, PlainAnswer
<1>6. QED
  BY <1>4, <1>5 DEF Conclude

LEMMA FindFine ==
  ASSUME Inv, NEW t \in Task, Find(t)
  PROVE  Fine(t)
<1> DEFINE j == job[t]
           k == [j EXCEPT !.pc = "del"]
<1>1. Active(t) /\ j.pc = "find" /\ UNCHANGED <<plans, fresh>> /\ Reads(t)
  BY DEF Find, Active
<1>2. Moves(t) /\ rc' = rc /\ fresh' = fresh
  BY <1>1, QuietMoves
<1>3. /\ j \in Job /\ Ordered(j)
      /\ j.call.op = "apply" => TaggedDests(j.existing, j.plan.tag) \subseteq seen'[t].tagged
      /\ j.call.op = "apply" => j.dest \in seen'[t].tagged
      /\ j.call.op = "apply" /\ ~j.errors /\ j.plan \in fresh => OnCourse(rc, j)
  BY <1>1, <1>2, StillSeen DEF Busy
<1>4. CASE Failed(t)
  BY <1>2, <1>4, FailedFine
<1>5. CASE Goto(t, k)
  <2>1. "del" \in Phases
    BY DEF Phases
  <2>2. /\ k \in Job /\ k.pc = "del" /\ k.call = j.call /\ k.plan = j.plan
        /\ k.remove = j.remove /\ k.insert = j.insert /\ k.errors = j.errors
        /\ k.existing = j.existing /\ k.dest = j.dest
    BY <1>3, <2>1 DEF Job
  <2> HIDE DEF k
  <2>3. Ordered(k)
    BY <1>1, <1>3, <2>2 DEF Ordered, Readings
  <2>4. k.call.op = "apply" /\ ~k.errors /\ k.plan \in fresh' => OnCourse(rc', k)
    BY <1>1, <1>2, <1>3, <2>2 DEF OnCourse
  <2>5. QED
    BY <1>2, <1>3, <1>5, <2>2, <2>3, <2>4, PlainGoto DEF Readings
<1>6. QED
  BY <1>4, <1>5 DEF Find

-----------------------------------------------------------------------------
(* Writes. *)

\* To remove one of the routes a plan removes, to add one that it adds, and to
\* save, leave the plan sound.
LEMMA RemoveSound ==
  ASSUME NEW p, NEW R, NEW Q, Sound(p, R, Q), NEW d \in p.remove
  PROVE  Sound(p, R \ At(R, d), Q) /\ Progress(p, R, R \ At(R, d))
<1> DEFINE T == R \ At(R, d)
<1>1. TaggedDests(T, p.tag) = TaggedDests(R, p.tag) \ {d}
  BY TagsRemove
<1> HIDE DEF T
<1>2. Sound(p, T, Q) /\ Progress(p, R, T)
  BY <1>1 DEF Sound, Between, Progress
<1>3. QED
  BY <1>2 DEF T

LEMMA AddSound ==
  ASSUME NEW p, NEW R, NEW Q, Sound(p, R, Q), NEW r, r.dest \in p.add
  PROVE  Sound(p, R \cup {r}, Q) /\ Progress(p, R, R \cup {r})
<1> DEFINE T == R \cup {r}
<1>1. /\ TaggedDests(R, p.tag) \subseteq TaggedDests(T, p.tag)
      /\ TaggedDests(T, p.tag) \subseteq TaggedDests(R, p.tag) \cup {r.dest}
  BY TagsAdd
<1> HIDE DEF T
<1>2. Sound(p, T, Q) /\ Progress(p, R, T)
  BY <1>1 DEF Sound, Between, Progress
<1>3. QED
  BY <1>2 DEF T

LEMMA SaveSound ==
  ASSUME NEW p, NEW R, NEW Q, Sound(p, R, Q)
  PROVE  Sound(p, R, R) /\ Progress(p, R, R)
BY DEF Sound, Between, Progress

\* A writing request of t about d reaches the router.
Written(t, d) ==
  LET j == job[t] IN
  /\ j.pc \in WritePhases /\ d \in Targets(j)
  /\ Made(rc, j, d, rc') \/ rc' = rc
  /\ sc' = sc \/ (Saves(j) /\ sc' = rc')
  /\ fresh' = IF rc' = rc /\ sc' = sc THEN fresh ELSE StaysFresh(t)
  /\ UNCHANGED <<plans, calls>>
  /\ Observe(t)

\* It is answered.
WellWritten(t, d) ==
  LET j == job[t] IN
  /\ AfterWrite(t, d)
  /\ j.pc # "dns" => Made(rc, j, d, rc')
  /\ j.pc # "dns" /\ Saves(j) => sc' = rc'

LEMMA WriteCases ==
  ASSUME Inv, NEW t \in Task, Write(t)
  PROVE  \E d \in Dest : Written(t, d) /\ (WellWritten(t, d) \/ AfterError(t, d))
<1> DEFINE j == job[t]
<1>1. /\ Active(t) /\ j.pc \in WritePhases /\ UNCHANGED <<plans, calls>> /\ Observe(t)
      /\ fresh' = IF rc' = rc /\ sc' = sc THEN fresh ELSE StaysFresh(t)
  BY DEF Write, Active, WritePhases
<1>2. j \in Job /\ rc \in Config
  BY <1>1, ActiveFacts DEF Inv, TypeOK
<1>3. PICK d \in Targets(j) :
        \/ /\ rc' \in Effects(rc, j, d)
           /\ sc' = IF Saves(j) THEN rc' ELSE sc
           /\ \/ AfterWrite(t, d)
              \/ "lost" \in Faults /\ AfterError(t, d)
        \/ /\ "refuse" \in Faults
           /\ rc' = rc
           /\ sc' = IF Saves(j) /\ j.pc # "commit" THEN rc' ELSE sc
           /\ IF j.pc = "dns" THEN AfterWrite(t, d) ELSE AfterError(t, d)
  BY DEF Write
<1>4. d \in Dest
  BY <1>2, CallFacts DEF Targets
<1>5. rc' \in Effects(rc, j, d) => Made(rc, j, d, rc')
  BY <1>1, <1>2, <1>4, EffectsMade
<1>6. Written(t, d)
  BY <1>1, <1>3, <1>5 DEF Written
<1>7. WellWritten(t, d) \/ AfterError(t, d)
  BY <1>3, <1>5 DEF WellWritten
<1>8. QED
  BY <1>4, <1>6, <1>7

LEMMA WrittenMoves ==
  ASSUME Inv, NEW t \in Task, NEW d \in Dest, Written(t, d)
  PROVE  Moves(t) /\ fresh' \subseteq fresh
<1> DEFINE j == job[t]
<1>1. /\ Active(t) /\ j.pc \in WritePhases /\ d \in Targets(j)
      /\ plans' = plans /\ calls' = calls /\ Observe(t)
  BY DEF Written, Active, WritePhases
<1>2. j \in Job /\ Ordered(j) /\ rc \in Config /\ sc \in Config
  BY <1>1, ActiveFacts DEF Inv, TypeOK, Fits
<1>3. rc' \in Config /\ sc' \in Config
  BY <1>2 DEF Written, Made
<1>4. fresh' \subseteq fresh
  BY DEF Written, StaysFresh
<1>5. ASSUME NEW p \in fresh'
      PROVE  Sound(p, rc'.static, sc'.static) /\ Progress(p, rc.static, rc'.static)
  <2>1. Sound(p, rc.static, sc.static)
    BY <1>4 DEF Inv
  <2>2. CASE rc' = rc /\ (sc' = sc \/ sc' = rc')
    BY <2>1, <2>2, SaveSound DEF Progress
  <2>3. CASE rc' # rc
    <3>1. j.call.op = "apply" /\ p = j.plan
      BY <2>3 DEF Written, StaysFresh
    <3>2. j.pc \in {"del", "insert", "commit"} /\ Made(rc, j, d, rc')
      BY <1>1, <1>2, <2>3, <3>1 DEF Ordered, DnsOps, WritePhases, Written
    <3>3. j.pc # "commit" => sc' = sc
      BY <3>1 DEF Written, Saves
    <3>4. CASE j.pc = "del"
      <4>1. d \in p.remove /\ rc'.static = rc.static \ At(rc.static, d)
        BY <1>1, <1>2, <3>1, <3>2, <3>4 DEF Targets, Ordered, Made
      <4>2. QED
        BY <2>1, <3>3, <3>4, <4>1, RemoveSound
    <3>5. CASE j.pc = "insert"
      <4> DEFINE r == [dest |-> d, tag |-> j.plan.tag]
      <4>1. d \in p.add /\ rc'.static = rc.static \cup {r}
        BY <1>1, <1>2, <3>1, <3>2, <3>5 DEF Targets, Ordered, Made
      <4>2. r.dest \in p.add
        BY <4>1
      <4> HIDE DEF r
      <4>3. QED
        BY <2>1, <3>3, <3>5, <4>1, <4>2, AddSound
    <3>6. QED
      BY <2>3, <3>2, <3>4, <3>5 DEF Made
  <2>4. QED
    BY <2>2, <2>3 DEF Written
<1>6. QED
  BY <1>1, <1>3, <1>4, <1>5 DEF Moves, Inv, TypeOK

\* The request fails, or its answer is lost.
LEMMA AfterErrorFine ==
  ASSUME Inv, NEW t \in Task, Moves(t), NEW d \in Dest, AfterError(t, d)
  PROVE  Fine(t)
<1> DEFINE j == job[t]
           left == j.insert \ {d}
           k == [j EXCEPT !.insert = left, !.errors = TRUE]
<1>1. CASE j.pc # "insert"
  BY <1>1, FailedFine DEF AfterError
<1>2. CASE j.pc = "insert"
  <2>1. j \in Job /\ Ordered(j) /\ j.insert \subseteq Dest
    BY StillSeen, CallFacts DEF Moves
  <2>2. Goto(t, k)
    BY <1>2, <2>1 DEF AfterError, Job
  <2>3. left \subseteq Dest /\ left \subseteq j.insert
    BY <2>1
  <2> HIDE DEF left
  <2>4. /\ k \in Job /\ k.pc = "insert" /\ k.call = j.call /\ k.plan = j.plan
        /\ k.remove = j.remove /\ k.insert = left /\ k.errors
    BY <1>2, <2>1, <2>3 DEF Job
  <2> HIDE DEF k
  <2>5. Ordered(k)
    BY <1>2, <2>1, <2>3, <2>4 DEF Ordered, Readings
  <2>6. QED
    BY <2>2, <2>4, <2>5, PlainGoto DEF Readings
<1>3. QED
  BY <1>1, <1>2

LEMMA LoseFine ==
  ASSUME Inv, NEW t \in Task, Lose(t)
  PROVE  Fine(t)
<1>1. Active(t) /\ UNCHANGED <<plans, fresh>> /\ Reads(t)
  BY DEF Lose, Active, WritePhases
<1>2. Moves(t) /\ job[t] \in Job
  BY <1>1, QuietMoves, ActiveFacts
<1>3. PICK d \in Targets(job[t]) : AfterError(t, d)
  BY DEF Lose
<1>4. d \in Dest
  BY <1>2, CallFacts DEF Targets
<1>5. QED
  BY <1>2, <1>3, <1>4, AfterErrorFine

\* A delete of an apply has taken what it was to take.
LEMMA DeletedFine ==
  ASSUME Inv, NEW t \in Task, NEW d \in Dest, Written(t, d), WellWritten(t, d),
         job[t].pc = "del", job[t].call.op = "apply"
  PROVE  Fine(t)
<1> DEFINE j == job[t]
           k == [j EXCEPT !.pc = "remove"]
<1>1. Moves(t) /\ fresh' \subseteq fresh
  BY WrittenMoves
<1>2. /\ j \in Job /\ Ordered(j)
      /\ TaggedDests(j.existing, j.plan.tag) \subseteq seen'[t].tagged
      /\ ~j.errors /\ j.plan \in fresh => OnCourse(rc, j)
  BY <1>1, StillSeen DEF Busy
<1>3. Goto(t, k)
  BY DEF WellWritten, AfterWrite
<1>4. "remove" \in Phases /\ d = j.dest
  BY DEF Phases, Written, Targets
<1>5. /\ k \in Job /\ k.pc = "remove" /\ k.call = j.call /\ k.plan = j.plan
      /\ k.remove = j.remove /\ k.insert = j.insert /\ k.existing = j.existing
      /\ k.errors = j.errors
  BY <1>2, <1>4 DEF Job
<1> HIDE DEF k
<1>6. Ordered(k)
  BY <1>2, <1>5 DEF Ordered, Readings
<1>7. ASSUME ~k.errors, k.plan \in fresh' PROVE OnCourse(rc', k)
  <2>1. OnCourse(rc, j)
    BY <1>1, <1>2, <1>5, <1>7
  <2>2. rc'.static = rc.static \ At(rc.static, d)
    BY DEF WellWritten, Made
  <2>3. TaggedDests(rc'.static, j.plan.tag) = TaggedDests(rc.static, j.plan.tag) \ {d}
    BY <2>2, TagsRemove
  <2>4. Sound(j.plan, rc.static, sc.static)
    BY <1>1, <1>5, <1>7 DEF Inv
  <2>5. j.dest \in j.plan.remove
    BY <1>2 DEF Ordered
  <2>6. QED
    BY <1>4, <1>5, <2>1, <2>3, <2>4, <2>5 DEF OnCourse, Sound
<1>8. QED
  BY <1>1, <1>2, <1>3, <1>5, <1>6, <1>7, PlainGoto DEF Readings

\* An add of an apply has added what it was to add.
LEMMA InsertedFine ==
  ASSUME Inv, NEW t \in Task, NEW d \in Dest, Written(t, d), WellWritten(t, d),
         job[t].pc = "insert"
  PROVE  Fine(t)
<1> DEFINE j == job[t]
           left == j.insert \ {d}
           k == [j EXCEPT !.insert = left]
           r == [dest |-> d, tag |-> j.plan.tag]
<1>1. Moves(t) /\ fresh' \subseteq fresh
  BY WrittenMoves
<1>2. /\ j \in Job /\ Ordered(j) /\ j.call.op = "apply" /\ j.remove = {}
      /\ ~j.errors /\ j.plan \in fresh => OnCourse(rc, j)
  BY <1>1, StillSeen DEF Busy, Ordered
<1>3. Goto(t, k)
  BY <1>2 DEF WellWritten, AfterWrite, Job
<1>4. d \in j.insert /\ left \subseteq Dest
  BY <1>2, CallFacts DEF Written, Targets
<1>5. left \subseteq j.insert /\ \A e \in j.insert : e = d \/ e \in left
  OBVIOUS
<1> HIDE DEF left
<1>6. /\ k \in Job /\ k.pc = "insert" /\ k.call = j.call /\ k.plan = j.plan
      /\ k.remove = j.remove /\ k.insert = left /\ k.errors = j.errors
  BY <1>2, <1>4 DEF Job
<1> HIDE DEF k
<1>7. Ordered(k)
  BY <1>2, <1>5, <1>6 DEF Ordered, Readings
<1>8. ASSUME ~k.errors, k.plan \in fresh' PROVE OnCourse(rc', k)
  <2>1. OnCourse(rc, j) /\ Sound(j.plan, rc.static, sc.static)
    BY <1>1, <1>2, <1>6, <1>8 DEF Inv
  <2>2. rc'.static = rc.static \cup {r}
    BY DEF WellWritten, Made
  <2>3. Tagged(r, j.plan.tag) /\ r.dest = d
    BY <1>2, CallFacts, OwnTag
  <2> HIDE DEF r
  <2>4. /\ TaggedDests(rc.static, j.plan.tag) \subseteq TaggedDests(rc'.static, j.plan.tag)
        /\ TaggedDests(rc'.static, j.plan.tag) \subseteq TaggedDests(rc.static, j.plan.tag) \cup {d}
        /\ d \in TaggedDests(rc'.static, j.plan.tag)
    <3> DEFINE S == rc.static
               T == S \cup {r}
               l == j.plan.tag
    <3>1. /\ TaggedDests(S, l) \subseteq TaggedDests(T, l)
          /\ TaggedDests(T, l) \subseteq TaggedDests(S, l) \cup {r.dest}
          /\ Tagged(r, l) => r.dest \in TaggedDests(T, l)
      BY TagsAdd
    <3>2. rc'.static = T
      BY <2>2
    <3> HIDE DEF T
    <3>3. QED
      BY <2>3, <3>1, <3>2
  <2>5. d \in j.plan.add
    BY <1>2, <1>4 DEF Ordered
  <2>6. d \notin j.plan.remove
    BY <2>1, <2>5 DEF Sound
  <2>7. \A x \in TaggedDests(rc.static, j.plan.tag) \cap j.plan.remove : FALSE
    BY <1>2, <2>1 DEF OnCourse, Written
  <2>8. j.plan.add \subseteq TaggedDests(rc.static, j.plan.tag) \cup j.insert
    BY <2>1 DEF OnCourse
  <2>9. QED
    BY <1>5, <1>6, <2>4, <2>6, <2>7, <2>8 DEF OnCourse
<1>9. QED
  BY <1>1, <1>3, <1>6, <1>7, <1>8, PlainGoto DEF Readings

\* The save of an apply: the routes are what the plan wants.
LEMMA CommittedFine ==
  ASSUME Inv, NEW t \in Task, NEW d \in Dest, Written(t, d), WellWritten(t, d),
         job[t].pc = "commit"
  PROVE  Fine(t)
<1> DEFINE j == job[t]
           save == j.call.save
           r == [NoReport EXCEPT !.op = "apply", !.ok = TRUE, !.saved = save]
<1>1. Moves(t) /\ fresh' \subseteq fresh
  BY WrittenMoves
<1>2. /\ j \in Job /\ Ordered(j) /\ j.call.op = "apply" /\ j.remove = {} /\ j.insert = {}
      /\ j.plan \in fresh => OnCourse(rc, j)
  BY <1>1, StillSeen DEF Busy, Ordered
<1>3. save \in BOOLEAN /\ "apply" \in Ops /\ (save => Saves(j))
  BY <1>2, CallFacts DEF Ops, Saves
<1>4. Answer(t, r)
  BY <1>2 DEF WellWritten, AfterWrite, Answered
<1>5. IsPlain(r, "apply", TRUE, save)
  BY <1>3, PlainReports
<1>6. ASSUME save, j.plan \in fresh' PROVE Reached(j.plan)
  <2>1. rc' = rc /\ sc' = rc'
    BY <1>3, <1>6 DEF WellWritten, Made
  <2>2. OnCourse(rc, j) /\ Sound(j.plan, rc.static, sc.static)
    BY <1>1, <1>2, <1>6 DEF Inv
  <2>3. TaggedDests(rc.static, j.plan.tag) \cap j.plan.remove = {}
    BY <1>2, <2>2 DEF OnCourse
  <2>4. j.plan.add \subseteq TaggedDests(rc.static, j.plan.tag)
    BY <1>2, <2>2 DEF OnCourse
  <2>5. TaggedDests(rc.static, j.plan.tag) = j.plan.want
    BY <2>2, <2>3, <2>4 DEF Sound, Between
  <2>6. QED
    BY <2>1, <2>5 DEF Reached
<1> HIDE DEF r
<1>7. r \in Report /\ Honest(r, seen'[t]) /\ (r.saved => save)
  BY <1>5 DEF IsPlain
<1>8. QED
  BY <1>1, <1>4, <1>6, <1>7, AnswerFine

\* A call about dns routes goes on.
LEMMA DnsGoto ==
  ASSUME Inv, NEW t \in Task, Moves(t), NEW k \in Job, Goto(t, k),
         k.pc \in {"dns"} \cup Readings, k.call = job[t].call, k.plan = job[t].plan, Ordered(k),
         ~seen'[t].raced /\ ~k.unread => Undisturbed(rc'.dns, sc'.dns, k, seen'[t])
  PROVE  Fine(t)
<1>1. /\ rc'.dns # sc'.dns => seen'[t].differed
      /\ TaggedDests(sc'.static, k.plan.tag) \subseteq seen'[t].tagged
  BY ObserveFacts DEF Moves
<1>2. Watched(rc', sc', k, seen'[t])
  BY <1>1 DEF Watched, Readings
<1>3. Fits(rc', sc', fresh', k, seen'[t]) /\ k.pc # "idle"
  BY <1>2 DEF Fits, Busy, Readings
<1>4. QED
  BY <1>3, GotoFine

\* A write of a dns route: the read before it showed rc as it was.
LEMMA DnsWrittenFine ==
  ASSUME Inv, NEW t \in Task, NEW d \in Dest, Written(t, d), WellWritten(t, d),
         job[t].pc = "dns"
  PROVE  Fine(t)
<1> DEFINE j == job[t]
           s == seen'[t]
           k == [j EXCEPT !.pc = "after"]
<1>1. Moves(t)
  BY WrittenMoves
<1>2. j \in Job /\ Fits(rc, sc, fresh, j, seen[t]) /\ rc \in Config /\ sc \in Config
  BY <1>1, ActiveFacts DEF Moves, Inv, TypeOK
<1>3. Goto(t, k)
  BY DEF WellWritten, AfterWrite
<1>4. "after" \in Phases
  BY DEF Phases
<1>5. /\ k \in Job /\ k.pc = "after" /\ k.call = j.call /\ k.plan = j.plan
      /\ k.remove = j.remove /\ k.insert = j.insert /\ k.existing = j.existing
      /\ k.old = j.old /\ k.unread = j.unread /\ k.probe = j.probe
  BY <1>2, <1>4 DEF Job
<1> HIDE DEF k
<1>6. Ordered(k) /\ k.probe = 1
  BY <1>2, <1>5 DEF Fits, Ordered, Readings
<1>7. ASSUME ~s.raced, ~k.unread PROVE Undisturbed(rc'.dns, sc'.dns, k, s)
  <2>1. ReadAs("rc", rc.dns, sc.dns, j.old)
    BY <1>1, <1>2, <1>5, <1>7, ObserveFacts DEF Fits, Undisturbed
  <2>2. \A q \in Probes : ~(q < k.probe)
    BY <1>6 DEF Probes
  <2>3. ASSUME ~s.wrote
        PROVE  \/ ReadAs("rc", rc'.dns, sc'.dns, k.old)
               \/ s.saved /\ rc'.dns = {} /\ sc'.dns = {}
    <3>1. rc' = rc
      BY <1>1, <2>3, ObserveFacts
    <3>2. CASE sc' = sc
      BY <1>5, <2>1, <3>1, <3>2
    <3>3. CASE sc' # sc
      <4>1. s.saved /\ sc' = rc
        BY <1>1, <3>1, <3>3, ObserveFacts DEF Written
      <4>2. ASSUME rc.dns # {} PROVE ReadAs("rc", rc.dns, rc.dns, k.old)
        <5>1. j.old = rc.dns
          BY <2>1, <4>2 DEF ReadAs, EndsAt, Shown, ProbedRoot, Probes, LastProbe, Other
        <5>2. EndsAt("rc", rc.dns, rc.dns, k.old, 1)
          BY <1>5, <4>2, <5>1 DEF EndsAt, Shown, ProbedRoot, Probes
        <5>3. 1 \in Probes
          BY DEF Probes
        <5>4. QED
          BY <5>2, <5>3 DEF ReadAs
      <4>3. QED
        BY <3>1, <4>1, <4>2
    <3>4. QED
      BY <3>2, <3>3
  <2>4. QED
    BY <1>5, <2>2, <2>3 DEF Undisturbed
<1>8. QED
  BY <1>1, <1>3, <1>5, <1>6, <1>7, DnsGoto DEF Readings

LEMMA WriteFine ==
  ASSUME Inv, NEW t \in Task, Write(t)
  PROVE  Fine(t)
<1> DEFINE j == job[t]
<1>1. PICK d \in Dest : Written(t, d) /\ (WellWritten(t, d) \/ AfterError(t, d))
  BY WriteCases
<1>2. Moves(t)
  BY <1>1, WrittenMoves
<1>3. j \in Job /\ Ordered(j) /\ j.pc \in WritePhases
  BY <1>1, <1>2, StillSeen DEF Written
<1>4. CASE AfterError(t, d)
  BY <1>2, <1>4, AfterErrorFine
<1>5. CASE WellWritten(t, d) /\ (j.pc = "put" \/ (j.pc = "del" /\ j.call.op # "apply"))
  <2> DEFINE op == j.call.op
             save == j.call.save
  <2>1. op \in Ops /\ save \in BOOLEAN /\ op # "apply"
    BY <1>3, <1>5, CallFacts DEF Ordered
  <2>2. Answer(t, [NoReport EXCEPT !.op = op, !.ok = TRUE, !.saved = save])
    BY <1>5 DEF WellWritten, AfterWrite, Answered
  <2> HIDE DEF op, save
  <2>3. QED
    BY <1>2, <2>1, <2>2, PlainAnswer
<1>6. CASE WellWritten(t, d) /\ j.pc = "del" /\ j.call.op = "apply"
  BY <1>1, <1>6, DeletedFine
<1>7. CASE WellWritten(t, d) /\ j.pc = "insert"
  BY <1>1, <1>7, InsertedFine
<1>8. CASE WellWritten(t, d) /\ j.pc = "commit"
  BY <1>1, <1>8, CommittedFine
<1>9. CASE WellWritten(t, d) /\ j.pc = "dns"
  BY <1>1, <1>9, DnsWrittenFine
<1>10. QED
  BY <1>1, <1>3, <1>4, <1>5, <1>6, <1>7, <1>8, <1>9 DEF WritePhases

-----------------------------------------------------------------------------
(* Reads of dns routes. *)

\* A read has one result, ...
LEMMA ReadsAgree ==
  ASSUME NEW prefer, NEW f, NEW g, NEW v, NEW w, ReadAs(prefer, f, g, v), ReadAs(prefer, f, g, w)
  PROVE  v = w
<1>1. PICK n \in Probes : EndsAt(prefer, f, g, v, n)
  BY DEF ReadAs
<1>2. PICK m \in Probes : EndsAt(prefer, f, g, w, m)
  BY DEF ReadAs
<1>3. ASSUME NEW x, NEW y, NEW a \in Probes, NEW b \in Probes,
             EndsAt(prefer, f, g, x, a), EndsAt(prefer, f, g, y, b), a < b
      PROVE  FALSE
  <2>1. x = {} /\ a = LastProbe
    BY <1>3 DEF EndsAt
  <2>2. QED
    BY <1>3, <2>1 DEF LastProbe, Probes
<1>4. n = m
  BY <1>1, <1>2, <1>3 DEF Probes
<1>5. QED
  BY <1>1, <1>2, <1>4 DEF EndsAt

\* ... which is what both configurations hold when they agree.
LEMMA ReadsSame ==
  ASSUME NEW prefer, NEW f, NEW v, ReadAs(prefer, f, f, v)
  PROVE  v = f
BY DEF ReadAs, EndsAt, Shown

\* A step that writes nothing leaves a call as undisturbed as it was.
LEMMA StillUndisturbed ==
  ASSUME Inv, NEW t \in Task, Moves(t), rc' = rc, sc' = sc, ~seen'[t].raced, ~job[t].unread
  PROVE  Undisturbed(rc.dns, sc.dns, job[t], seen'[t])
<1>1. Undisturbed(rc.dns, sc.dns, job[t], seen[t])
  BY ActiveFacts, ObserveFacts DEF Moves, Fits
<1>2. (seen'[t].wrote <=> seen[t].wrote) /\ (seen'[t].saved <=> seen[t].saved)
  BY ObserveFacts
<1>3. QED
  BY <1>1, <1>2 DEF Undisturbed

LEMMA LookFine ==
  ASSUME Inv, NEW t \in Task, Look(t)
  PROVE  Fine(t)
<1> DEFINE j == job[t]
           k == [j EXCEPT !.pc = "before"]
<1>1. Active(t) /\ j.pc = "look" /\ UNCHANGED <<plans, fresh>> /\ Reads(t) /\ Goto(t, k)
  BY DEF Look, Active
<1>2. Moves(t)
  BY <1>1, QuietMoves
<1>3. j \in Job /\ Ordered(j) /\ j.call.op \in DnsOps /\ j.probe = 1
  BY <1>1, <1>2, StillSeen DEF Ordered
<1>4. "before" \in Phases
  BY DEF Phases
<1>5. /\ k \in Job /\ k.pc = "before" /\ k.call = j.call /\ k.plan = j.plan
      /\ k.remove = j.remove /\ k.insert = j.insert /\ k.probe = 1
  BY <1>3, <1>4 DEF Job
<1> HIDE DEF k
<1>6. Ordered(k)
  BY <1>3, <1>5 DEF Ordered, Readings
<1>7. Undisturbed(rc'.dns, sc'.dns, k, seen'[t])
  <2>1. \A q \in Probes : ~(q < k.probe)
    BY <1>5 DEF Probes
  <2>2. QED
    BY <1>5, <2>1 DEF Undisturbed
<1>8. QED
  BY <1>1, <1>2, <1>5, <1>6, <1>7, DnsGoto DEF Readings

LEMMA ViewFacts ==
  ASSUME Inv, NEW t \in Task, Reading(t)
  PROVE  /\ View(t) = Shown(ProbedRoot(Prefers(job[t].pc), job[t].probe), rc.dns, sc.dns)
         /\ View(t) \subseteq DnsRoute
<1>1. rc.dns \subseteq DnsRoute /\ sc.dns \subseteq DnsRoute
  BY ConfigFacts DEF Inv, TypeOK
<1>2. View(t) = rc.dns \/ View(t) = sc.dns
  BY DEF View, Shown
<1>3. QED
  BY <1>1, <1>2 DEF View, Preferred, Prefers

LEMMA ProbeNextFine ==
  ASSUME Inv, NEW t \in Task, ProbeNext(t)
  PROVE  Fine(t)
<1> DEFINE j == job[t]
           next == j.probe + 1
<1>1. /\ Active(t) /\ Reading(t) /\ j.pc \in Readings /\ j.probe < LastProbe
      /\ UNCHANGED <<plans, fresh>> /\ Reads(t)
  BY DEF ProbeNext, Reading, Readings, Active
<1>2. Moves(t) /\ rc' = rc /\ sc' = sc
  BY <1>1, QuietMoves
<1>3. j \in Job /\ Ordered(j) /\ j.probe \in Probes
  BY <1>2, StillSeen, CallFacts
<1>4. next \in Probes /\ \A q \in Probes : q < next <=> q = j.probe \/ q < j.probe
  BY <1>1, <1>3 DEF Probes, LastProbe
<1>5. PICK lost \in BOOLEAN :
        /\ Goto(t, [j EXCEPT !.probe = next, !.unread = j.unread \/ lost])
        /\ ~lost => View(t) = {}
  <2>1. j.unread \in BOOLEAN
    BY <1>3, CallFacts
  <2>2. [j EXCEPT !.probe = next] = [j EXCEPT !.probe = next, !.unread = j.unread \/ FALSE]
    BY <1>3, <2>1 DEF Job
  <2>3. [j EXCEPT !.probe = next, !.unread = TRUE]
          = [j EXCEPT !.probe = next, !.unread = j.unread \/ TRUE]
    BY <1>3, <2>1 DEF Job
  <2>4. \/ View(t) = {} /\ Goto(t, [j EXCEPT !.probe = next])
        \/ Goto(t, [j EXCEPT !.probe = next, !.unread = TRUE])
    BY <1>3 DEF ProbeNext, Job
  <2>5. QED
    BY <2>2, <2>3, <2>4
<1> DEFINE u == j.unread \/ lost
           k == [j EXCEPT !.probe = next, !.unread = u]
<1>6. u \in BOOLEAN /\ (~u => ~lost /\ ~j.unread)
  BY <1>3, CallFacts
<1> HIDE DEF next, u
<1>7. /\ k \in Job /\ k.pc = j.pc /\ k.call = j.call /\ k.plan = j.plan /\ k.remove = j.remove
      /\ k.insert = j.insert /\ k.probe = next /\ k.unread = u /\ k.old = j.old /\ k.new = j.new
  BY <1>3, <1>4, <1>6 DEF Job
<1>8. Goto(t, k)
  BY <1>5 DEF u
<1> HIDE DEF k
<1>9. Ordered(k)
  BY <1>1, <1>3, <1>7 DEF Ordered, Readings
<1>10. ASSUME ~seen'[t].raced, ~k.unread PROVE Undisturbed(rc'.dns, sc'.dns, k, seen'[t])
  <2>1. Undisturbed(rc.dns, sc.dns, j, seen'[t])
    BY <1>2, <1>6, <1>7, <1>10, StillUndisturbed
  <2>2. Shown(ProbedRoot(Prefers(j.pc), j.probe), rc.dns, sc.dns) = {}
    BY <1>1, <1>5, <1>6, <1>7, <1>10, ViewFacts
  <2>3. \A q \in Probes : q < k.probe => Shown(ProbedRoot(Prefers(k.pc), q), rc.dns, sc.dns) = {}
    BY <1>1, <1>4, <1>7, <2>1, <2>2 DEF Undisturbed
  <2>4. QED
    BY <1>1, <1>2, <1>7, <2>1, <2>3 DEF Undisturbed, Readings
<1>11. QED
  BY <1>1, <1>2, <1>7, <1>8, <1>9, <1>10, DnsGoto

\* An undisturbed read that fails nowhere yields what its requests show.
LEMMA ReadIs ==
  ASSUME Inv, NEW t \in Task, Reading(t), NEW view, Returns(t, view, FALSE), NEW s,
         Undisturbed(rc.dns, sc.dns, job[t], s)
  PROVE  ReadAs(Prefers(job[t].pc), rc.dns, sc.dns, view)
<1> DEFINE j == job[t]
<1>1. j.probe \in Probes
  BY ActiveFacts, CallFacts DEF Active, Reading
<1>2. view = View(t) /\ (view # {} \/ j.probe = LastProbe)
  BY DEF Returns
<1>3. \A q \in Probes : q < j.probe => Shown(ProbedRoot(Prefers(j.pc), q), rc.dns, sc.dns) = {}
  BY DEF Undisturbed, Reading, Readings
<1>4. view = Shown(ProbedRoot(Prefers(j.pc), j.probe), rc.dns, sc.dns)
  BY <1>2, ViewFacts
<1>5. EndsAt(Prefers(j.pc), rc.dns, sc.dns, view, j.probe)
  BY <1>2, <1>3, <1>4 DEF EndsAt
<1>6. QED
  BY <1>1, <1>5 DEF ReadAs

\* The answer about dns routes.
LEMMA DnsReportFacts ==
  ASSUME NEW j \in Job, NEW view \in SUBSET DnsRoute
  PROVE  LET r == DnsAnswer(j, view) IN
         /\ r \in Report /\ r.op = j.call.op /\ r.unread = j.unread
         /\ r.hit => /\ j.call.op \in {"dnsAdd", "dnsDelete"} /\ j.old # j.new
                     /\ j.call.op = "dnsAdd" => j.new # {}
         /\ r.dirty => IF j.call.op = "dnsGet" THEN j.old # view ELSE j.new # view
<1> DEFINE c == j.call
           hit == /\ c.op \in {"dnsAdd", "dnsDelete"}
                  /\ j.old # j.new
                  /\ c.op = "dnsAdd" => \E r \in j.new : r.list = c.dns.list /\ r.iface = c.dns.iface
           dirty == IF c.op = "dnsGet" THEN j.old # view ELSE j.new # view
           asks == AsksSave(c)
           r == [NoReport EXCEPT !.op = c.op, !.ok = TRUE, !.dns = c.dns, !.hit = hit,
                                 !.dirty = dirty, !.saved = asks, !.unread = j.unread]
<1>1. DnsAnswer(j, view) = r
  BY DEF DnsAnswer
<1>2. /\ hit \in BOOLEAN /\ dirty \in BOOLEAN /\ asks \in BOOLEAN /\ j.unread \in BOOLEAN
      /\ c.op \in Ops /\ c.dns \in DnsRoute
  BY CallFacts DEF AsksSave
<1>3. /\ hit => /\ c.op \in {"dnsAdd", "dnsDelete"} /\ j.old # j.new
                /\ c.op = "dnsAdd" => j.new # {}
      /\ dirty => IF c.op = "dnsGet" THEN j.old # view ELSE j.new # view
  OBVIOUS
<1> HIDE DEF hit, dirty, asks
<1>4. r \in Report /\ r.op = c.op /\ r.unread = j.unread /\ r.hit = hit /\ r.dirty = dirty
  BY <1>2, IdleTypes DEF Report
<1> HIDE DEF r
<1>5. QED
  BY <1>1, <1>3, <1>4

\* The step that a read which yields view leads to.
AfterRead(t, k, view) ==
  CASE job[t].pc = "before" ->
         Goto(t, [k EXCEPT !.old = view,
                           !.pc = IF job[t].call.op = "dnsGet" THEN "saved" ELSE "dns"])
    [] job[t].pc = "after" -> Goto(t, [k EXCEPT !.new = view, !.pc = "saved"])
    [] OTHER -> Answer(t, DnsAnswer(k, view))

LEMMA BeforeFine ==
  ASSUME Inv, NEW t \in Task, Moves(t), rc' = rc, sc' = sc, job[t].pc = "before",
         NEW view \in SUBSET DnsRoute, NEW k \in Job, AfterRead(t, k, view),
         k.call = job[t].call, k.plan = job[t].plan, k.remove = job[t].remove,
         k.insert = job[t].insert, k.probe = 1,
         ~seen'[t].raced /\ ~k.unread => ReadAs("rc", rc.dns, sc.dns, view)
  PROVE  Fine(t)
<1> DEFINE j == job[t]
           p == IF j.call.op = "dnsGet" THEN "saved" ELSE "dns"
           m == [k EXCEPT !.old = view, !.pc = p]
<1>1. j \in Job /\ Ordered(j) /\ j.call.op \in DnsOps
  BY StillSeen DEF Ordered, Readings
<1>2. Goto(t, m)
  BY DEF AfterRead
<1>3. p \in Phases /\ p \in {"saved", "dns"} /\ (p = "dns" <=> j.call.op # "dnsGet")
  BY DEF Phases
<1> HIDE DEF p
<1>4. /\ m \in Job /\ m.pc = p /\ m.call = j.call /\ m.plan = j.plan /\ m.remove = j.remove
      /\ m.insert = j.insert /\ m.probe = 1 /\ m.old = view /\ m.unread = k.unread
  BY <1>3 DEF Job
<1> HIDE DEF m
<1>5. Ordered(m)
  BY <1>1, <1>3, <1>4 DEF Ordered, Readings
<1>6. \A q \in Probes : ~(q < m.probe)
  BY <1>4 DEF Probes
<1>7. ASSUME ~seen'[t].raced, ~m.unread PROVE Undisturbed(rc'.dns, sc'.dns, m, seen'[t])
  <2>1. ReadAs("rc", rc.dns, sc.dns, m.old)
    BY <1>4, <1>7
  <2>2. QED
    BY <1>3, <1>4, <1>6, <2>1 DEF Undisturbed
<1>8. QED
  BY <1>2, <1>3, <1>4, <1>5, <1>7, DnsGoto DEF Readings

LEMMA AfterFine ==
  ASSUME Inv, NEW t \in Task, Moves(t), rc' = rc, sc' = sc, job[t].pc = "after",
         NEW view \in SUBSET DnsRoute, NEW k \in Job, AfterRead(t, k, view),
         k.call = job[t].call, k.plan = job[t].plan, k.remove = job[t].remove,
         k.insert = job[t].insert, k.probe = 1, k.old = job[t].old,
         ~seen'[t].raced /\ ~k.unread => /\ ReadAs("rc", rc.dns, sc.dns, view)
                                         /\ Undisturbed(rc.dns, sc.dns, job[t], seen'[t])
  PROVE  Fine(t)
<1> DEFINE j == job[t]
           m == [k EXCEPT !.new = view, !.pc = "saved"]
<1>1. j \in Job /\ Ordered(j) /\ j.call.op \in DnsOps /\ j.call.op # "dnsGet"
  BY StillSeen DEF Ordered, Readings
<1>2. Goto(t, m)
  BY DEF AfterRead
<1>3. "saved" \in Phases
  BY DEF Phases
<1>4. /\ m \in Job /\ m.pc = "saved" /\ m.call = j.call /\ m.plan = j.plan
      /\ m.remove = j.remove /\ m.insert = j.insert /\ m.probe = 1 /\ m.old = j.old
      /\ m.new = view /\ m.unread = k.unread
  BY <1>3 DEF Job
<1> HIDE DEF m
<1>5. Ordered(m)
  BY <1>1, <1>4 DEF Ordered, Readings
<1>6. \A q \in Probes : ~(q < m.probe)
  BY <1>4 DEF Probes
<1>7. ASSUME ~seen'[t].raced, ~m.unread PROVE Undisturbed(rc'.dns, sc'.dns, m, seen'[t])
  <2>1. ReadAs("rc", rc.dns, sc.dns, m.new) /\ Undisturbed(rc.dns, sc.dns, j, seen'[t])
    BY <1>4, <1>7
  <2>2. ASSUME ~seen'[t].wrote PROVE m.old = m.new \/ (seen'[t].saved /\ m.new = {})
    <3>1. CASE ReadAs("rc", rc.dns, sc.dns, j.old)
      BY <1>4, <2>1, <3>1, ReadsAgree
    <3>2. CASE seen'[t].saved /\ rc.dns = {} /\ sc.dns = {}
      <4>1. ReadAs("rc", rc.dns, rc.dns, m.new)
        BY <2>1, <3>2
      <4>2. QED
        BY <3>2, <4>1, ReadsSame
    <3>3. QED
      BY <2>1, <2>2, <3>1, <3>2 DEF Undisturbed
  <2>3. QED
    BY <1>1, <1>4, <1>6, <2>1, <2>2 DEF Undisturbed
<1>8. QED
  BY <1>2, <1>4, <1>5, <1>7, DnsGoto DEF Readings

LEMMA SavedFine ==
  ASSUME Inv, NEW t \in Task, Moves(t), rc' = rc, sc' = sc, job[t].pc = "saved",
         NEW view \in SUBSET DnsRoute, NEW k \in Job, AfterRead(t, k, view),
         k.call = job[t].call, k.old = job[t].old, k.new = job[t].new,
         ~seen'[t].raced /\ ~k.unread => /\ ReadAs("sc", rc.dns, sc.dns, view)
                                         /\ Undisturbed(rc.dns, sc.dns, job[t], seen'[t])
  PROVE  Fine(t)
<1> DEFINE j == job[t]
           r == DnsAnswer(k, view)
           s == seen'[t]
<1>1. j \in Job /\ Ordered(j) /\ j.call.op \in DnsOps
  BY StillSeen DEF Ordered, Readings
<1>2. Answer(t, r)
  BY DEF AfterRead
<1>3. /\ r \in Report /\ r.op = j.call.op /\ r.unread = k.unread
      /\ r.hit => /\ j.call.op \in {"dnsAdd", "dnsDelete"} /\ j.old # j.new
                  /\ j.call.op = "dnsAdd" => j.new # {}
      /\ r.dirty => IF j.call.op = "dnsGet" THEN j.old # view ELSE j.new # view
  BY DnsReportFacts
<1> HIDE DEF r
<1>4. ASSUME ~s.raced, ~r.unread
      PROVE  /\ r.hit => s.wrote \/ (r.op = "dnsDelete" /\ s.saved)
             /\ r.dirty => s.differed
  <2> DEFINE x == IF j.call.op = "dnsGet" THEN j.old ELSE j.new
  <2>1. ReadAs("sc", rc.dns, sc.dns, view) /\ Undisturbed(rc.dns, sc.dns, j, s)
    BY <1>3, <1>4
  <2>2. ReadAs("rc", rc.dns, sc.dns, x)
    BY <2>1 DEF Undisturbed
  <2>3. j.call.op # "dnsGet" /\ ~s.wrote => j.old = j.new \/ (s.saved /\ j.new = {})
    BY <2>1 DEF Undisturbed
  <2>4. rc.dns = sc.dns => x = view
    <3>1. ASSUME rc.dns = sc.dns PROVE x = rc.dns /\ view = rc.dns
      <4> HIDE DEF x
      <4>1. ReadAs("rc", rc.dns, rc.dns, x) /\ ReadAs("sc", rc.dns, rc.dns, view)
        BY <2>1, <2>2, <3>1
      <4>2. QED
        BY <4>1, ReadsSame
    <3>2. QED
      BY <3>1
  <2>5. r.dirty => x # view
    BY <1>3
  <2>6. rc.dns # sc.dns => s.differed
    BY ObserveFacts DEF Moves
  <2>7. r.hit => s.wrote \/ (r.op = "dnsDelete" /\ s.saved)
    BY <1>3, <2>3
  <2>8. QED
    BY <2>4, <2>5, <2>6, <2>7
<1>5. Honest(r, s)
  BY <1>4 DEF Honest
<1>6. r.op # "apply"
  BY <1>1, <1>3 DEF DnsOps
<1>7. QED
  BY <1>2, <1>3, <1>5, <1>6, AnswerFine

LEMMA DnsReadFine ==
  ASSUME Inv, NEW t \in Task, DnsRead(t)
  PROVE  Fine(t)
<1> DEFINE j == job[t]
<1>1. /\ Active(t) /\ Reading(t) /\ j.pc \in Readings
      /\ UNCHANGED <<plans, fresh>> /\ Reads(t)
  BY DEF DnsRead, Reading, Readings, Active
<1>2. Moves(t) /\ rc' = rc /\ sc' = sc
  BY <1>1, QuietMoves
<1>3. j \in Job /\ j.unread \in BOOLEAN
  BY <1>2, StillSeen, CallFacts
<1>4. PICK view \in {View(t), {}}, failed \in BOOLEAN :
        /\ Returns(t, view, failed)
        /\ AfterRead(t, [j EXCEPT !.probe = 1, !.unread = @ \/ failed], view)
  BY DEF DnsRead, AfterRead
<1> DEFINE u == j.unread \/ failed
           k == [j EXCEPT !.probe = 1, !.unread = u]
<1>5. view \in SUBSET DnsRoute
  BY <1>1, ViewFacts
<1>6. u \in BOOLEAN /\ (~u => ~failed /\ ~j.unread) /\ 1 \in Probes
  BY <1>3 DEF Probes
<1>7. AfterRead(t, k, view)
  BY <1>3, <1>4 DEF Job
<1> HIDE DEF u
<1>8. /\ k \in Job /\ k.call = j.call /\ k.plan = j.plan /\ k.remove = j.remove
      /\ k.insert = j.insert /\ k.probe = 1 /\ k.unread = u /\ k.old = j.old /\ k.new = j.new
  BY <1>3, <1>6 DEF Job
<1> HIDE DEF k
<1>9. ASSUME ~seen'[t].raced, ~k.unread
      PROVE  /\ ReadAs(Prefers(j.pc), rc.dns, sc.dns, view)
             /\ Undisturbed(rc.dns, sc.dns, j, seen'[t])
  <2>1. Undisturbed(rc.dns, sc.dns, j, seen'[t])
    BY <1>2, <1>6, <1>8, <1>9, StillUndisturbed
  <2>2. failed = FALSE
    BY <1>6, <1>8, <1>9
  <2>3. Returns(t, view, FALSE)
    BY <1>4, <2>2
  <2>4. QED
    BY <1>1, <2>1, <2>3, ReadIs
<1>10. CASE j.pc = "before"
  <2>1. ~seen'[t].raced /\ ~k.unread => ReadAs("rc", rc.dns, sc.dns, view)
    BY <1>9, <1>10 DEF Prefers
  <2>2. QED
    BY <1>2, <1>5, <1>7, <1>8, <1>10, <2>1, BeforeFine
<1>11. CASE j.pc = "after"
  <2>1. ~seen'[t].raced /\ ~k.unread => /\ ReadAs("rc", rc.dns, sc.dns, view)
                                        /\ Undisturbed(rc.dns, sc.dns, j, seen'[t])
    BY <1>9, <1>11 DEF Prefers
  <2>2. QED
    BY <1>2, <1>5, <1>7, <1>8, <1>11, <2>1, AfterFine
<1>12. CASE j.pc = "saved"
  <2>1. ~seen'[t].raced /\ ~k.unread => /\ ReadAs("sc", rc.dns, sc.dns, view)
                                        /\ Undisturbed(rc.dns, sc.dns, j, seen'[t])
    BY <1>9, <1>12 DEF Prefers
  <2>2. QED
    BY <1>2, <1>5, <1>7, <1>8, <1>12, <2>1, SavedFine
<1>13. QED
  BY <1>1, <1>10, <1>11, <1>12 DEF Readings

-----------------------------------------------------------------------------
(* The other steps, and the invariant. *)

LEMMA FirstPhaseFacts ==
  ASSUME NEW c \in Call
  PROVE  /\ FirstPhase(c) \in {"put", "find", "resolve", "begin", "look", "before"}
         /\ FirstPhase(c) = "put" => c.op = "add"
         /\ FirstPhase(c) = "find" => c.op = "delete"
         /\ FirstPhase(c) = "resolve" => c.op = "plan"
         /\ FirstPhase(c) = "begin" => c.op = "apply"
         /\ FirstPhase(c) \in {"look", "before"} => c.op \in DnsOps
<1>1. c.op \in Ops
  BY DEF Call
<1>2. QED
  BY <1>1 DEF FirstPhase, Ops, DnsOps

LEMMA StartInv ==
  ASSUME Inv, NEW t \in Task, Start(t)
  PROVE  Inv'
<1>1. PICK c \in Calls[t] :
        \E p \in IF c.op = "apply" THEN plans
                 ELSE {[NoPlan EXCEPT !.tag = IF c.tag = Plain THEN AnyList ELSE c.tag]} :
          /\ calls' = calls + Weight(c.op)
          /\ job' = [job EXCEPT ![t] = [IdleJob EXCEPT !.pc = FirstPhase(c), !.call = c,
                                                       !.plan = p, !.dest = c.dest]]
          /\ seen' = [seen EXCEPT ![t] = [NothingSeen EXCEPT !.differed = rc.dns # sc.dns,
                                            !.tagged = TaggedDests(sc.static, p.tag)]]
  BY DEF Start
<1>2. c \in Call /\ c.dest \in Dest /\ c.tag \in Comment
  BY RoutesAssumption DEF Call
<1>3. PICK p \in Plan :
          /\ calls' = calls + Weight(c.op)
          /\ job' = [job EXCEPT ![t] = [IdleJob EXCEPT !.pc = FirstPhase(c), !.call = c,
                                                       !.plan = p, !.dest = c.dest]]
          /\ seen' = [seen EXCEPT ![t] = [NothingSeen EXCEPT !.differed = rc.dns # sc.dns,
                                            !.tagged = TaggedDests(sc.static, p.tag)]]
  <2> DEFINE l == IF c.tag = Plain THEN AnyList ELSE c.tag
  <2>1. l \in ListName
    BY <1>2, PlanTypes DEF Comment
  <2> HIDE DEF l
  <2>2. [NoPlan EXCEPT !.tag = l] \in Plan
    BY <2>1, PlanTypes DEF Plan
  <2>3. plans \subseteq Plan
    BY DEF Inv, TypeOK
  <2>4. QED
    BY <1>1, <2>2, <2>3 DEF l
<1> DEFINE tags == TaggedDests(sc.static, p.tag)
           differs == rc.dns # sc.dns
           j == [IdleJob EXCEPT !.pc = FirstPhase(c), !.call = c, !.plan = p, !.dest = c.dest]
           s == [NothingSeen EXCEPT !.differed = differs, !.tagged = tags]
<1>4. /\ job' = [job EXCEPT ![t] = j] /\ seen' = [seen EXCEPT ![t] = s]
      /\ report' = [report EXCEPT ![t] = NoReport] /\ calls' = calls + Weight(c.op)
      /\ rc' = rc /\ sc' = sc /\ plans' = plans /\ fresh' = fresh
  BY <1>3 DEF Start
<1>5. tags \subseteq Dest /\ differs \in BOOLEAN
  BY TagsType, ConfigFacts DEF Inv, TypeOK
<1>6. FirstPhase(c) \in Phases /\ FirstPhase(c) # "idle"
  BY <1>2, FirstPhaseFacts DEF Phases
<1>7. /\ IdleJob.remove = {} /\ IdleJob.insert = {} /\ IdleJob.probe = 1
  BY DEF IdleJob
<1>8. /\ j \in Job /\ j.pc = FirstPhase(c) /\ j.call = c /\ j.plan = p
      /\ j.remove = {} /\ j.insert = {} /\ j.probe = 1
  BY <1>2, <1>6, <1>7, IdleTypes DEF Job
<1> HIDE DEF j, tags, differs
<1>9. s \in Seen /\ s.differed = differs /\ s.tagged = tags
  BY <1>5, IdleTypes DEF Seen
<1> HIDE DEF s
<1>10. Ordered(j)
  BY <1>2, <1>8, FirstPhaseFacts DEF Ordered, Readings
<1>11. Watched(rc, sc, j, s)
  BY <1>2, <1>8, <1>9, FirstPhaseFacts DEF Watched, tags, differs
<1>12. Undisturbed(rc.dns, sc.dns, j, s)
  <2>1. \A q \in Probes : ~(q < j.probe)
    BY <1>8 DEF Probes
  <2>2. j.pc \notin {"dns", "after", "saved"}
    BY <1>2, <1>8, FirstPhaseFacts
  <2>3. QED
    BY <2>1, <2>2 DEF Undisturbed
<1>13. ~(j.pc \in Busy /\ j.call.op = "apply")
  BY <1>2, <1>8, FirstPhaseFacts DEF Busy
<1>14. Good(rc, sc, fresh, j, NoReport, s)
  BY <1>6, <1>8, <1>10, <1>11, <1>12, <1>13 DEF Good, Fits
<1>15. \A u \in Task : Good(rc', sc', fresh', job'[u], report'[u], seen'[u])
  BY <1>4, <1>14 DEF Inv, TypeOK
<1>16. \A q \in fresh' : Sound(q, rc'.static, sc'.static)
  BY <1>4 DEF Inv
<1>17. calls' \in Nat
  BY <1>4 DEF Inv, TypeOK, Weight
<1>18. TypeOK'
  BY <1>4, <1>8, <1>9, <1>17, IdleTypes DEF Inv, TypeOK
<1>19. QED
  BY <1>15, <1>16, <1>18 DEF Inv

\* A call that the router's restart ends.
LEMMA BrokenReports ==
  ASSUME NEW op \in Ops
  PROVE  IsPlain([NoReport EXCEPT !.op = op], op, FALSE, FALSE)
<1>1. NoReport.ok = FALSE /\ NoReport.saved = FALSE
  BY DEF NoReport
<1>2. [NoReport EXCEPT !.op = op] = [NoReport EXCEPT !.op = op, !.ok = FALSE, !.saved = FALSE]
  BY <1>1, IdleTypes DEF Report
<1>3. QED
  BY <1>2, PlainReports

LEMMA JobsHaveOps ==
  ASSUME Inv, NEW t \in Task
  PROVE  job[t].call.op \in Ops
<1>1. job[t] \in Job
  BY DEF Inv, TypeOK
<1>2. QED
  BY <1>1, CallFacts

\* A call that goes on finds rc as sc is.
LEMMA SurvivorFits ==
  ASSUME NEW f, NEW g, NEW S, NEW T, NEW j, NEW s, Fits(f, g, S, j, s),
         j.call.op \notin DnsOps, T = IF f = g THEN S ELSE {}
  PROVE  Fits(g, g, T, j, s)
<1>1. Ordered(j)
  BY DEF Fits
<1>2. j.pc \notin {"look", "dns"} \cup Readings
  BY <1>1 DEF Ordered
<1>3. Undisturbed(g.dns, g.dns, j, s)
  BY <1>2 DEF Undisturbed, Readings
<1>4. Watched(g, g, j, s)
  BY DEF Fits, Watched
<1>5. ASSUME j.pc \in Busy, j.call.op = "apply", ~j.errors, j.plan \in T
      PROVE  OnCourse(g, j)
  <2>1. f = g /\ j.plan \in S
    BY <1>5
  <2>2. OnCourse(f, j)
    BY <1>5, <2>1 DEF Fits
  <2>3. QED
    BY <2>1, <2>2
<1>6. QED
  BY <1>1, <1>3, <1>4, <1>5 DEF Fits

LEMMA RebootInv ==
  ASSUME Inv, Reboot
  PROVE  Inv'
<1>1. /\ rc' = sc /\ sc' = sc /\ plans' = plans /\ calls' = calls /\ seen' = seen
      /\ job' = [t \in Task |-> IF Survives(t) THEN job[t] ELSE IdleJob]
      /\ fresh' = IF rc = sc THEN fresh ELSE {}
  BY DEF Reboot
<1>2. ASSUME NEW t \in Task
      PROVE  report'[t] \in Report /\ Good(rc', sc', fresh', job'[t], report'[t], seen'[t])
  <2>1. IdleJob.pc = "idle"
    BY IdleTypes
  <2>2. CASE ~Survives(t)
    <3>1. report'[t] = [NoReport EXCEPT !.op = job[t].call.op] /\ job'[t] = IdleJob
      BY <1>1, <2>2 DEF Reboot
    <3>2. job[t].call.op \in Ops
      BY JobsHaveOps
    <3>3. IsPlain(report'[t], job[t].call.op, FALSE, FALSE)
      BY <3>1, <3>2, BrokenReports
    <3>4. QED
      BY <2>1, <3>1, <3>3 DEF Good, IsPlain
  <2>3. CASE Survives(t)
    <3>1. report'[t] = report[t] /\ job'[t] = job[t] /\ seen'[t] = seen[t]
      BY <1>1, <2>3 DEF Reboot
    <3>2. report[t] \in Report /\ Good(rc, sc, fresh, job[t], report[t], seen[t])
      BY DEF Inv, TypeOK
    <3>3. CASE job[t].pc = "idle"
      BY <3>1, <3>2, <3>3 DEF Good
    <3>4. CASE job[t].pc # "idle"
      <4>1. report[t] = NoReport /\ Fits(rc, sc, fresh, job[t], seen[t])
        BY <3>2, <3>4 DEF Good
      <4>2. Fits(sc, sc, fresh', job[t], seen[t])
        BY <1>1, <2>3, <4>1, SurvivorFits DEF Survives
      <4>3. QED
        BY <1>1, <3>1, <3>2, <3>4, <4>1, <4>2 DEF Good
    <3>5. QED
      BY <3>3, <3>4
  <2>4. QED
    BY <2>2, <2>3
<1>3. report' \in [Task -> Report]
  <2>1. report' = [t \in Task |-> report'[t]]
    BY DEF Reboot
  <2>2. QED
    BY <1>2, <2>1
<1>4. \A p \in fresh' : Sound(p, rc'.static, sc'.static)
  BY <1>1 DEF Inv
<1>5. job' \in [Task -> Job]
  BY <1>1, IdleTypes DEF Inv, TypeOK
<1>6. TypeOK'
  BY <1>1, <1>3, <1>5 DEF Inv, TypeOK
<1>7. QED
  BY <1>2, <1>4, <1>6 DEF Inv

LEMMA InitInv == Init => Inv
<1> SUFFICES ASSUME Init PROVE Inv
  OBVIOUS
<1>1. /\ rc \in Config /\ sc = rc /\ plans = {} /\ fresh = {} /\ calls = 0
      /\ job = [t \in Task |-> IdleJob] /\ report = [t \in Task |-> NoReport]
      /\ seen = [t \in Task |-> NothingSeen]
  BY RoutesAssumption DEF Init
<1>2. TypeOK
  BY <1>1, IdleTypes DEF TypeOK
<1>3. \A t \in Task : Good(rc, sc, fresh, job[t], report[t], seen[t])
  BY <1>1, IdleTypes DEF Good, Honest
<1>4. QED
  BY <1>1, <1>2, <1>3 DEF Inv

LEMMA StepFine ==
  ASSUME Inv, NEW t \in Task, Step(t)
  PROVE  Fine(t)
BY ReadFailsFine, ResolveFine, ListAndPlanFine, BeginFine, RecheckFine, RemovalFine,
   ConcludeFine, FindFine, WriteFine, LoseFine, LookFine, ProbeNextFine, DnsReadFine DEF Step

LEMMA NextInv == Inv /\ [Next]_vars => Inv'
<1> SUFFICES ASSUME Inv, [Next]_vars PROVE Inv'
  OBVIOUS
<1>1. CASE Reboot
  BY <1>1, RebootInv
<1>2. ASSUME NEW t \in Task, Start(t) PROVE Inv'
  BY <1>2, StartInv
<1>3. ASSUME NEW t \in Task, Step(t) PROVE Inv'
  BY <1>3, StepFine DEF Fine
<1>4. CASE UNCHANGED vars
  <2>1. /\ rc' = rc /\ sc' = sc /\ plans' = plans /\ job' = job /\ report' = report
        /\ calls' = calls /\ fresh' = fresh /\ seen' = seen
    BY <1>4 DEF vars
  <2>2. \A t \in Task : Good(rc', sc', fresh', job'[t], report'[t], seen'[t])
    BY <2>1 DEF Inv
  <2>3. TypeOK' /\ \A p \in fresh' : Sound(p, rc'.static, sc'.static)
    BY <2>1 DEF Inv, TypeOK
  <2>4. QED
    BY <2>2, <2>3 DEF Inv
<1>5. QED
  BY <1>1, <1>2, <1>3, <1>4 DEF Next

LEMMA InvAlways == Spec => []Inv
BY InitInv, NextInv, PTL DEF Spec

\* Types are right, and the answers about dns-proxy routes are true: created,
\* deleted and dirty say what the call did and what it could see.
THEOREM RoutesCorrect == Spec => []RoutesInv
<1>1. Inv => RoutesInv
  <2> SUFFICES ASSUME Inv PROVE RoutesInv
    OBVIOUS
  <2>1. ASSUME NEW t \in Task PROVE Honest(report[t], seen[t])
    <3>1. Good(rc, sc, fresh, job[t], report[t], seen[t])
      BY DEF Inv
    <3>2. Honest(NoReport, seen[t])
      BY IdleTypes DEF Honest
    <3>3. QED
      BY <3>1, <3>2 DEF Good
  <2>2. DnsHonest /\ DnsDirtyDiffers
    BY <2>1 DEF DnsHonest, DnsDirtyDiffers, Honest
  <2>3. QED
    BY <2>2 DEF Inv, RoutesInv
<1>2. QED
  BY <1>1, InvAlways, PTL

-----------------------------------------------------------------------------
(* What a step may never do. *)

\* An apply deletes only where sc had a route with the tag of its list during
\* the call, however old its plan is.
THEOREM OnlyTagged == Spec => OnlyTaggedDests
<1>1. ASSUME Inv, NEW t \in Task, job[t].call.op = "apply", job[t].pc = "del"
      PROVE  job[t].dest \in seen[t].tagged
  <2>1. Watched(rc, sc, job[t], seen[t])
    BY <1>1, ActiveFacts DEF Active, Fits
  <2>2. QED
    BY <1>1, <2>1 DEF Watched
<1>2. Inv /\ [Next]_vars =>
        [\A t \in Task :
           job[t].call.op = "apply" /\ job[t].pc = "del" /\ rc' # rc /\ job'[t] # job[t] =>
             job[t].dest \in seen[t].tagged]_vars
  BY <1>1
<1>3. QED
  BY <1>2, InvAlways, PTL DEF Spec, OnlyTaggedDests

LEMMA EndsAlways ==
  ASSUME Inv, [Next]_vars, NEW t \in Task
  PROVE  Ends(t)
<1>1. job \in [Task -> Job]
  BY DEF Inv, TypeOK
<1>2. ASSUME NEW u \in Task, Step(u) PROVE Ends(t)
  <2>1. Fine(u)
    BY <1>2, StepFine
  <2>2. u # t => job'[t] = job[t]
    BY <1>1, <2>1 DEF Fine, OwnJob
  <2>3. QED
    BY <2>1, <2>2 DEF Fine, Ends, Finished, Active
<1>3. ASSUME NEW u \in Task, Start(u) PROVE Ends(t)
  <2>1. ~Active(u) /\ (u # t => job'[t] = job[t])
    BY <1>1, <1>3 DEF Start
  <2>2. ~Finished(t)
    BY <2>1 DEF Finished, Active
  <2>3. QED
    BY <2>2 DEF Ends
<1>4. CASE Reboot
  <2>1. ASSUME ~Survives(t) PROVE ~report'[t].ok
    <3>1. report'[t] = [NoReport EXCEPT !.op = job[t].call.op]
      BY <1>4, <2>1 DEF Reboot
    <3>2. job[t].call.op \in Ops
      BY JobsHaveOps
    <3>3. IsPlain(report'[t], job[t].call.op, FALSE, FALSE)
      BY <3>1, <3>2, BrokenReports
    <3>4. QED
      BY <3>3 DEF IsPlain
  <2>2. Survives(t) => job'[t] = job[t]
    BY <1>4 DEF Reboot
  <2>4. ~Finished(t)
    BY <2>1, <2>2 DEF Finished, Active
  <2>5. QED
    BY <2>4 DEF Ends
<1>5. CASE UNCHANGED vars
  <2>1. job' = job
    BY <1>5 DEF vars
  <2>2. ~Finished(t)
    BY <2>1 DEF Finished, Active
  <2>3. QED
    BY <2>2 DEF Ends
<1>6. QED
  BY <1>2, <1>3, <1>4, <1>5 DEF Next

\* A saved apply of a plan since which nothing else was written has brought the
\* routes of the list, in both configurations, to what the list resolved to.
THEOREM Converges == Spec => Converged
<1>1. Inv /\ [Next]_vars =>
        [\A t \in Task :
           LET p == job[t].plan IN
           Finished(t) /\ report'[t].op = "apply" /\ report'[t].saved /\ p \in fresh' =>
             /\ TaggedDests(rc'.static, p.tag) = p.want
             /\ TaggedDests(sc'.static, p.tag) = p.want]_vars
  BY EndsAlways DEF Ends, Reached
<1>2. QED
  BY <1>1, InvAlways, PTL DEF Spec, Converged

-----------------------------------------------------------------------------
(* Every step does to (rc, sc) what SavedConfig allows. *)

\* The state functions the refinement mapping substitutes.
OpenTasks == {t \in Task : Active(t)}
ConsentTasks == {t \in Task : Active(t) /\ AsksSave(job[t].call)}

\* A step of t's call leaves both sets alone, or ends the call.
LEMMA OwnSets ==
  ASSUME NEW t \in Task, job \in [Task -> Job], Active(t), OwnJob(t)
  PROVE  \/ OpenTasks' = OpenTasks /\ ConsentTasks' = ConsentTasks
         \/ OpenTasks' = OpenTasks \ {t} /\ ConsentTasks' = ConsentTasks \ {t}
<1>1. CASE job' = [job EXCEPT ![t] = IdleJob]
  <2>1. ~Active(t)' /\ \A u \in Task \ {t} : job'[u] = job[u]
    BY <1>1, IdleTypes DEF Active
  <2>2. \A u \in Task \ {t} : Active(u)' = Active(u)
    BY <2>1 DEF Active
  <2>3. QED
    BY <2>1, <2>2 DEF OpenTasks, ConsentTasks
<1>2. ASSUME NEW k, job' = [job EXCEPT ![t] = k], k.pc # "idle", k.call = job[t].call
      PROVE  OpenTasks' = OpenTasks /\ ConsentTasks' = ConsentTasks
  <2>1. \A u \in Task : Active(u)' = Active(u) /\ job'[u].call = job[u].call
    BY <1>2 DEF Active
  <2>2. QED
    BY <2>1 DEF OpenTasks, ConsentTasks
<1>3. QED
  BY <1>1, <1>2 DEF OwnJob

LEMMA StartOpens ==
  ASSUME Inv, NEW t \in Task, Start(t)
  PROVE  SC!Open(t)
<1>1. ~Active(t) /\ rc' = rc /\ sc' = sc
  BY DEF Start
<1>2. PICK c \in Calls[t] :
        \E p : job' = [job EXCEPT ![t] = [IdleJob EXCEPT !.pc = FirstPhase(c), !.call = c,
                                                         !.plan = p, !.dest = c.dest]]
  BY DEF Start
<1>3. FirstPhase(c) # "idle"
  BY RoutesAssumption, FirstPhaseFacts
<1>4. job'[t].pc # "idle" /\ \A u \in Task \ {t} : job'[u] = job[u]
  BY <1>2, <1>3 DEF Inv, TypeOK, IdleJob
<1>5. Active(t)' /\ \A u \in Task \ {t} : Active(u)' = Active(u)
  BY <1>4 DEF Active
<1>6. OpenTasks' = OpenTasks \cup {t} /\ t \notin OpenTasks
  BY <1>1, <1>5 DEF OpenTasks
<1>7. ConsentTasks' \in {ConsentTasks, ConsentTasks \cup {t}}
  BY <1>1, <1>4, <1>5 DEF ConsentTasks
<1>8. AsSlots(rc)' = AsSlots(rc) /\ AsSlots(sc)' = AsSlots(sc)
  BY <1>1
<1>9. QED
  BY <1>1, <1>6, <1>7, <1>8 DEF SC!Open, OpenTasks, ConsentTasks

\* A configuration as slots: what it has at a destination, and at an index.
DnsAt(f, i) == {r \in f.dns : r.index = i}
AllSlots == ({"ip"} \X Dest) \cup ({"dns"} \X Index)

IsAt(f, x) ==
  \/ \E e \in Dest : /\ x = <<"ip", e>> /\ At(f.static, e) # {}
                     /\ AsSlots(f)[x] = At(f.static, e)
  \/ \E i \in Index : /\ x = <<"dns", i>> /\ DnsAt(f, i) # {}
                      /\ AsSlots(f)[x] = DnsAt(f, i)

LEMMA SlotsFacts ==
  ASSUME NEW f \in Config
  PROVE  /\ \A e \in Dest : At(f.static, e) # {} => <<"ip", e>> \in DOMAIN AsSlots(f)
         /\ \A i \in Index : DnsAt(f, i) # {} => <<"dns", i>> \in DOMAIN AsSlots(f)
         /\ \A x \in DOMAIN AsSlots(f) : IsAt(f, x)
<1> DEFINE D == {<<"ip", r.dest>> : r \in f.static} \cup {<<"dns", r.index>> : r \in f.dns}
           at(x) == IF x[1] = "ip" THEN At(f.static, x[2]) ELSE {r \in f.dns : r.index = x[2]}
<1>1. f.static \subseteq Route /\ f.dns \subseteq DnsRoute
  BY ConfigFacts
<1>2. AsSlots(f) = [x \in D |-> at(x)]
  BY DEF AsSlots
<1>3. /\ \A r \in f.static : <<"ip", r.dest>> \in D
      /\ \A r \in f.dns : <<"dns", r.index>> \in D
  OBVIOUS
<1>4. \A x \in D : \/ \E r \in f.static : x = <<"ip", r.dest>>
                   \/ \E r \in f.dns : x = <<"dns", r.index>>
  OBVIOUS
<1>5. /\ \A e \in Dest : at(<<"ip", e>>) = At(f.static, e)
      /\ \A i \in Index : at(<<"dns", i>>) = DnsAt(f, i)
  BY DEF DnsAt
<1> HIDE DEF D, at
<1>6. DOMAIN AsSlots(f) = D /\ \A x \in D : AsSlots(f)[x] = at(x)
  BY <1>2
<1>7. ASSUME NEW e \in Dest, At(f.static, e) # {} PROVE <<"ip", e>> \in D
  BY <1>3, <1>7 DEF At
<1>8. ASSUME NEW i \in Index, DnsAt(f, i) # {} PROVE <<"dns", i>> \in D
  BY <1>3, <1>8 DEF DnsAt
<1>9. ASSUME NEW x \in D PROVE IsAt(f, x)
  <2>1. CASE \E r \in f.static : x = <<"ip", r.dest>>
    <3>1. PICK r \in f.static : x = <<"ip", r.dest>>
      BY <2>1
    <3>2. r.dest \in Dest /\ r \in At(f.static, r.dest)
      BY <1>1 DEF Route, At
    <3>3. AsSlots(f)[x] = At(f.static, r.dest)
      BY <1>5, <1>6, <3>1, <3>2
    <3>4. QED
      BY <3>1, <3>2, <3>3 DEF IsAt
  <2>2. CASE \E r \in f.dns : x = <<"dns", r.index>>
    <3>1. PICK r \in f.dns : x = <<"dns", r.index>>
      BY <2>2
    <3>2. r.index \in Index /\ r \in DnsAt(f, r.index)
      BY <1>1 DEF DnsRoute, DnsAt
    <3>3. AsSlots(f)[x] = DnsAt(f, r.index)
      BY <1>5, <1>6, <3>1, <3>2
    <3>4. QED
      BY <3>1, <3>2, <3>3 DEF IsAt
  <2>3. QED
    BY <1>4, <2>1, <2>2
<1>10. QED
  BY <1>6, <1>7, <1>8, <1>9

LEMMA SlotsAreConfig ==
  ASSUME NEW f \in Config
  PROVE  SC!IsConfig(AsSlots(f))
<1> DEFINE F == AsSlots(f)
<1>1. f.static \subseteq Route /\ f.dns \subseteq DnsRoute
  BY ConfigFacts
<1>2. ASSUME NEW x \in DOMAIN F
      PROVE  x \in AllSlots /\ F[x] \in (SUBSET Route) \cup (SUBSET DnsRoute)
  <2>1. IsAt(f, x)
    BY <1>2, SlotsFacts
  <2>2. CASE \E e \in Dest : x = <<"ip", e>> /\ F[x] = At(f.static, e)
    <3>1. PICK e \in Dest : x = <<"ip", e>> /\ F[x] = At(f.static, e)
      BY <2>2
    <3>2. At(f.static, e) \subseteq Route
      BY <1>1 DEF At
    <3> HIDE DEF F
    <3>3. QED
      BY <3>1, <3>2 DEF AllSlots
  <2>3. CASE \E i \in Index : x = <<"dns", i>> /\ F[x] = DnsAt(f, i)
    <3>1. PICK i \in Index : x = <<"dns", i>> /\ F[x] = DnsAt(f, i)
      BY <2>3
    <3>2. DnsAt(f, i) \subseteq DnsRoute
      BY <1>1 DEF DnsAt
    <3> HIDE DEF F
    <3>3. QED
      BY <3>1, <3>2 DEF AllSlots
  <2>4. QED
    BY <2>1, <2>2, <2>3 DEF IsAt
<1>3. F = [x \in DOMAIN F |-> F[x]]
  BY DEF AsSlots
<1> HIDE DEF F
<1>4. DOMAIN F \subseteq AllSlots /\ F \in [DOMAIN F -> (SUBSET Route) \cup (SUBSET DnsRoute)]
  BY <1>2, <1>3
<1>5. QED
  BY <1>4 DEF SC!IsConfig, AllSlots, F

\* f and g have the same in every slot but s.
SameBut(f, g, s) ==
  /\ \A e \in Dest : <<"ip", e>> # s => At(f.static, e) = At(g.static, e)
  /\ \A i \in Index : <<"dns", i>> # s => DnsAt(f, i) = DnsAt(g, i)

LEMMA SlotsKept ==
  ASSUME NEW f \in Config, NEW g \in Config, NEW s, SameBut(f, g, s),
         NEW x \in DOMAIN AsSlots(f), x # s
  PROVE  x \in DOMAIN AsSlots(g) /\ AsSlots(f)[x] = AsSlots(g)[x]
<1>1. IsAt(f, x)
  BY SlotsFacts
<1>2. ASSUME NEW e \in Dest, x = <<"ip", e>>, At(f.static, e) # {},
             AsSlots(f)[x] = At(f.static, e)
      PROVE  x \in DOMAIN AsSlots(g) /\ AsSlots(f)[x] = AsSlots(g)[x]
  <2>1. At(g.static, e) = At(f.static, e)
    BY <1>2 DEF SameBut
  <2>2. x \in DOMAIN AsSlots(g) /\ IsAt(g, x)
    BY <1>2, <2>1, SlotsFacts
  <2>3. AsSlots(g)[x] = At(g.static, e)
    BY <1>2, <2>2 DEF IsAt
  <2>4. QED
    BY <1>2, <2>1, <2>2, <2>3
<1>3. ASSUME NEW i \in Index, x = <<"dns", i>>, DnsAt(f, i) # {},
             AsSlots(f)[x] = DnsAt(f, i)
      PROVE  x \in DOMAIN AsSlots(g) /\ AsSlots(f)[x] = AsSlots(g)[x]
  <2>1. DnsAt(g, i) = DnsAt(f, i)
    BY <1>3 DEF SameBut
  <2>2. x \in DOMAIN AsSlots(g) /\ IsAt(g, x)
    BY <1>3, <2>1, SlotsFacts
  <2>3. AsSlots(g)[x] = DnsAt(g, i)
    BY <1>3, <2>2 DEF IsAt
  <2>4. QED
    BY <1>3, <2>1, <2>2, <2>3
<1>4. QED
  BY <1>1, <1>2, <1>3 DEF IsAt

LEMMA SlotsDiffer ==
  ASSUME NEW f \in Config, NEW g \in Config, NEW s \in AllSlots, SameBut(f, g, s)
  PROVE  SC!DifferInOne(AsSlots(f), AsSlots(g))
<1>1. SameBut(g, f, s)
  BY DEF SameBut
<1>2. \A x \in DOMAIN AsSlots(f) \ {s} :
        x \in DOMAIN AsSlots(g) /\ AsSlots(f)[x] = AsSlots(g)[x]
  BY SlotsKept
<1>3. \A x \in DOMAIN AsSlots(g) \ {s} : x \in DOMAIN AsSlots(f)
  BY <1>1, SlotsKept
<1>4. QED
  BY <1>2, <1>3 DEF SC!DifferInOne, AllSlots

\* A request is about one slot.
LEMMA MadeInOne ==
  ASSUME NEW f \in Config, NEW g, NEW j, j.pc \in WritePhases, NEW d \in Dest,
         Made(f, j, d, g) \/ g = f
  PROVE  SC!DifferInOne(AsSlots(f), AsSlots(g))
<1>1. <<"ip", d>> \in AllSlots /\ g \in Config
  BY DEF AllSlots, Made
<1>2. CASE g = f
  BY <1>1, <1>2, SlotsDiffer DEF SameBut
<1>3. CASE Made(f, j, d, g) /\ j.pc \in {"del", "put", "insert"}
  <2>1. g.dns = f.dns
    BY <1>3 DEF Made
  <2>2. PICK r :
          /\ r.dest = d
          /\ g.static = f.static \ At(f.static, d) \/ g.static = f.static \cup {r}
    <3>1. CASE j.pc = "del"
      <4>1. g.static = f.static \ At(f.static, d)
        BY <1>3, <3>1 DEF Made
      <4>2. [dest |-> d].dest = d
        OBVIOUS
      <4>3. QED
        BY <4>1, <4>2
    <3>2. ASSUME j.pc \in {"put", "insert"}
          PROVE  \E r : r.dest = d /\ g.static = f.static \cup {r}
      <4> DEFINE l == IF j.pc = "put" THEN j.call.tag ELSE j.plan.tag
                 q == [dest |-> d, tag |-> l]
      <4>1. g.static = f.static \cup {q} /\ q.dest = d
        BY <1>3, <3>2 DEF Made
      <4> HIDE DEF q
      <4>2. QED
        BY <4>1
    <3>3. QED
      BY <1>3, <3>1, <3>2
  <2>3. ASSUME NEW e \in Dest, <<"ip", e>> # <<"ip", d>>
        PROVE  At(f.static, e) = At(g.static, e)
    <3>1. e # d
      BY <2>3
    <3>2. \A q : q \in At(f.static, e) <=> q \in At(g.static, e)
      BY <2>2, <3>1 DEF At
    <3>3. QED
      BY <3>2
  <2>4. SameBut(f, g, <<"ip", d>>)
    BY <2>1, <2>3 DEF SameBut, DnsAt
  <2>5. QED
    BY <1>1, <2>4, SlotsDiffer
<1>4. CASE Made(f, j, d, g) /\ j.pc = "commit"
  BY <1>2, <1>4 DEF Made
<1>5. CASE Made(f, j, d, g) /\ j.pc = "dns"
  <2>1. g.static = f.static
    BY <1>5 DEF Made
  <2>2. PICK i \in Index : \A r \in DnsRoute : r.index # i => (r \in g.dns <=> r \in f.dns)
    BY <1>5 DEF Made
  <2>3. f.dns \subseteq DnsRoute /\ g.dns \subseteq DnsRoute
    BY <1>1, ConfigFacts
  <2>4. ASSUME NEW k \in Index, <<"dns", k>> # <<"dns", i>>
        PROVE  DnsAt(f, k) = DnsAt(g, k)
    <3>1. k # i
      BY <2>4
    <3>2. \A r : r \in DnsAt(f, k) <=> r \in DnsAt(g, k)
      BY <2>2, <2>3, <3>1 DEF DnsAt
    <3>3. QED
      BY <3>2 DEF DnsAt
  <2>5. SameBut(f, g, <<"dns", i>>) /\ <<"dns", i>> \in AllSlots
    BY <2>1, <2>4 DEF SameBut, AllSlots
  <2>6. QED
    BY <1>1, <2>5, SlotsDiffer
<1>6. QED
  BY <1>2, <1>3, <1>4, <1>5 DEF WritePhases

\* A step of t that writes nothing is one SavedConfig does not see, or the end
\* of t's call.
LEMMA ReadingStep ==
  ASSUME Inv, NEW t \in Task, Active(t), OwnJob(t), UNCHANGED <<rc, sc>>
  PROVE  SC!Close(t) \/ UNCHANGED SC!scVars
<1>1. t \in OpenTasks /\ AsSlots(rc)' = AsSlots(rc) /\ AsSlots(sc)' = AsSlots(sc)
  BY DEF OpenTasks
<1>2. \/ OpenTasks' = OpenTasks /\ ConsentTasks' = ConsentTasks
      \/ OpenTasks' = OpenTasks \ {t} /\ ConsentTasks' = ConsentTasks \ {t}
  BY OwnSets DEF Inv, TypeOK
<1>3. QED
  BY <1>1, <1>2 DEF SC!Close, SC!scVars, OpenTasks, ConsentTasks

LEMMA WritingStep ==
  ASSUME Inv, NEW t \in Task, Write(t)
  PROVE  SC!Request(t)
<1>1. Active(t) /\ Fine(t)
  BY WriteFine DEF Write, WritePhases, Active
<1>2. PICK d \in Dest : Written(t, d)
  BY WriteCases
<1>3. rc \in Config /\ rc' \in Config
  BY <1>1 DEF Fine, Inv, TypeOK
<1>4. SC!IsConfig(AsSlots(rc')) /\ SC!DifferInOne(AsSlots(rc), AsSlots(rc'))
  BY <1>2, <1>3, SlotsAreConfig, MadeInOne DEF Written
<1>5. t \in OpenTasks
  BY <1>1 DEF OpenTasks
<1>6. sc' = sc \/ (t \in ConsentTasks /\ sc' = rc')
  <2>1. CASE Saves(job[t]) /\ sc' = rc'
    <3>1. job[t] \in Job /\ Ordered(job[t]) /\ job[t].pc \in WritePhases
      BY <1>1, <1>2, ActiveFacts DEF Fits, Written
    <3>2. job[t].call.op \in Writers /\ job[t].call.save
      BY <2>1, <3>1, CallFacts DEF Saves, Ordered, WritePhases, Writers, Ops, DnsOps
    <3>3. QED
      BY <1>1, <2>1, <3>2 DEF ConsentTasks, AsksSave
  <2>2. QED
    BY <1>2, <2>1 DEF Written
<1>7. AsSlots(sc)' = AsSlots(sc) \/ (t \in ConsentTasks /\ AsSlots(sc)' = AsSlots(rc)')
  BY <1>6
<1>8. \/ OpenTasks' = OpenTasks /\ ConsentTasks' = ConsentTasks
      \/ OpenTasks' = OpenTasks \ {t} /\ ConsentTasks' = ConsentTasks \ {t}
  BY <1>1, OwnSets DEF Inv, TypeOK, Fine
<1>9. QED
  BY <1>4, <1>5, <1>7, <1>8 DEF SC!Request, OpenTasks, ConsentTasks

LEMMA RebootIsReboot ==
  ASSUME Reboot
  PROVE  SC!Reboot
<1>1. ASSUME NEW t \in Task
      PROVE  job'[t] = IF Survives(t) THEN job[t] ELSE IdleJob
  BY DEF Reboot
<1>2. /\ OpenTasks' \subseteq OpenTasks
      /\ ConsentTasks' = ConsentTasks \cap OpenTasks'
  <2>1. ASSUME NEW t \in Task, Active(t)'
        PROVE  Active(t) /\ job'[t] = job[t]
    BY <1>1, <2>1, IdleTypes DEF Active
  <2>2. QED
    BY <2>1 DEF OpenTasks, ConsentTasks, AsksSave
<1>3. AsSlots(rc)' = AsSlots(sc) /\ AsSlots(sc)' = AsSlots(sc)
  BY DEF Reboot
<1>4. QED
  BY <1>2, <1>3 DEF SC!Reboot, OpenTasks, ConsentTasks

LEMMA InitRefines == Init => SC!SCInit
<1> SUFFICES ASSUME Init PROVE SC!SCInit
  OBVIOUS
<1>1. rc \in Config /\ sc = rc
  BY RoutesAssumption DEF Init
<1>2. \A t \in Task : ~Active(t)
  BY IdleTypes DEF Init, Active
<1>3. SC!IsConfig(AsSlots(rc))
  BY <1>1, SlotsAreConfig
<1>4. QED
  BY <1>1, <1>2, <1>3 DEF SC!SCInit

LEMMA NextRefines == Inv /\ [Next]_vars => [SC!SCNext]_SC!scVars
<1> SUFFICES ASSUME Inv, [Next]_vars PROVE [SC!SCNext]_SC!scVars
  OBVIOUS
<1>1. CASE Reboot
  BY <1>1, RebootIsReboot DEF SC!SCNext
<1>2. ASSUME NEW t \in Task, Start(t) PROVE SC!SCNext
  BY <1>2, StartOpens DEF SC!SCNext
<1>3. ASSUME NEW t \in Task, Step(t) PROVE [SC!SCNext]_SC!scVars
  <2>1. CASE Write(t)
    BY <2>1, WritingStep DEF SC!SCNext
  <2>2. CASE ~Write(t)
    <3>1. Active(t) /\ Reads(t)
      BY <1>3, <2>2 DEF Step, Active, ReadFails, Resolve, ListAndPlan, Begin, Recheck,
         Removal, Conclude, Find, Lose, WritePhases, Look, ProbeNext, DnsRead, Reading
    <3>2. OwnJob(t)
      BY <1>3, StepFine DEF Fine
    <3>3. QED
      BY <3>1, <3>2, ReadingStep DEF Reads, SC!SCNext
  <2>3. QED
    BY <2>1, <2>2
<1>4. CASE UNCHANGED vars
  BY <1>4 DEF vars, SC!scVars, Active, AsksSave
<1>5. QED
  BY <1>1, <1>2, <1>3, <1>4 DEF Next

\* A request changes the routes to one destination or one dns-proxy route at
\* most, and sc changes only for a call that asked for a save, and becomes rc.
THEOREM RoutesSavesOnRequest == Spec => ImplementsSavedConfig
<1>1. Init => SC!SCInit
  BY InitRefines
<1>2. Inv /\ [Next]_vars => [SC!SCNext]_SC!scVars
  BY NextRefines
<1>3. QED
  BY <1>1, <1>2, InvAlways, PTL DEF Spec, ImplementsSavedConfig, SC!SCSpec
=============================================================================
