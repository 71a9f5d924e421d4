------------------------ MODULE RouterClient_proofs -------------------------
(***************************************************************************)
(* Proofs about RouterClient for any tasks, routers, hosts, calls and any  *)
(* answers of the hosts.                                                   *)
(***************************************************************************)
EXTENDS RouterClient, FiniteSetTheorems, SequenceTheorems, TLAPS

-----------------------------------------------------------------------------
(* The hosts of a router. *)

\* A finite set of numbers has an n-th member for every n up to its size.
LEMMA NthExists ==
  ASSUME NEW m \in Nat, NEW S \in SUBSET (1..m), NEW n \in 1..Cardinality(S)
  PROVE  \E i \in S : Cardinality({k \in S : k <= i}) = n
<1> DEFINE Upto(i) == {k \in S : k <= i}
           rank == [i \in S |-> Cardinality(Upto(i))]
           T == 1..Cardinality(S)
<1>1. IsFiniteSet(S) /\ Cardinality(S) \in Nat
  <2>1. IsFiniteSet(1..m)
    BY FS_Interval
  <2>2. QED
    BY <2>1, FS_Subset, FS_CardinalityType
<1>2. ASSUME NEW i \in S
      PROVE  IsFiniteSet(Upto(i)) /\ Cardinality(Upto(i)) \in T
  <2>1. Upto(i) \in SUBSET S /\ i \in Upto(i)
    OBVIOUS
  <2>2. IsFiniteSet(Upto(i)) /\ Cardinality(Upto(i)) <= Cardinality(S)
    BY <1>1, <2>1, FS_Subset
  <2>3. Cardinality(Upto(i)) \in Nat /\ Cardinality(Upto(i)) # 0
    BY <2>1, <2>2, FS_CardinalityType, FS_EmptySet
  <2>4. QED
    BY <1>1, <2>2, <2>3
<1>3. ASSUME NEW i \in S, NEW k \in S, i < k
      PROVE  Cardinality(Upto(i)) # Cardinality(Upto(k))
  <2>1. \A x \in S : x \in Int
    OBVIOUS
  <2>2. k \in Upto(k) /\ k \notin Upto(i)
    BY <1>3, <2>1
  <2>3. \A x \in S : x <= i => x <= k
    BY <1>3, <2>1
  <2>4. Upto(i) \in SUBSET Upto(k)
    BY <2>3
  <2>5. QED
    BY <1>2, <2>2, <2>4, FS_Subset
<1>4. rank \in Injection(S, T)
  <2>1. rank \in [S -> T]
    BY <1>2
  <2>2. ASSUME NEW i \in S, NEW k \in S, rank[i] = rank[k]
        PROVE  i = k
    <3>1. i < k \/ k < i \/ i = k
      OBVIOUS
    <3>2. QED
      BY <1>3, <2>2, <3>1
  <2>3. QED
    BY <2>1, <2>2 DEF Injection, IsInjective
<1>5. IsFiniteSet(T) /\ Cardinality(T) = Cardinality(S)
  BY <1>1, FS_Interval
<1> HIDE DEF rank, T
<1>6. rank \in Surjection(S, T)
  BY <1>4, <1>5, FS_Injection
<1>7. \E i \in S : rank[i] = n
  BY <1>6 DEF Surjection, T
<1>8. QED
  BY <1>7 DEF rank

\* Every host of the list of candidates is one of the router's.
LEMMA CandidatesAreHosts ==
  ASSUME NEW name, Resolved(name) # {}
  PROVE  /\ Candidates(name) \in Seq(Host)
         /\ Candidates(name) # <<>>
         /\ \E a \in Resolved(name) : Range(Candidates(name)) \subseteq Range(Hosts[a])
<1> DEFINE a == CHOOSE b \in Resolved(name) : TRUE
           hosts == Hosts[a]
           places == FirstPlaces(hosts)
           size == Cardinality(places)
<1>1. a \in Resolved(name)
  OBVIOUS
<1>2. a \in DOMAIN Hosts
  BY <1>1 DEF Resolved
<1> HIDE DEF a
<1>3. hosts \in Seq(Host) /\ hosts # <<>> /\ Range(hosts) \subseteq Host
  BY <1>2, RouterClientAssumption DEF Host
<1>4. Len(hosts) \in Nat \ {0} /\ DOMAIN hosts = 1..Len(hosts)
  BY <1>3
<1>5. places \in SUBSET (1..Len(hosts))
  BY <1>4 DEF FirstPlaces
<1>6. 1 \in places
  BY <1>4 DEF FirstPlaces
<1>7. size \in Nat \ {0}
  <2>1. IsFiniteSet(1..Len(hosts))
    BY <1>4, FS_Interval
  <2>2. IsFiniteSet(places)
    BY <1>5, <2>1, FS_Subset
  <2>3. QED
    BY <1>6, <2>2, FS_CardinalityType, FS_EmptySet
<1>8. \A n \in 1..size : Nth(places, n) \in places
  BY <1>4, <1>5, NthExists DEF Nth
<1>9. Candidates(name) = [n \in 1..size |-> hosts[Nth(places, n)]]
  BY DEF Candidates, a
<1> HIDE DEF places, size, hosts
<1>10. \A n \in 1..size : hosts[Nth(places, n)] \in Range(hosts)
  BY <1>4, <1>5, <1>8 DEF Range
<1>11. Candidates(name) \in [1..size -> Host]
  BY <1>3, <1>9, <1>10
<1>12. Candidates(name) \in Seq(Host)
  BY <1>7, <1>11
<1>13. Candidates(name) # <<>>
  BY <1>7, <1>11
<1>14. Range(Candidates(name)) \subseteq Range(hosts)
  BY <1>9, <1>10 DEF Range
<1>15. QED
  BY <1>1, <1>12, <1>13, <1>14 DEF hosts

-----------------------------------------------------------------------------
(* The inductive invariant. *)

\* What a call has collected is what the router sent it.
Collects(j, s) == j.got = s.sent /\ (j.reached => s.pong)

\* A running call works for the router its leg names, at one of its hosts.
Placed(c, j) ==
  /\ c = j.named
  /\ j.legs # <<>>
  /\ j.opens \in 1..4
  /\ j.hosts # <<>>
  /\ \E a \in Resolved(j.named) : Range(j.hosts) \subseteq Range(Hosts[a])

\* What a client may have done when it is in phase j.pc.
Staged(j, s) ==
  /\ j.pc \in {"auth", "login", "post"} => s.posts = 0 /\ j.polls = 0 /\ ~s.forbade
  /\ j.pc = "post" => Head(j.hosts) \in s.let
  /\ j.pc = "pause" => j.polls < MaxPolls /\ j.got = j.polls + 1
  /\ j.pc = "poll" => j.got = j.polls

Answered(r, s) == r.ok => r.got = s.sent /\ (r.reached => s.pong)

Good(c, j, r, s) ==
  IF j.pc = "idle" THEN c = NoAlias /\ Answered(r, s)
  ELSE Placed(c, j) /\ Staged(j, s) /\ Collects(j, s)

Inv == TypeOK /\ \A t \in Task : Good(ctx[t], job[t], report[t], seen[t])

-----------------------------------------------------------------------------
(* How a call goes on. *)

LEMMA IdleTypes ==
  /\ IdleJob \in Job /\ IdleJob.pc = "idle" /\ IdleJob.client = 0
  /\ NoReport \in Report /\ ~NoReport.ok
  /\ NothingSeen \in Seen
<1>1. /\ 0 \in 0..MaxPolls /\ 0 \in 0..MaxTime /\ 0 \in 0..(MaxPolls + 1)
      /\ NoAlias \in Name
      /\ <<>> \in Seq(Leg) /\ <<>> \in Seq(Host)
  BY RouterClientAssumption DEF Name
<1>2. QED
  BY <1>1 DEF IdleJob, Job, Phases, NoReport, Report, NothingSeen, Seen

\* The call ends, with what it has collected if it succeeds.
Over(t, j) ==
  \E r \in Report : End(t, r) /\ (r.ok => r.got = j.got /\ r.reached = j.reached)

\* The call makes its next client.
Fresh(k, j) ==
  /\ k \in Job
  /\ k.pc = "auth" /\ k.client = j.client + 1 /\ k.polls = 0
  /\ k.got = j.got /\ k.reached = j.reached
  /\ Placed(k.named, k)

Onward(t, j) ==
  \/ Over(t, j)
  \/ \E k : /\ Fresh(k, j)
            /\ ctx' = [ctx EXCEPT ![t] = k.named]
            /\ job' = [job EXCEPT ![t] = k]
            /\ UNCHANGED report

\* A client that is made for a name that stands for a router is placed there.
LEMMA OpenedIsFresh ==
  ASSUME NEW j \in Job, NEW name \in Name, Resolved(name) # {},
         j.legs # <<>>, j.opens \in 1..4, j.named = name
  PROVE  Fresh(Opened(j, name), j)
<1> DEFINE k == Opened(j, name)
<1>1. /\ Candidates(name) \in Seq(Host) /\ Candidates(name) # <<>>
      /\ \E a \in Resolved(name) : Range(Candidates(name)) \subseteq Range(Hosts[a])
  BY CandidatesAreHosts
<1>2. 0 \in 0..MaxPolls /\ 0 \in 0..MaxTime
  BY RouterClientAssumption
<1>3. k = [j EXCEPT !.pc = "auth", !.client = j.client + 1, !.hosts = Candidates(name),
                    !.polls = 0, !.left = 0]
  BY DEF Opened
<1>4. k \in Job
  <2>1. Candidates(name) \in Seq(Host) /\ j.client + 1 \in Nat /\ "auth" \in Phases
    BY <1>1 DEF Job, Phases
  <2> HIDE DEF k
  <2>2. QED
    BY <1>2, <1>3, <2>1 DEF Job
<1>5. /\ k.pc = "auth" /\ k.client = j.client + 1 /\ k.polls = 0
      /\ k.got = j.got /\ k.reached = j.reached /\ k.named = name
      /\ k.legs = j.legs /\ k.opens = j.opens /\ k.hosts = Candidates(name)
  BY <1>3 DEF Job
<1> HIDE DEF k
<1>6. Placed(k.named, k)
  BY <1>1, <1>5 DEF Placed
<1>7. Fresh(k, j)
  BY <1>4, <1>5, <1>6 DEF Fresh
<1>8. QED
  BY <1>7 DEF k

LEMMA NextLegMoves ==
  ASSUME NEW t \in Task, NEW j \in Job, NextLeg(t, j)
  PROVE  Onward(t, j)
<1>1. CASE End(t, [ok |-> TRUE, reached |-> j.reached, got |-> j.got])
  <2>1. [ok |-> TRUE, reached |-> j.reached, got |-> j.got] \in Report
    BY DEF Job, Report
  <2>2. QED
    BY <1>1, <2>1 DEF Onward, Over
<1>2. CASE End(t, NoReport)
  BY <1>2, IdleTypes DEF Onward, Over
<1>3. ASSUME NEW k \in 1..Len(j.legs), NEW name, name = NameOf(j, j.legs[k]),
             Resolved(name) # {},
             ctx' = WithContext(t, name),
             job' = [job EXCEPT ![t] =
                 Opened([j EXCEPT !.named = name, !.opens = j.legs[k].opens,
                                  !.legs = SubSeq(j.legs, k, Len(j.legs))], name)],
             UNCHANGED report
      PROVE  Onward(t, j)
  <2> DEFINE rest == SubSeq(j.legs, k, Len(j.legs))
             i == [j EXCEPT !.named = name, !.opens = j.legs[k].opens, !.legs = rest]
  <2>1. j.legs \in Seq(Leg) /\ j.legs[k] \in Leg /\ j.inner \in Name
    BY DEF Job
  <2>2. name \in Name /\ j.legs[k].opens \in 1..4
    BY <1>3, <2>1 DEF NameOf, Leg
  <2>3. rest \in Seq(Leg) /\ rest # <<>>
    <3>1. Len(j.legs) \in Nat /\ \A n \in k..Len(j.legs) : j.legs[n] \in Leg
      BY <2>1
    <3>2. rest \in Seq(Leg) /\ Len(rest) = Len(j.legs) - k + 1
      BY <3>1, SubSeqProperties
    <3>3. Len(rest) # 0
      BY <3>1, <3>2
    <3>4. QED
      BY <3>2, <3>3, EmptySeq
  <2> HIDE DEF rest
  <2>4. i \in Job
    <3>1. name \in Name /\ j.legs[k].opens \in 0..4 /\ rest \in Seq(Leg)
      BY <2>2, <2>3
    <3>2. QED
      BY <3>1 DEF Job
  <2>5. /\ i.named = name /\ i.legs # <<>> /\ i.opens \in 1..4
        /\ i.client = j.client /\ i.got = j.got /\ i.reached = j.reached
    BY <2>2, <2>3 DEF Job
  <2>6. job' = [job EXCEPT ![t] = Opened(i, name)]
    BY <1>3 DEF rest
  <2> HIDE DEF i
  <2>7. Fresh(Opened(i, name), i)
    BY <1>3, <2>2, <2>4, <2>5, OpenedIsFresh
  <2>8. Opened(i, name).named = name
    BY <2>4, <2>5 DEF Opened, Job
  <2>9. Fresh(Opened(i, name), j)
    BY <2>5, <2>7 DEF Fresh
  <2>10. QED
    BY <1>3, <2>6, <2>8, <2>9 DEF Onward, WithContext
<1>4. QED
  BY <1>1, <1>2, <1>3 DEF NextLeg

LEMMA LegFailsMoves ==
  ASSUME TypeOK, NEW t \in Task, Placed(ctx[t], job[t]), LegFails(t)
  PROVE  Onward(t, job[t])
<1> DEFINE j == job[t]
           i == [j EXCEPT !.legs = Tail(j.legs)]
<1>1. j \in Job /\ j.legs \in Seq(Leg) /\ j.legs # <<>>
  BY DEF TypeOK, Job, Placed
<1>2. i \in Job /\ i.client = j.client /\ i.got = j.got /\ i.reached = j.reached
  BY <1>1, HeadTailProperties DEF Job
<1>3. NextLeg(t, i) \/ End(t, NoReport)
  BY DEF LegFails
<1> HIDE DEF i
<1>4. CASE NextLeg(t, i)
  <2>1. Onward(t, i)
    BY <1>2, <1>4, NextLegMoves
  <2>2. QED
    BY <1>2, <2>1 DEF Onward, Over, Fresh
<1>5. CASE End(t, NoReport)
  BY <1>5, IdleTypes DEF Onward, Over
<1>6. QED
  BY <1>3, <1>4, <1>5

LEMMA ClientDoneMoves ==
  ASSUME TypeOK, NEW t \in Task, NEW j \in Job, Placed(ctx[t], j), ClientDone(t, j)
  PROVE  Onward(t, j)
<1> DEFINE rest == [j EXCEPT !.legs = Tail(j.legs)]
           more == [j EXCEPT !.opens = j.opens - 1]
<1>1. j.legs \in Seq(Leg) /\ j.legs # <<>> /\ j.opens \in 1..4
  BY DEF Job, Placed
<1>2. CASE NextLeg(t, rest)
  <2>1. /\ rest \in Job
        /\ rest.client = j.client /\ rest.got = j.got /\ rest.reached = j.reached
    BY <1>1, HeadTailProperties DEF Job
  <2> HIDE DEF rest
  <2>2. Onward(t, rest)
    BY <1>2, <2>1, NextLegMoves
  <2>3. QED
    BY <2>1, <2>2 DEF Onward, Over, Fresh
<1>3. CASE j.opens # 1 /\ Goto(t, Opened(more, ctx[t]))
  <2>1. j.opens - 1 \in 0..4 /\ j.opens - 1 \in 1..4
    BY <1>1, <1>3
  <2>2. more \in Job
    BY <2>1 DEF Job
  <2>3. /\ more.named = ctx[t] /\ more.legs # <<>> /\ more.opens \in 1..4
        /\ more.client = j.client /\ more.got = j.got /\ more.reached = j.reached
    BY <1>1, <2>1 DEF Job, Placed
  <2>4. ctx[t] \in Name /\ Resolved(ctx[t]) # {} /\ ctx[t] = j.named
    BY DEF Job, Placed
  <2> HIDE DEF more
  <2>5. Fresh(Opened(more, ctx[t]), more)
    BY <2>2, <2>3, <2>4, OpenedIsFresh
  <2>6. Opened(more, ctx[t]).named = ctx[t]
    BY <2>2, <2>3 DEF Opened, Job
  <2> DEFINE k == Opened(more, ctx[t])
  <2>7. job' = [job EXCEPT ![t] = k] /\ UNCHANGED <<ctx, report>>
    BY <1>3 DEF Goto
  <2>8. ctx' = [ctx EXCEPT ![t] = ctx[t]]
    BY <2>7 DEF TypeOK
  <2>9. Fresh(k, j) /\ k.named = ctx[t]
    BY <2>3, <2>5, <2>6 DEF Fresh
  <2> HIDE DEF k
  <2>10. QED
    BY <2>7, <2>8, <2>9 DEF Onward
<1>4. Resolved(ctx[t]) # {}
  BY DEF Placed
<1>5. QED
  BY <1>2, <1>3, <1>4 DEF ClientDone

-----------------------------------------------------------------------------
(* The invariant is kept. *)

\* A step of task t changes what belongs to t only.
LEMMA StepFrame ==
  ASSUME Inv, NEW t \in Task,
         NEW c \in Name, NEW j \in Job, NEW r \in Report, NEW s \in Seen,
         Good(c, j, r, s),
         ctx' = [ctx EXCEPT ![t] = c], job' = [job EXCEPT ![t] = j],
         report' = [report EXCEPT ![t] = r], seen' = [seen EXCEPT ![t] = s],
         calls' \in 0..MaxCalls
  PROVE  Inv'
<1>1. TypeOK'
  BY DEF Inv, TypeOK
<1>2. ASSUME NEW u \in Task
      PROVE  Good(ctx'[u], job'[u], report'[u], seen'[u])
  <2>1. CASE u = t
    BY <2>1 DEF Inv, TypeOK
  <2>2. CASE u # t
    <3>1. ctx'[u] = ctx[u] /\ job'[u] = job[u] /\ report'[u] = report[u] /\ seen'[u] = seen[u]
      BY <2>2 DEF Inv, TypeOK
    <3>2. QED
      BY <3>1 DEF Inv
  <2>3. QED
    BY <2>1, <2>2
<1>3. QED
  BY <1>1, <1>2 DEF Inv

\* The next client finds nothing that its predecessors have left.
Renewed(s) == [s EXCEPT !.posts = 0, !.let = {}, !.forbade = FALSE]

LEMMA RenewedType ==
  ASSUME NEW s \in Seen
  PROVE  /\ Renewed(s) \in Seen
         /\ Renewed(s).posts = 0 /\ ~Renewed(s).forbade
         /\ Renewed(s).sent = s.sent /\ Renewed(s).pong = s.pong
<1>1. Renewed(s) \in Seen
  <2>1. 0 \in 0..1 /\ {} \in SUBSET Host /\ FALSE \in BOOLEAN
    OBVIOUS
  <2>2. QED
    BY <2>1 DEF Renewed, Seen
<1>2. Renewed(s).posts = 0 /\ ~Renewed(s).forbade
  BY DEF Renewed, Seen
<1>3. Renewed(s).sent = s.sent /\ Renewed(s).pong = s.pong
  BY DEF Renewed, Seen
<1>4. QED
  BY <1>1, <1>2, <1>3

LEMMA OnwardInv ==
  ASSUME Inv, NEW t \in Task, NEW j \in Job, NEW s \in Seen,
         j.client = job[t].client, Collects(j, s), Onward(t, j), Sees(t, s)
  PROVE  Inv'
<1>1. /\ job[t] \in Job /\ report[t] \in Report /\ ctx[t] \in Name
      /\ calls' \in 0..MaxCalls /\ job[t].client \in Nat
      /\ NoAlias \in Name
      /\ job \in [Task -> Job] /\ report \in [Task -> Report]
  BY DEF Inv, TypeOK, Sees, Job, Name
<1>2. CASE Over(t, j)
  <2>1. PICK r \in Report : End(t, r) /\ (r.ok => r.got = j.got /\ r.reached = j.reached)
    BY <1>2 DEF Over
  <2>2. job'[t].client = 0 /\ ~(job'[t].client > job[t].client)
    BY <1>1, <2>1, IdleTypes DEF End
  <2>3. seen' = [seen EXCEPT ![t] = s]
    BY <1>1, <2>2 DEF Sees
  <2>4. Good(NoAlias, IdleJob, r, s)
    BY <2>1, IdleTypes DEF Good, Answered, Collects
  <2>5. QED
    BY <1>1, <2>1, <2>3, <2>4, IdleTypes, StepFrame DEF End, WithContext
<1>3. ASSUME NEW k, Fresh(k, j), ctx' = [ctx EXCEPT ![t] = k.named],
             job' = [job EXCEPT ![t] = k], UNCHANGED report
      PROVE  Inv'
  <2>1. k \in Job /\ k.client = job[t].client + 1 /\ k.named \in Name /\ k.pc = "auth"
    BY <1>3 DEF Fresh, Job
  <2>2. job'[t] = k /\ job'[t].client > job[t].client
    BY <1>1, <1>3, <2>1
  <2>3. seen' = [seen EXCEPT ![t] = Renewed(s)]
    BY <1>1, <2>1, <2>2 DEF Sees, Renewed
  <2>4. /\ Renewed(s) \in Seen
        /\ Renewed(s).posts = 0 /\ ~Renewed(s).forbade
        /\ Renewed(s).sent = s.sent /\ Renewed(s).pong = s.pong
    BY RenewedType
  <2>5. Staged(k, Renewed(s)) /\ Collects(k, Renewed(s)) /\ Placed(k.named, k)
    BY <1>3, <2>4 DEF Staged, Collects, Fresh
  <2>6. Good(k.named, k, report[t], Renewed(s))
    BY <2>1, <2>5 DEF Good
  <2>7. report' = [report EXCEPT ![t] = report[t]]
    BY <1>1, <1>3
  <2>8. QED
    BY <1>1, <1>3, <2>1, <2>3, <2>4, <2>6, <2>7, StepFrame
<1>4. QED
  BY <1>2, <1>3 DEF Onward

\* The client goes on in another phase.
LEMMA GotoInv ==
  ASSUME Inv, NEW t \in Task, NEW j \in Job, NEW s \in Seen, Active(t),
         j.client = job[t].client, j.pc # "idle",
         Placed(ctx[t], j), Staged(j, s), Collects(j, s),
         Goto(t, j), Sees(t, s)
  PROVE  Inv'
<1>1. /\ job[t] \in Job /\ report[t] \in Report /\ ctx[t] \in Name
      /\ calls' \in 0..MaxCalls /\ job[t].client \in Nat
      /\ job \in [Task -> Job] /\ report \in [Task -> Report] /\ ctx \in [Task -> Name]
  BY DEF Inv, TypeOK, Sees, Job
<1>2. job' = [job EXCEPT ![t] = j] /\ UNCHANGED <<ctx, report>>
  BY DEF Goto
<1>3. seen' = [seen EXCEPT ![t] = s]
  <2>1. job'[t] = j /\ ~(job'[t].client > job[t].client)
    BY <1>1, <1>2
  <2>2. QED
    BY <2>1 DEF Sees
<1>4. Good(ctx[t], j, report[t], s)
  BY DEF Good
<1>5. ctx' = [ctx EXCEPT ![t] = ctx[t]] /\ report' = [report EXCEPT ![t] = report[t]]
  BY <1>1, <1>2
<1>6. QED
  BY <1>1, <1>2, <1>3, <1>4, <1>5, StepFrame

LEMMA ActiveInv ==
  ASSUME Inv, NEW t \in Task, Active(t)
  PROVE  /\ job[t] \in Job /\ seen[t] \in Seen
         /\ Placed(ctx[t], job[t]) /\ Staged(job[t], seen[t]) /\ Collects(job[t], seen[t])
BY DEF Inv, TypeOK, Good, Active

LEMMA LegFailsInv ==
  ASSUME Inv, NEW t \in Task, Active(t), NEW s \in Seen, Collects(job[t], s),
         LegFails(t), Sees(t, s)
  PROVE  Inv'
<1>1. Onward(t, job[t])
  BY ActiveInv, LegFailsMoves DEF Inv
<1>2. QED
  BY <1>1, ActiveInv, OnwardInv

LEMMA ClientDoneInv ==
  ASSUME Inv, NEW t \in Task, NEW j \in Job, NEW s \in Seen,
         j.client = job[t].client, Placed(ctx[t], j), Collects(j, s),
         ClientDone(t, j), Sees(t, s)
  PROVE  Inv'
<1>1. Onward(t, j)
  BY ClientDoneMoves DEF Inv
<1>2. QED
  BY <1>1, OnwardInv

LEMMA InitInv == Init => Inv
<1> SUFFICES ASSUME Init PROVE Inv
  OBVIOUS
<1>1. NoAlias \in Name /\ 0 \in 0..MaxCalls
  BY RouterClientAssumption DEF Name
<1>2. TypeOK
  BY <1>1, IdleTypes DEF Init, TypeOK
<1>3. \A t \in Task : Good(ctx[t], job[t], report[t], seen[t])
  BY IdleTypes DEF Init, Good, Answered
<1>4. QED
  BY <1>2, <1>3 DEF Inv

LEMMA StartInv ==
  ASSUME Inv, NEW t \in Task, Start(t)
  PROVE  Inv'
<1>1. PICK c \in Calls[t] : NextLeg(t, [IdleJob EXCEPT !.legs = c.legs, !.inner = c.router])
  BY DEF Start
<1> DEFINE j == [IdleJob EXCEPT !.legs = c.legs, !.inner = c.router]
<1>2. c.legs \in Seq(Leg) /\ c.router \in Name
  BY RouterClientAssumption
<1>3. j \in Job /\ j.got = 0 /\ ~j.reached
  BY <1>2, IdleTypes DEF Job, IdleJob
<1> HIDE DEF j
<1>4. Onward(t, j)
  BY <1>1, <1>3, NextLegMoves DEF j
<1>5. /\ seen' = [seen EXCEPT ![t] = NothingSeen] /\ calls' \in 0..MaxCalls
      /\ report \in [Task -> Report] /\ NoAlias \in Name
  <2>1. calls \in 0..MaxCalls /\ calls < MaxCalls /\ calls' = calls + 1 /\ MaxCalls \in Nat
    BY RouterClientAssumption DEF Inv, TypeOK, Start
  <2>2. QED
    BY <2>1 DEF Inv, TypeOK, Start, Name
<1>6. /\ NothingSeen \in Seen /\ Collects(j, NothingSeen)
      /\ NothingSeen.posts = 0 /\ ~NothingSeen.forbade
  BY <1>3, IdleTypes DEF Collects, NothingSeen
<1>7. CASE Over(t, j)
  <2>1. PICK r \in Report : End(t, r) /\ (r.ok => r.got = j.got /\ r.reached = j.reached)
    BY <1>7 DEF Over
  <2>2. Good(NoAlias, IdleJob, r, NothingSeen)
    BY <1>6, <2>1, IdleTypes DEF Good, Answered, Collects
  <2>3. QED
    BY <1>5, <2>1, <2>2, IdleTypes, StepFrame DEF End, WithContext
<1>8. ASSUME NEW k, Fresh(k, j), ctx' = [ctx EXCEPT ![t] = k.named],
             job' = [job EXCEPT ![t] = k], UNCHANGED report
      PROVE  Inv'
  <2>1. k \in Job /\ k.named \in Name /\ k.pc = "auth"
    BY <1>8 DEF Fresh, Job
  <2>2. Staged(k, NothingSeen) /\ Collects(k, NothingSeen) /\ Placed(k.named, k)
    BY <1>6, <1>8 DEF Staged, Collects, Fresh
  <2>3. Good(k.named, k, report[t], NothingSeen)
    BY <2>1, <2>2 DEF Good
  <2>4. report' = [report EXCEPT ![t] = report[t]] /\ report[t] \in Report
    BY <1>5, <1>8
  <2>5. QED
    BY <1>5, <1>6, <1>8, <2>1, <2>3, <2>4, StepFrame
<1>9. QED
  BY <1>4, <1>7, <1>8 DEF Onward

\* The login at a host fails, or a host forbids access.
LEMMA TurnedAwayInv ==
  ASSUME Inv, NEW t \in Task, job[t].pc \in {"auth", "login"}, NEW forbidden \in BOOLEAN,
         TurnedAway(t, forbidden)
  PROVE  Inv'
<1> DEFINE j == job[t]
           s == [seen[t] EXCEPT !.forbade = @ \/ forbidden]
           i == [j EXCEPT !.pc = "auth", !.hosts = Tail(j.hosts)]
<1>1. Active(t)
  BY DEF Active
<1>2. /\ j \in Job /\ seen[t] \in Seen
      /\ Placed(ctx[t], j) /\ Staged(j, seen[t]) /\ Collects(j, seen[t])
  BY <1>1, ActiveInv
<1>3. s \in Seen /\ Collects(j, s) /\ s.posts = seen[t].posts
  <2>1. s \in Seen
    BY <1>2 DEF Seen
  <2>2. QED
    BY <1>2, <2>1 DEF Seen, Collects
<1>4. Sees(t, s)
  BY DEF TurnedAway
<1>5. CASE LegFails(t)
  BY <1>1, <1>3, <1>4, <1>5, LegFailsInv
<1>6. CASE Len(j.hosts) > 1 /\ ~forbidden /\ Goto(t, i)
  <2>1. j.hosts \in Seq(Host) /\ j.hosts # <<>>
    BY <1>2 DEF Job, Placed
  <2>2. /\ Tail(j.hosts) \in Seq(Host) /\ Len(Tail(j.hosts)) = Len(j.hosts) - 1
        /\ Len(j.hosts) \in Nat
        /\ \A n \in 1..Len(Tail(j.hosts)) : Tail(j.hosts)[n] = j.hosts[n + 1]
    BY <2>1, HeadTailProperties
  <2>3. Tail(j.hosts) # <<>>
    BY <1>6, <2>2, EmptySeq
  <2>4. Range(Tail(j.hosts)) \subseteq Range(j.hosts)
    <3>1. /\ DOMAIN Tail(j.hosts) = 1..Len(Tail(j.hosts)) /\ DOMAIN j.hosts = 1..Len(j.hosts)
      BY <2>1, <2>2
    <3>2. \A n \in 1..Len(Tail(j.hosts)) : n + 1 \in 1..Len(j.hosts)
      BY <2>2
    <3>3. QED
      BY <2>2, <3>1, <3>2 DEF Range
  <2> HIDE DEF s
  <2>5. i \in Job /\ i.pc = "auth"
    <3>1. "auth" \in Phases
      BY DEF Phases
    <3>2. QED
      BY <1>2, <2>2, <3>1 DEF Job
  <2>6. /\ i.named = j.named /\ i.legs = j.legs /\ i.opens = j.opens
        /\ i.hosts = Tail(j.hosts) /\ i.client = j.client /\ i.polls = j.polls
        /\ i.got = j.got /\ i.reached = j.reached
    BY <1>2 DEF Job
  <2>7. ~s.forbade
    BY <1>2, <1>6 DEF s, Staged, Seen
  <2> HIDE DEF i
  <2>8. Placed(ctx[t], i)
    BY <1>2, <2>3, <2>4, <2>6 DEF Placed
  <2>9. Staged(i, s) /\ Collects(i, s)
    BY <1>2, <1>3, <2>5, <2>6, <2>7 DEF Staged, Collects
  <2>10. QED
    BY <1>1, <1>3, <1>4, <1>6, <2>5, <2>6, <2>8, <2>9, GotoInv DEF i
<1>7. QED
  BY <1>5, <1>6 DEF TurnedAway, HostFails

\* A host lets the client in.
LEMMA LetInInv ==
  ASSUME Inv, NEW t \in Task, job[t].pc \in {"auth", "login"}, LetIn(t)
  PROVE  Inv'
<1> DEFINE j == job[t]
           i == [j EXCEPT !.pc = "post"]
           s == [seen[t] EXCEPT !.let = @ \cup {Head(j.hosts)}]
<1>1. /\ Active(t) /\ j \in Job /\ seen[t] \in Seen
      /\ Placed(ctx[t], j) /\ Staged(j, seen[t]) /\ Collects(j, seen[t])
  BY ActiveInv DEF Active
<1>2. Head(j.hosts) \in Host
  BY <1>1, HeadTailProperties DEF Job, Placed
<1>3. s \in Seen
  BY <1>1, <1>2 DEF Seen
<1>4. /\ s.posts = seen[t].posts /\ s.forbade = seen[t].forbade
      /\ s.sent = seen[t].sent /\ s.pong = seen[t].pong /\ Head(j.hosts) \in s.let
  BY <1>1 DEF Seen
<1>5. i \in Job
  BY <1>1 DEF Job, Phases
<1>6. /\ i.pc = "post" /\ i.named = j.named /\ i.legs = j.legs /\ i.opens = j.opens
      /\ i.hosts = j.hosts /\ i.client = j.client /\ i.polls = j.polls
      /\ i.got = j.got /\ i.reached = j.reached
  BY <1>1 DEF Job
<1>7. Goto(t, i) /\ Sees(t, s)
  BY DEF LetIn
<1> HIDE DEF i, s
<1>8. Placed(ctx[t], i) /\ Staged(i, s) /\ Collects(i, s)
  BY <1>1, <1>4, <1>6 DEF Placed, Staged, Collects
<1>9. QED
  BY <1>1, <1>3, <1>5, <1>6, <1>7, <1>8, GotoInv

LEMMA AuthInv ==
  ASSUME Inv, NEW t \in Task, Auth(t)
  PROVE  Inv'
<1> DEFINE j == job[t]
           i == [j EXCEPT !.pc = "login"]
<1>1. j.pc \in {"auth", "login"}
  BY DEF Auth
<1>2. CASE Goto(t, i) /\ Sees(t, seen[t])
  <2>1. /\ Active(t) /\ j \in Job /\ seen[t] \in Seen
        /\ Placed(ctx[t], j) /\ Staged(j, seen[t]) /\ Collects(j, seen[t])
    BY <1>1, ActiveInv DEF Active
  <2>2. i \in Job
    BY <2>1 DEF Job, Phases
  <2>3. /\ i.pc = "login" /\ i.named = j.named /\ i.legs = j.legs /\ i.opens = j.opens
        /\ i.hosts = j.hosts /\ i.client = j.client /\ i.polls = j.polls
        /\ i.got = j.got /\ i.reached = j.reached
    BY <2>1 DEF Job
  <2> HIDE DEF i
  <2>4. Placed(ctx[t], i) /\ Staged(i, seen[t]) /\ Collects(i, seen[t])
    BY <1>1, <2>1, <2>3 DEF Placed, Staged, Collects
  <2>5. QED
    BY <1>2, <2>1, <2>2, <2>3, <2>4, GotoInv
<1>3. CASE LetIn(t)
  BY <1>1, <1>3, LetInInv
<1>4. ASSUME NEW b \in BOOLEAN, TurnedAway(t, b)
      PROVE  Inv'
  BY <1>1, <1>4, TurnedAwayInv
<1>5. QED
  BY <1>2, <1>3, <1>4 DEF Auth

LEMMA LoginInv ==
  ASSUME Inv, NEW t \in Task, Login(t)
  PROVE  Inv'
<1>1. job[t].pc \in {"auth", "login"}
  BY DEF Login
<1>2. CASE LetIn(t)
  BY <1>1, <1>2, LetInInv
<1>3. ASSUME NEW b \in BOOLEAN, TurnedAway(t, b)
      PROVE  Inv'
  BY <1>1, <1>3, TurnedAwayInv
<1>4. QED
  BY <1>2, <1>3 DEF Login

\* A chunk of messages arrives, to job j and history s.
LEMMA ChunkInv ==
  ASSUME Inv, NEW t \in Task, Active(t), NEW j \in Job, NEW s \in Seen,
         j.client = job[t].client, Placed(ctx[t], j), Collects(j, s), j.got = j.polls,
         Chunk(t, j, s)
  PROVE  Inv'
<1>1. PICK more \in BOOLEAN, pong \in BOOLEAN :
        LET k == [j EXCEPT !.got = Collected(@, more), !.reached = @ \/ Pong(more, pong)] IN
        /\ IF more /\ GoesOn(k) THEN Goto(t, [k EXCEPT !.pc = "pause"]) ELSE ClientDone(t, k)
        /\ Sees(t, [s EXCEPT !.sent = @ + 1, !.pong = @ \/ (pong /\ ~more)])
  BY DEF Chunk
<1> DEFINE k == [j EXCEPT !.got = j.got + 1, !.reached = j.reached \/ (pong /\ ~more)]
           u == [s EXCEPT !.sent = s.sent + 1, !.pong = s.pong \/ (pong /\ ~more)]
           i == [k EXCEPT !.pc = "pause"]
<1>2. /\ IF more /\ GoesOn(k) THEN Goto(t, i) ELSE ClientDone(t, k)
      /\ Sees(t, u)
  BY <1>1 DEF Collected, Pong
<1>3. j.got + 1 \in 0..(MaxPolls + 1) /\ s.sent + 1 \in 0..(MaxPolls + 1)
  BY RouterClientAssumption DEF Job, Seen, Collects
<1>4. k \in Job /\ u \in Seen
  BY <1>3 DEF Job, Seen
<1>5. /\ k.named = j.named /\ k.legs = j.legs /\ k.opens = j.opens /\ k.hosts = j.hosts
      /\ k.client = j.client /\ k.polls = j.polls /\ k.got = j.got + 1
      /\ k.reached = (j.reached \/ (pong /\ ~more))
  BY DEF Job
<1>6. u.sent = s.sent + 1 /\ u.pong = (s.pong \/ (pong /\ ~more))
  BY DEF Seen
<1> HIDE DEF k, u
<1>7. Placed(ctx[t], k) /\ Collects(k, u)
  BY <1>5, <1>6 DEF Placed, Collects
<1>8. CASE more /\ GoesOn(k) /\ Goto(t, i)
  <2>1. i \in Job
    BY <1>4 DEF Job, Phases
  <2>2. /\ i.pc = "pause" /\ i.named = k.named /\ i.legs = k.legs /\ i.opens = k.opens
        /\ i.hosts = k.hosts /\ i.client = k.client /\ i.polls = k.polls
        /\ i.got = k.got /\ i.reached = k.reached
    BY <1>4 DEF Job
  <2> HIDE DEF i
  <2>3. Placed(ctx[t], i) /\ Staged(i, u) /\ Collects(i, u)
    BY <1>5, <1>7, <1>8, <2>2 DEF Placed, Staged, Collects, GoesOn
  <2>4. QED
    BY <1>2, <1>4, <1>5, <1>8, <2>1, <2>2, <2>3, GotoInv
<1>9. CASE ClientDone(t, k)
  BY <1>2, <1>4, <1>5, <1>7, <1>9, ClientDoneInv
<1>10. QED
  BY <1>2, <1>8, <1>9

LEMMA PostInv ==
  ASSUME Inv, NEW t \in Task, Post(t)
  PROVE  Inv'
<1> DEFINE j == job[t]
           s == Posted(seen[t])
<1>1. /\ Active(t) /\ j \in Job /\ seen[t] \in Seen /\ j.pc = "post"
      /\ Placed(ctx[t], j) /\ Staged(j, seen[t]) /\ Collects(j, seen[t])
  BY ActiveInv DEF Active, Post
<1>2. s \in Seen /\ s.sent = seen[t].sent /\ s.pong = seen[t].pong
  <2>1. seen[t].total + 1 \in Nat /\ seen[t].posts + 1 \in 0..1
    BY <1>1 DEF Seen, Staged
  <2>2. QED
    BY <1>1, <2>1 DEF Posted, Seen
<1> HIDE DEF s
<1>3. Collects(j, s)
  BY <1>1, <1>2 DEF Collects
<1>4. CASE Chunk(t, [j EXCEPT !.left = MaxTime, !.got = 0], [s EXCEPT !.sent = 0])
  <2> DEFINE i == [j EXCEPT !.left = MaxTime, !.got = 0]
             u == [s EXCEPT !.sent = 0]
  <2>1. MaxTime \in 0..MaxTime /\ 0 \in 0..(MaxPolls + 1)
    BY RouterClientAssumption
  <2>2. i \in Job /\ u \in Seen
    BY <1>1, <1>2, <2>1 DEF Job, Seen
  <2>3. /\ i.named = j.named /\ i.legs = j.legs /\ i.opens = j.opens /\ i.hosts = j.hosts
        /\ i.client = j.client /\ i.polls = j.polls /\ i.got = 0 /\ i.reached = j.reached
    BY <1>1 DEF Job
  <2>4. u.sent = 0 /\ u.pong = s.pong
    BY <1>2 DEF Seen
  <2> HIDE DEF i, u
  <2>5. Placed(ctx[t], i) /\ Collects(i, u) /\ i.got = i.polls
    BY <1>1, <1>3, <2>3, <2>4 DEF Placed, Collects, Staged
  <2>6. QED
    BY <1>1, <1>4, <2>2, <2>3, <2>5, ChunkInv DEF i, u
<1>5. CASE ClientDone(t, j) /\ Sees(t, s)
  BY <1>1, <1>2, <1>3, <1>5, ClientDoneInv
<1>6. CASE LegFails(t) /\ Sees(t, s)
  BY <1>1, <1>2, <1>3, <1>6, LegFailsInv
<1>7. CASE LegFails(t) /\ Sees(t, seen[t])
  BY <1>1, <1>7, LegFailsInv
<1>8. QED
  BY <1>4, <1>5, <1>6, <1>7 DEF Post, ExchangeFails, s

LEMMA PauseInv ==
  ASSUME Inv, NEW t \in Task, Pause(t)
  PROVE  Inv'
<1> DEFINE j == job[t]
<1>1. /\ Active(t) /\ j \in Job /\ seen[t] \in Seen /\ j.pc = "pause"
      /\ Placed(ctx[t], j) /\ Staged(j, seen[t]) /\ Collects(j, seen[t])
  BY ActiveInv DEF Active, Pause
<1>2. PICK left \in 0..MaxTime :
        Goto(t, [j EXCEPT !.pc = "poll", !.polls = j.polls + 1, !.left = left])
  BY DEF Pause
<1> DEFINE i == [j EXCEPT !.pc = "poll", !.polls = j.polls + 1, !.left = left]
<1>3. j.polls + 1 \in 0..MaxPolls /\ "poll" \in Phases
  BY <1>1, RouterClientAssumption DEF Staged, Job, Phases
<1>4. i \in Job
  BY <1>1, <1>3 DEF Job
<1>5. /\ i.pc = "poll" /\ i.named = j.named /\ i.legs = j.legs /\ i.opens = j.opens
      /\ i.hosts = j.hosts /\ i.client = j.client /\ i.polls = j.polls + 1
      /\ i.got = j.got /\ i.reached = j.reached
  BY <1>1 DEF Job
<1>6. Goto(t, i) /\ Sees(t, seen[t])
  BY <1>2 DEF Pause
<1> HIDE DEF i
<1>7. Placed(ctx[t], i) /\ Staged(i, seen[t]) /\ Collects(i, seen[t])
  BY <1>1, <1>5 DEF Placed, Staged, Collects
<1>8. QED
  BY <1>1, <1>4, <1>5, <1>6, <1>7, GotoInv

LEMMA PollInv ==
  ASSUME Inv, NEW t \in Task, Poll(t)
  PROVE  Inv'
<1>1. /\ Active(t) /\ job[t] \in Job /\ seen[t] \in Seen /\ job[t].pc = "poll"
      /\ Placed(ctx[t], job[t]) /\ Staged(job[t], seen[t]) /\ Collects(job[t], seen[t])
  BY ActiveInv DEF Active, Poll
<1>2. CASE Chunk(t, job[t], seen[t])
  BY <1>1, <1>2, ChunkInv DEF Staged
<1>3. CASE LegFails(t) /\ Sees(t, seen[t])
  BY <1>1, <1>3, LegFailsInv
<1>4. QED
  BY <1>2, <1>3 DEF Poll

LEMMA NextInv == Inv /\ [Next]_vars => Inv'
<1> SUFFICES ASSUME Inv, [Next]_vars PROVE Inv'
  OBVIOUS
<1>1. ASSUME NEW t \in Task, Start(t) PROVE Inv'
  BY <1>1, StartInv
<1>2. ASSUME NEW t \in Task, Auth(t) PROVE Inv'
  BY <1>2, AuthInv
<1>3. ASSUME NEW t \in Task, Login(t) PROVE Inv'
  BY <1>3, LoginInv
<1>4. ASSUME NEW t \in Task, Post(t) PROVE Inv'
  BY <1>4, PostInv
<1>5. ASSUME NEW t \in Task, Pause(t) PROVE Inv'
  BY <1>5, PauseInv
<1>6. ASSUME NEW t \in Task, Poll(t) PROVE Inv'
  BY <1>6, PollInv
<1>7. CASE UNCHANGED vars
  BY <1>7 DEF vars, Inv, TypeOK
<1>8. QED
  BY <1>1, <1>2, <1>3, <1>4, <1>5, <1>6, <1>7 DEF Next, Step

LEMMA InvAlways == Spec => []Inv
<1>1. QED
  BY InitInv, NextInv, PTL DEF Spec

-----------------------------------------------------------------------------
(* The theorems. *)

\* The types, no alias left behind between calls, and nothing lost of what the
\* router sent: for any routers, calls and answers (ClientInv).
THEOREM ClientCorrect == Spec => []ClientInv
<1>1. Inv => ClientInv
  BY DEF Inv, ClientInv, ContextRestored, NothingDropped, Good, Active, Answered
<1>2. QED
  BY <1>1, InvAlways, PTL

\* A step that counts no payload leaves the count of every task.
LEMMA SeesTotal ==
  ASSUME TypeOK, NEW t \in Task, NEW u \in Task, NEW s, "total" \in DOMAIN s,
         s.total = seen[u].total, Sees(u, s)
  PROVE  seen'[t].total = seen[t].total
<1> DEFINE new == IF job'[u].client > job[u].client
                  THEN [s EXCEPT !.posts = 0, !.let = {}, !.forbade = FALSE] ELSE s
<1>1. new.total = s.total
  OBVIOUS
<1>2. seen' = [seen EXCEPT ![u] = new]
  BY DEF Sees
<1> HIDE DEF new
<1>3. QED
  BY <1>1, <1>2 DEF TypeOK

\* Only the step that posts the payload counts one.
LEMMA OnlyPostDelivers ==
  ASSUME Inv, [Next]_vars, NEW t \in Task, Delivers(t)
  PROVE  Post(t)
<1>1. TypeOK /\ \A u \in Task : seen[u] \in Seen
  BY DEF Inv, TypeOK
<1>2. seen[t].total \in Nat /\ seen'[t].total # seen[t].total
  BY <1>1 DEF Delivers, Seen
<1>3. ASSUME NEW u \in Task, Start(u)
      PROVE  FALSE
  <2>1. seen' = [seen EXCEPT ![u] = NothingSeen]
    BY <1>3 DEF Start
  <2>2. seen'[t] = seen[t] \/ seen'[t] = NothingSeen
    BY <1>1, <2>1 DEF TypeOK
  <2>3. seen'[t].total = 0
    BY <1>2, <2>2 DEF NothingSeen
  <2>4. QED
    BY <1>2, <2>3 DEF Delivers
<1>4. ASSUME NEW u \in Task, LetIn(u)
      PROVE  FALSE
  <2> DEFINE s == [seen[u] EXCEPT !.let = @ \cup {Head(job[u].hosts)}]
  <2>1. "total" \in DOMAIN s /\ s.total = seen[u].total /\ Sees(u, s)
    BY <1>1, <1>4 DEF Seen, LetIn
  <2> HIDE DEF s
  <2>2. QED
    BY <1>1, <1>2, <2>1, SeesTotal
<1>5. ASSUME NEW u \in Task, NEW forbidden, TurnedAway(u, forbidden)
      PROVE  FALSE
  <2> DEFINE s == [seen[u] EXCEPT !.forbade = @ \/ forbidden]
  <2>1. "total" \in DOMAIN s /\ s.total = seen[u].total /\ Sees(u, s)
    BY <1>1, <1>5 DEF Seen, TurnedAway
  <2> HIDE DEF s
  <2>2. QED
    BY <1>1, <1>2, <2>1, SeesTotal
<1>6. ASSUME NEW u \in Task, Sees(u, seen[u])
      PROVE  FALSE
  <2>1. "total" \in DOMAIN seen[u]
    BY <1>1 DEF Seen
  <2>2. QED
    BY <1>1, <1>2, <1>6, <2>1, SeesTotal
<1>7. ASSUME NEW u \in Task, Auth(u) \/ Login(u) \/ Pause(u)
      PROVE  FALSE
  BY <1>4, <1>5, <1>6, <1>7 DEF Auth, Login, Pause
<1>8. ASSUME NEW u \in Task, Poll(u)
      PROVE  FALSE
  <2>1. ASSUME NEW more \in BOOLEAN, NEW pong \in BOOLEAN,
               Sees(u, [seen[u] EXCEPT !.sent = @ + 1, !.pong = @ \/ (pong /\ ~more)])
        PROVE  FALSE
    <3> DEFINE s == [seen[u] EXCEPT !.sent = @ + 1, !.pong = @ \/ (pong /\ ~more)]
    <3>1. "total" \in DOMAIN s /\ s.total = seen[u].total /\ Sees(u, s)
      BY <1>1, <2>1 DEF Seen
    <3> HIDE DEF s
    <3>2. QED
      BY <1>1, <1>2, <3>1, SeesTotal
  <2>2. QED
    BY <1>6, <1>8, <2>1 DEF Poll, Chunk
<1>9. ASSUME NEW u \in Task, u # t, Post(u)
      PROVE  FALSE
  <2>1. \E s : seen' = [seen EXCEPT ![u] = s]
    BY <1>9 DEF Post, Chunk, Sees
  <2>2. QED
    BY <1>1, <1>2, <1>9, <2>1 DEF TypeOK
<1>10. CASE UNCHANGED vars
  BY <1>2, <1>10 DEF vars
<1>11. QED
  BY <1>3, <1>7, <1>8, <1>9, <1>10 DEF Next, Step

\* The state in which a payload is posted.
LEMMA Delivering ==
  ASSUME Inv, [Next]_vars, NEW t \in Task, Delivers(t)
  PROVE  /\ job[t].hosts \in Seq(Host)
         /\ Placed(ctx[t], job[t])
         /\ seen[t].posts = 0 /\ ~seen[t].forbade
         /\ Head(job[t].hosts) \in seen[t].let
<1>1. job[t].pc = "post"
  BY OnlyPostDelivers DEF Post
<1>2. QED
  BY <1>1 DEF Inv, TypeOK, Job, Good, Staged

\* Whatever other calls do meanwhile, a payload goes to a host of the router the
\* running leg names (OnlyNamedRouter).
THEOREM NamedRouterOnly == Spec => OnlyNamedRouter
<1>1. ASSUME Inv, [Next]_vars, NEW t \in Task, Delivers(t)
      PROVE  \E a \in Resolved(job[t].named) : Contains(Hosts[a], Head(job[t].hosts))
  <2>1. job[t].hosts \in Seq(Host) /\ Placed(ctx[t], job[t])
    BY <1>1, Delivering
  <2>2. PICK a \in Resolved(job[t].named) : Range(job[t].hosts) \subseteq Range(Hosts[a])
    BY <2>1 DEF Placed
  <2>3. Head(job[t].hosts) \in Range(job[t].hosts)
    <3>1. job[t].hosts # <<>>
      BY <2>1 DEF Placed
    <3>2. 1 \in DOMAIN job[t].hosts /\ Head(job[t].hosts) = job[t].hosts[1]
      BY <2>1, <3>1
    <3>3. QED
      BY <3>2 DEF Range
  <2>4. a \in DOMAIN Hosts
    BY DEF Resolved
  <2>5. Contains(Hosts[a], Head(job[t].hosts))
    <3>1. Hosts[a] \in Seq(Host)
      BY <2>4, RouterClientAssumption
    <3>2. DOMAIN Hosts[a] = 1..Len(Hosts[a])
      BY <3>1
    <3>3. PICK i \in DOMAIN Hosts[a] : Hosts[a][i] = Head(job[t].hosts)
      BY <2>2, <2>3 DEF Range
    <3>4. QED
      BY <3>2, <3>3 DEF Contains
  <2>6. QED
    BY <2>5
<1>2. Inv /\ [Next]_vars =>
        [\A t \in Task : Delivers(t) =>
           \E a \in Resolved(job[t].named) : Contains(Hosts[a], Head(job[t].hosts))]_vars
  BY <1>1
<1>3. QED
  BY <1>2, InvAlways, PTL DEF Spec, OnlyNamedRouter

\* A payload is obeyed at most once, and only by a host that let this client in
\* (ObeyedOnce): a failed exchange is never tried at another host.
THEOREM PayloadObeyedOnce == Spec => ObeyedOnce
<1>1. Inv /\ [Next]_vars => [\A t \in Task : Delivers(t) => seen[t].posts = 0]_vars
  BY Delivering
<1>2. Inv /\ [Next]_vars =>
        [\A t \in Task :
           Delivers(t) => Head(job[t].hosts) \in seen[t].let /\ ~seen[t].forbade]_vars
  BY Delivering
<1>3. QED
  BY <1>1, <1>2, InvAlways, PTL DEF Spec, ObeyedOnce, PostedOnce, OnlyAfterLogin
=============================================================================
