---------------------------- MODULE RouterClient ----------------------------
(***************************************************************************)
(* How a tool call reaches a router: the alias of the call in a context    *)
(* variable (router_ctx.py), the hosts of that alias tried one after the   *)
(* other with a digest login (client.py), one payload posted, and for      *)
(* tools.ping the polling of rci_continued.  One action per HTTP request.  *)
(*                                                                         *)
(* A call is a list of legs.  Most tools are one leg under the alias of    *)
(* the call; cross_router_reachability and wireguard_handshake_check run   *)
(* each leg under an alias of its own, set before the leg and reset after  *)
(* it, and a leg may open several clients, one after the other (a capture  *)
(* summary opens four).  Every client looks the alias up when it is made,  *)
(* long after the leg began.                                               *)
(***************************************************************************)
EXTENDS Naturals, FiniteSets, SequencesExt

CONSTANTS Task,         \* tool calls that may be in flight together
          Alias,        \* names of routers
          Default,      \* the alias "default"
          NoAlias,      \* the empty alias
          Hosts,        \* Hosts[a]: the host of router a and its fallback_hosts
          Calls,        \* Calls[t]: the calls the agent may make as task t
          Answers,      \* what a host may do with a request, a subset of AnswerKinds
          MaxPolls,     \* `max_polls'
          MaxTime,      \* `overall_timeout', in ticks
          MaxCalls      \* bound: the number of calls of a behaviour

AnswerKinds == {"fails",      \* no answer, or not one that can be used
                "lost",       \* the payload is obeyed and its answer lost
                "forbidden",  \* 403 without a challenge
                "denied",     \* the login is rejected
                "known"}      \* /auth answers 200 at once: the session is there

Name == Alias \cup {NoAlias}
Host == UNION {Range(Hosts[a]) : a \in DOMAIN Hosts}

\* ping: the payload is polled for.  soft: an exception of the leg is swallowed.
\* opens: how many clients the leg opens.
Leg == [router : Name, ping : BOOLEAN, soft : BOOLEAN, opens : 1..4]

ASSUME RouterClientAssumption ==
  /\ Default \in Alias
  /\ NoAlias \notin Alias
  /\ DOMAIN Hosts \subseteq Alias
  /\ \A a \in DOMAIN Hosts : Hosts[a] \in Seq(Host) /\ Hosts[a] # <<>>
  /\ {MaxPolls, MaxTime, MaxCalls} \subseteq Nat
  /\ \A t \in Task : \A c \in Calls[t] : c.router \in Name /\ c.legs \in Seq(Leg)
  /\ Answers \subseteq AnswerKinds

VARIABLES ctx,      \* ctx[t]: the context variable as task t sees it
          job,      \* what each task is doing
          report,   \* the last answer each task got
          calls     \* how many calls were made

\* History, read by the properties only: what happened to each task's last
\* client.
VARIABLE seen

vars == <<ctx, job, report, calls, seen>>

-----------------------------------------------------------------------------
(* The registry of routers. *)

\* get_router: the empty alias stands for "default", or for the only router.
Resolved(name) ==
  IF name # NoAlias THEN {name} \cap DOMAIN Hosts
  ELSE IF Default \in DOMAIN Hosts THEN {Default}
  ELSE IF Cardinality(DOMAIN Hosts) = 1 THEN DOMAIN Hosts ELSE {}

\* host_candidates: each host once, at the first of its places.
FirstPlaces(hosts) ==
  {i \in DOMAIN hosts : \A k \in DOMAIN hosts : hosts[k] = hosts[i] => i <= k}
Nth(places, n) == CHOOSE i \in places : Cardinality({k \in places : k <= i}) = n
Candidates(name) ==
  LET hosts == Hosts[CHOOSE a \in Resolved(name) : TRUE]
      places == FirstPlaces(hosts) IN
  [n \in 1..Cardinality(places) |-> hosts[Nth(places, n)]]

-----------------------------------------------------------------------------
(* Tasks. *)

\* auth, login: the two requests of _auth.  post, poll: those of an exchange.
\* pause: asyncio.sleep between two polls.
Phases == {"idle", "auth", "login", "post", "pause", "poll"}

\* named: the alias the running leg names.  inner: that of the call.  legs: the
\* legs to come, the running one first.  client: how many clients the call has
\* made.  hosts: the candidates not yet given up, the one in use first.  opens:
\* clients the leg has still to use up.  polls, left: polls made, time left.
\* got: chunks of messages collected.  reached: a ping was answered.
Job == [pc : Phases, named : Name, inner : Name, legs : Seq(Leg), client : Nat,
        hosts : Seq(Host), opens : 0..4, polls : 0..MaxPolls, left : 0..MaxTime,
        got : 0..(MaxPolls + 1), reached : BOOLEAN]
IdleJob == [pc |-> "idle", named |-> NoAlias, inner |-> NoAlias, legs |-> <<>>,
            client |-> 0, hosts |-> <<>>, opens |-> 0, polls |-> 0, left |-> 0,
            got |-> 0, reached |-> FALSE]

\* reached: the verdict "ok" of a call that pings.  got: the chunks its last
\* ping returned.
Report == [ok : BOOLEAN, reached : BOOLEAN, got : 0..(MaxPolls + 1)]
NoReport == [ok |-> FALSE, reached |-> FALSE, got |-> 0]

\* total: payloads of the call that reached a host; posts: those of the current
\* client.  let: the hosts that let it in.  forbade: one forbade access.  sent:
\* chunks of the last ping.  pong: a ping of the call was answered.
Seen == [total : Nat, posts : 0..1, let : SUBSET Host, forbade : BOOLEAN,
         sent : 0..(MaxPolls + 1), pong : BOOLEAN]
NothingSeen == [total |-> 0, posts |-> 0, let |-> {}, forbade |-> FALSE, sent |-> 0,
                pong |-> FALSE]

TypeOK ==
  /\ ctx \in [Task -> Name]
  /\ job \in [Task -> Job]
  /\ report \in [Task -> Report]
  /\ calls \in 0..MaxCalls
  /\ seen \in [Task -> Seen]

Init ==
  /\ ctx = [t \in Task |-> NoAlias]
  /\ job = [t \in Task |-> IdleJob]
  /\ report = [t \in Task |-> NoReport]
  /\ calls = 0
  /\ seen = [t \in Task |-> NothingSeen]

Active(t) == job[t].pc # "idle"

\* Mutant of WithContext: one variable for all calls.
WithContextShared(t, name) == [u \in Task |-> name]

\* Every call runs in a context of its own.
WithContext(t, name) == [ctx EXCEPT ![t] = name]

Goto(t, j) == job' = [job EXCEPT ![t] = j] /\ UNCHANGED <<ctx, report>>

\* The call ends, one way or the other: the wrapper resets the context.
End(t, r) ==
  /\ ctx' = WithContext(t, NoAlias)
  /\ job' = [job EXCEPT ![t] = IdleJob]
  /\ report' = [report EXCEPT ![t] = r]

\* A client is made for the alias of the context.
Opened(j, name) ==
  [j EXCEPT !.pc = "auth", !.client = @ + 1, !.hosts = Candidates(name), !.polls = 0,
            !.left = 0]

NameOf(j, leg) == IF leg.router = NoAlias THEN j.inner ELSE leg.router

\* The next leg sets its alias and makes its first client, in one step: nothing
\* is awaited in between.  Legs that swallow exceptions are passed over when
\* their router is not known.
NextLeg(t, j) ==
  LET Runs(k) == ~j.legs[k].soft \/ Resolved(NameOf(j, j.legs[k])) # {}
      next == {k \in 1..Len(j.legs) : Runs(k) /\ \A i \in 1..(k - 1) : ~Runs(i)} IN
  \/ /\ next = {}
     /\ End(t, [ok |-> TRUE, reached |-> j.reached, got |-> j.got])
  \/ \E k \in next :
       LET leg == j.legs[k]
           name == NameOf(j, leg) IN
       IF Resolved(name) = {} THEN End(t, NoReport)
       ELSE /\ ctx' = WithContext(t, name)
            /\ job' = [job EXCEPT ![t] =
                 Opened([j EXCEPT !.named = name, !.opens = leg.opens,
                                  !.legs = SubSeq(@, k, Len(@))], name)]
            /\ UNCHANGED report

\* An exception in the running leg.
LegFails(t) ==
  IF Head(job[t].legs).soft THEN NextLeg(t, [job[t] EXCEPT !.legs = Tail(@)])
  ELSE End(t, NoReport)

\* The exchange is over: the leg makes its next client, under the alias that the
\* context holds now, or ends.
ClientDone(t, j) ==
  IF j.opens = 1 THEN NextLeg(t, [j EXCEPT !.legs = Tail(@)])
  ELSE IF Resolved(ctx[t]) = {} THEN LegFails(t)
  ELSE Goto(t, Opened([j EXCEPT !.opens = @ - 1], ctx[t]))

Start(t) ==
  /\ ~Active(t)
  /\ calls < MaxCalls
  /\ calls' = calls + 1
  /\ \E c \in Calls[t] : NextLeg(t, [IdleJob EXCEPT !.legs = c.legs, !.inner = c.router])
  /\ seen' = [seen EXCEPT ![t] = NothingSeen]

\* What happened to the current client is forgotten when the next one is made.
Sees(t, s) ==
  /\ UNCHANGED calls
  /\ seen' = [seen EXCEPT ![t] =
       IF job'[t].client > job[t].client
       THEN [s EXCEPT !.posts = 0, !.let = {}, !.forbade = FALSE] ELSE s]

-----------------------------------------------------------------------------
(* __aenter__ and _auth: the hosts of a router. *)

\* The login at a host failed: the next host, unless this one forbade access.
HostFails(t, forbidden) ==
  IF Len(job[t].hosts) > 1 /\ ~forbidden
  THEN Goto(t, [job[t] EXCEPT !.pc = "auth", !.hosts = Tail(@)])
  ELSE LegFails(t)

LetIn(t) ==
  /\ Goto(t, [job[t] EXCEPT !.pc = "post"])
  /\ Sees(t, [seen[t] EXCEPT !.let = @ \cup {Head(job[t].hosts)}])

TurnedAway(t, forbidden) ==
  /\ HostFails(t, forbidden)
  /\ Sees(t, [seen[t] EXCEPT !.forbade = @ \/ forbidden])

\* GET /auth: a session already there, a challenge, 403 without a challenge, or
\* no answer that can be used.
Auth(t) ==
  /\ job[t].pc = "auth"
  /\ \/ "known" \in Answers /\ LetIn(t)
     \/ Goto(t, [job[t] EXCEPT !.pc = "login"]) /\ Sees(t, seen[t])
     \/ "forbidden" \in Answers /\ TurnedAway(t, TRUE)
     \/ "fails" \in Answers /\ TurnedAway(t, FALSE)

\* POST /auth with the digest of the challenge.
Login(t) ==
  /\ job[t].pc = "login"
  /\ \/ LetIn(t)
     \/ "forbidden" \in Answers /\ TurnedAway(t, TRUE)
     \/ {"fails", "denied"} \cap Answers # {} /\ TurnedAway(t, FALSE)

-----------------------------------------------------------------------------
(* rci and rci_continued. *)

\* Mutant of ExchangeFails: the payload is tried at the next host.
ExchangeFailsOver(t) ==
  IF Len(job[t].hosts) > 1 THEN Goto(t, [job[t] EXCEPT !.pc = "auth", !.hosts = Tail(@)])
  ELSE LegFails(t)

\* No answer, or an error: nothing is tried again.
ExchangeFails(t) == LegFails(t)

\* Mutant of Collected: the chunk that ends the polling is forgotten.
CollectedWhileContinued(n, more) == IF more THEN n + 1 ELSE n

Collected(n, more) == n + 1

\* The polling goes on up to max_polls and the deadline.
GoesOn(j) == j.polls < MaxPolls /\ j.left > 0

\* The statistics of a ping are in the last chunk; without them it is not ok.
Pong(more, pong) == pong /\ ~more

\* A chunk of messages, with {"continued": true} while there is more to come.
Chunk(t, j, s) ==
  \E more, pong \in BOOLEAN :
    LET k == [j EXCEPT !.got = Collected(@, more), !.reached = @ \/ Pong(more, pong)] IN
    /\ IF more /\ GoesOn(k) THEN Goto(t, [k EXCEPT !.pc = "pause"]) ELSE ClientDone(t, k)
    /\ Sees(t, [s EXCEPT !.sent = @ + 1, !.pong = @ \/ (pong /\ ~more)])

Posted(s) == [s EXCEPT !.total = @ + 1, !.posts = @ + 1]

\* The payload is posted, once.
Post(t) ==
  LET j == job[t]
      s == Posted(seen[t]) IN
  /\ j.pc = "post"
  /\ \/ IF Head(j.legs).ping
        THEN Chunk(t, [j EXCEPT !.left = MaxTime, !.got = 0], [s EXCEPT !.sent = 0])
        ELSE ClientDone(t, j) /\ Sees(t, s)
     \/ "lost" \in Answers /\ ExchangeFails(t) /\ Sees(t, s)
     \/ "fails" \in Answers /\ ExchangeFails(t) /\ Sees(t, seen[t])

\* Mutant of Pause: polls are not counted and the time is not looked at.
PauseUncounted(t) ==
  /\ job[t].pc = "pause"
  /\ Goto(t, [job[t] EXCEPT !.pc = "poll", !.got = 0])
  /\ Sees(t, [seen[t] EXCEPT !.sent = 0])

\* A sleep; a poll may take longer than its interval.
Pause(t) ==
  /\ job[t].pc = "pause"
  /\ \E left \in {k \in 0..MaxTime : k < job[t].left \/ k = 0} :
       Goto(t, [job[t] EXCEPT !.pc = "poll", !.polls = @ + 1, !.left = left])
  /\ Sees(t, seen[t])

\* {"continue": true}, on the connection of the payload.
Poll(t) ==
  /\ job[t].pc = "poll"
  /\ \/ Chunk(t, job[t], seen[t])
     \/ {"fails", "lost"} \cap Answers # {} /\ LegFails(t) /\ Sees(t, seen[t])

-----------------------------------------------------------------------------
Step(t) == Auth(t) \/ Login(t) \/ Post(t) \/ Pause(t) \/ Poll(t)

Next == \E t \in Task : Start(t) \/ Step(t)

Spec == Init /\ [][Next]_vars

\* httpx gives every request a timeout, and a sleep ends.
FairSpec == Spec /\ \A t \in Task : WF_vars(Step(t))

-----------------------------------------------------------------------------
(* Properties. *)

Delivers(t) == seen'[t].total > seen[t].total

\* A payload reaches a host only when that host is one of the router that the
\* running leg names, whatever other calls do meanwhile and however many
\* clients the leg has made before.
OnlyNamedRouter ==
  [][\A t \in Task :
       Delivers(t) =>
         \E a \in Resolved(job[t].named) : Contains(Hosts[a], Head(job[t].hosts))]_vars

\* A payload is obeyed at most once: after a failed exchange no other host is
\* tried.
PostedOnce == [][\A t \in Task : Delivers(t) => seen[t].posts = 0]_vars

\* A payload reaches only a host that let this very client in, and never after a
\* host of the router has forbidden access.
OnlyAfterLogin ==
  [][\A t \in Task :
       Delivers(t) => Head(job[t].hosts) \in seen[t].let /\ ~seen[t].forbade]_vars

\* Between calls no alias is left in a context, however the last call ended.
ContextRestored == \A t \in Task : ~Active(t) => ctx[t] = NoAlias

\* What rci_continued returns are all the chunks the router answered with, and a
\* verdict "ok" rests on a ping that the router saw answered.
NothingDropped ==
  \A t \in Task :
    ~Active(t) /\ report[t].ok =>
      report[t].got = seen[t].sent /\ (report[t].reached => seen[t].pong)

\* The types, the contexts between calls, and what polling collected.
ClientInv == TypeOK /\ ContextRestored /\ NothingDropped

\* A payload is obeyed once, by a host that let this client in.
ObeyedOnce == PostedOnce /\ OnlyAfterLogin

\* Every call ends, also when the router always has more to come.
CallsEnd == \A t \in Task : Active(t) ~> ~Active(t)
=============================================================================
