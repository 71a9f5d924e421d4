---------------------------- MODULE Capture_proofs ---------------------------
(***************************************************************************)
(* Proofs about Capture for any tasks, interfaces, components, calls,      *)
(* limits, faults and bounds.                                              *)
(***************************************************************************)
EXTENDS Capture, TLAPS

-----------------------------------------------------------------------------
(* The inductive invariant. *)

\* Which phases a tool goes through, and which tools a call runs.
Ordered(j) ==
  /\ j.tool = "start" => j.pc \in {"version", "load", "create", "tune", "filter", "enable",
                                   "poll", "sleep", "autostop", "check"}
  /\ j.tool = "stop" => j.pc \in {"version", "disable", "check"}
  /\ j.tool = "download" => j.pc \in {"version", "look", "fetch"}
  /\ j.tool = "delete" => j.pc \in {"version", "drop", "gone"}
  /\ j.tool \in {"status", "list"} =>
       j.pc \in {"version", "probe", "scan", "each", "fallback", "load"}
  /\ j.tool = "ensure" => j.pc \in {"version", "queue", "commit", "recheck"}
  /\ j.tool \in {"install", "remove"} => j.pc \in {"queue", "commit"}
  /\ j.tool = "components" => j.pc \in {"version", "catalog"}
  /\ CASE j.call.op = "summary" -> j.tool \in {"start", "stop", "download", "delete"}
       [] j.call.op = "ensure" -> j.tool \in {"ensure", "status"}
       [] OTHER -> j.tool = j.call.op
  /\ j.cleanup => j.call.op = "summary" /\ j.tool \in {"stop", "delete"}

\* What there is now has been seen, ...
Watched(cs, inst, sel, s) ==
  /\ DOMAIN cs \subseteq s.there
  /\ On(cs) \subseteq s.ran
  /\ Differing(inst, sel) \subseteq s.due

\* ... and so has what the call has found.
Found(inst, j, s) ==
  /\ j.items \cup j.found \subseteq s.there
  /\ j.running \subseteq s.ran
  /\ j.pc = "catalog" => Differing(j.comps, inst) \subseteq s.due

\* A start has not come to enable its capture yet.
Preparing(j) ==
  j.tool = "start" /\ j.pc \in {"version", "load", "create", "tune", "filter", "enable"}

\* A summary's capture: off until the summary enables it, and then its own.
Ours(cs, j) ==
  LET i == j.call.iface IN
  /\ j.got \subseteq {j.id}
  /\ Preparing(j) => i \notin On(cs)
  /\ ~Preparing(j) /\ i \in DOMAIN cs => cs[i].filter = j.id /\ cs[i].under \subseteq {j.id}

\* What a call knows of its capture while nothing else touches the captures.
Alone(cs, j, s) ==
  LET i == j.call.iface IN
  /\ j.pc = "enable" /\ i \in DOMAIN cs => cs[i].filter = j.id
  /\ j.pc = "gone" => i \notin DOMAIN cs
  /\ j.pc = "fetch" => i \in DOMAIN cs /\ cs[i].file
  /\ j.tool = "start" /\ j.pc = "check" /\ j.call.seconds + j.call.packets > 0 =>
       i \notin On(cs)
  /\ j.cleanup /\ s.faults = 0 => i \notin DOMAIN cs
  /\ j.call.op = "summary" /\ ~j.cleanup /\ ~s.dirty => Ours(cs, j)

\* What an answer may say.
Answered(r, s) ==
  /\ r.op \in {"status", "list"} => r.items \subseteq s.there /\ r.running \subseteq s.ran
  /\ r.pending \subseteq s.due
  /\ r.op = "summary" /\ r.ok /\ ~s.raced /\ ~s.dirty => r.got \subseteq {r.id}

Fits(cs, inst, sel, j, s) ==
  /\ Ordered(j)
  /\ Watched(cs, inst, sel, s)
  /\ Found(inst, j, s)
  /\ ~s.raced => Alone(cs, j, s)

Good(cs, inst, sel, j, r, s) ==
  IF j.pc = "idle" THEN Answered(r, s) ELSE r = NoReport /\ Fits(cs, inst, sel, j, s)

\* Without the component there are no captures.
NeedsMonitor(cs, inst) == Monitor \notin inst => DOMAIN cs = {}

Inv ==
  /\ TypeOK
  /\ NeedsMonitor(caps, installed)
  /\ \A t \in Task : Good(caps, installed, selected, job[t], report[t], seen[t])

-----------------------------------------------------------------------------
(* Types. *)

LEMMA CapsFacts ==
  ASSUME NEW f \in Caps
  PROVE  /\ DOMAIN f \subseteq Iface
         /\ f \in [DOMAIN f -> Cap]
         /\ On(f) \subseteq DOMAIN f
BY DEF Caps, On

LEMMA NoCaps == [i \in {} |-> NewCap] \in Caps /\ DOMAIN [i \in {} |-> NewCap] = {}
<1>1. [i \in {} |-> NewCap] \in [{} -> Cap] /\ {} \in SUBSET Iface
  OBVIOUS
<1>2. QED
  BY <1>1 DEF Caps

LEMMA IdleTypes ==
  /\ IdleJob \in Job /\ IdleJob.pc = "idle"
  /\ NoReport \in Report /\ NothingSeen \in Seen
  /\ \A op \in Ops, id \in Id :
       [NoReport EXCEPT !.op = op, !.id = id] \in Report
<1>1. /\ 0 \in 0..MaxSeconds /\ 0 \in 0..MaxFrames /\ 0 \in 0..MaxFaults /\ 1 \in Id
      /\ Monitor \in Component /\ (CHOOSE i \in Iface : TRUE) \in Iface
      /\ "stop" \in Ops /\ "stop" \in Tools /\ "idle" \in Phases
  BY CaptureAssumption
     DEF Id, Ops, Tools, CaptureOps, ComponentOps, Phases, Reads, Commands, CompCommands
<1>2. AnyCall \in Call
  BY <1>1 DEF AnyCall, Call
<1>3. IdleJob \in Job /\ IdleJob.pc = "idle"
  BY <1>1, <1>2 DEF IdleJob, Job
<1>4. NoReport \in Report /\ NothingSeen \in Seen
  BY <1>1 DEF NoReport, Report, NothingSeen, Seen
<1>5. ASSUME NEW op \in Ops, NEW id \in Id
      PROVE  [NoReport EXCEPT !.op = op, !.id = id] \in Report
  BY <1>1 DEF NoReport, Report
<1>6. QED
  BY <1>3, <1>4, <1>5

\* The job in the phase in which tool begins.
LEMMA EnterFacts ==
  ASSUME NEW j \in Job, NEW tool \in Tools
  PROVE  /\ Enter(j, tool) \in Job
         /\ Enter(j, tool).tool = tool
         /\ Enter(j, tool).pc = IF tool \in {"install", "remove"} THEN "queue" ELSE "version"
         /\ Enter(j, tool).call = j.call /\ Enter(j, tool).id = j.id
         /\ Enter(j, tool).cleanup = j.cleanup
         /\ Enter(j, tool).items = j.items /\ Enter(j, tool).found = j.found
         /\ Enter(j, tool).running = j.running /\ Enter(j, tool).got = j.got
<1>1. "queue" \in Phases /\ "version" \in Phases
  BY DEF Phases, Reads, CompCommands
<1>2. QED
  BY <1>1 DEF Enter, Job

-----------------------------------------------------------------------------
(* How a step of one task leaves the others. *)

\* Task t makes n failing requests.
Moves(t, n) ==
  /\ Active(t)
  /\ seen[t].faults + n <= MaxFaults
  /\ Observe(t, n)
  /\ UNCHANGED <<installed, calls>>
  /\ selected' \subseteq Component
  /\ committing' \in BOOLEAN
  /\ caps' \in Caps
  /\ NeedsMonitor(caps', installed)

LEMMA ObserveFacts ==
  ASSUME Inv, NEW t \in Task, NEW n \in {0, 1}, Moves(t, n)
  PROVE  /\ seen' \in [Task -> Seen]
         /\ seen'[t].faults = seen[t].faults + n
         /\ seen'[t].raced = seen[t].raced /\ seen'[t].dirty = seen[t].dirty
         /\ seen[t].there \subseteq seen'[t].there
         /\ seen[t].ran \subseteq seen'[t].ran
         /\ seen[t].due \subseteq seen'[t].due
         /\ Watched(caps', installed', selected', seen'[t])
         /\ \A u \in Task \ {t} :
              IF Active(u)
              THEN /\ seen'[u].faults = seen[u].faults /\ seen'[u].dirty = seen[u].dirty
                   /\ ~seen'[u].raced => ~seen[u].raced /\ caps' = caps
                   /\ seen[u].there \subseteq seen'[u].there
                   /\ seen[u].ran \subseteq seen'[u].ran
                   /\ seen[u].due \subseteq seen'[u].due
                   /\ Watched(caps', installed', selected', seen'[u])
              ELSE seen'[u] = seen[u]
<1> DEFINE new(u) ==
      [seen[u] EXCEPT
            !.faults = @ + (IF u = t THEN n ELSE 0),
            !.raced = @ \/ (u # t /\ (caps' # caps \/ installed' # installed)),
            !.there = @ \cup DOMAIN caps', !.ran = @ \cup On(caps'),
            !.had = @ \cup installed', !.due = @ \cup Differing(installed', selected')]
<1>1. seen' = [u \in Task |-> IF ~Active(u) THEN seen[u] ELSE new(u)]
  BY DEF Moves, Observe
<1>2. \A u \in Task : seen[u] \in Seen
  BY DEF Inv, TypeOK
<1>3. /\ DOMAIN caps' \subseteq Iface /\ On(caps') \subseteq Iface
      /\ installed' \subseteq Component
      /\ Differing(installed', selected') \subseteq Component
  BY CapsFacts DEF Moves, Inv, TypeOK, Differing
<1>4. ASSUME NEW u \in Task
      PROVE  /\ new(u).faults = IF u = t THEN seen[u].faults + n ELSE seen[u].faults
             /\ new(u).raced = (seen[u].raced \/ (u # t /\ (caps' # caps \/ installed' # installed)))
             /\ new(u).dirty = seen[u].dirty
             /\ new(u).there = seen[u].there \cup DOMAIN caps'
             /\ new(u).ran = seen[u].ran \cup On(caps')
             /\ new(u).due = seen[u].due \cup Differing(installed', selected')
             /\ new(u) \in Seen
  <2>1. seen[u].faults \in 0..MaxFaults
    BY <1>2 DEF Seen
  <2>2. seen[u].faults + (IF u = t THEN n ELSE 0) = IF u = t THEN seen[u].faults + n ELSE seen[u].faults
    BY <2>1
  <2>3. seen[u].faults + (IF u = t THEN n ELSE 0) \in 0..MaxFaults
    BY <2>1, <2>2, CaptureAssumption DEF Moves
  <2>4. (seen[u].raced \/ (u # t /\ (caps' # caps \/ installed' # installed))) \in BOOLEAN
    BY <1>2 DEF Seen
  <2>5. new(u) \in Seen
    BY <1>2, <1>3, <2>3, <2>4 DEF Seen
  <2>6. QED
    BY <1>2, <2>2, <2>5 DEF Seen
<1> HIDE DEF new
<1>5. seen' \in [Task -> Seen]
  BY <1>1, <1>2, <1>4
<1>6. seen'[t] = new(t)
  BY <1>1 DEF Moves
<1>7. \A u \in Task : Watched(caps', installed', selected', new(u))
  BY <1>4 DEF Watched
<1>8. ASSUME NEW u \in Task \ {t}, Active(u)
      PROVE  /\ seen'[u].faults = seen[u].faults /\ seen'[u].dirty = seen[u].dirty
             /\ ~seen'[u].raced => ~seen[u].raced /\ caps' = caps
             /\ seen[u].there \subseteq seen'[u].there
             /\ seen[u].ran \subseteq seen'[u].ran
             /\ seen[u].due \subseteq seen'[u].due
             /\ Watched(caps', installed', selected', seen'[u])
  BY <1>1, <1>4, <1>7, <1>8
<1>9. ASSUME NEW u \in Task \ {t}, ~Active(u)
      PROVE  seen'[u] = seen[u]
  BY <1>1, <1>9
<1>10. /\ new(t).faults = seen[t].faults + n
       /\ new(t).raced = seen[t].raced /\ new(t).dirty = seen[t].dirty
       /\ seen[t].there \subseteq new(t).there
       /\ seen[t].ran \subseteq new(t).ran
       /\ seen[t].due \subseteq new(t).due
       /\ Watched(caps', installed', selected', new(t))
  <2>1. seen[t].raced \in BOOLEAN
    BY <1>2 DEF Seen
  <2>2. QED
    BY <1>4, <1>7, <2>1
<1>11. \A u \in Task \ {t} :
         IF Active(u)
         THEN /\ seen'[u].faults = seen[u].faults /\ seen'[u].dirty = seen[u].dirty
              /\ ~seen'[u].raced => ~seen[u].raced /\ caps' = caps
              /\ seen[u].there \subseteq seen'[u].there
              /\ seen[u].ran \subseteq seen'[u].ran
              /\ seen[u].due \subseteq seen'[u].due
              /\ Watched(caps', installed', selected', seen'[u])
         ELSE seen'[u] = seen[u]
  BY <1>8, <1>9
<1>12. QED
  BY <1>5, <1>6, <1>10, <1>11

\* The invariant outlives a step of t if t's own part of it does.
LEMMA StepInv ==
  ASSUME Inv, NEW t \in Task, NEW n \in {0, 1}, Moves(t, n),
         NEW k \in Job, NEW r \in Report,
         job' = [job EXCEPT ![t] = k], report' = [report EXCEPT ![t] = r],
         Good(caps', installed', selected', k, r, seen'[t])
  PROVE  Inv'
<1>1. seen' \in [Task -> Seen]
  BY ObserveFacts
<1>2. /\ job \in [Task -> Job] /\ report \in [Task -> Report]
      /\ job'[t] = k /\ report'[t] = r
      /\ \A u \in Task \ {t} : job'[u] = job[u] /\ report'[u] = report[u]
  BY DEF Inv, TypeOK
<1>3. TypeOK'
  <2>1. job' \in [Task -> Job] /\ report' \in [Task -> Report]
    BY <1>2
  <2>2. QED
    BY <1>1, <2>1 DEF Inv, TypeOK, Moves
<1>4. NeedsMonitor(caps, installed)'
  BY DEF Moves
<1>5. ASSUME NEW u \in Task \ {t}
      PROVE  Good(caps', installed', selected', job[u], report[u], seen'[u])
  <2>1. Good(caps, installed, selected, job[u], report[u], seen[u])
    BY DEF Inv
  <2>2. CASE ~Active(u)
    <3>1. seen'[u] = seen[u]
      BY <2>2, ObserveFacts
    <3>2. QED
      BY <2>1, <2>2, <3>1 DEF Good, Active
  <2>3. CASE Active(u)
    <3>1. /\ seen'[u].faults = seen[u].faults /\ seen'[u].dirty = seen[u].dirty
          /\ ~seen'[u].raced => ~seen[u].raced /\ caps' = caps
          /\ seen[u].there \subseteq seen'[u].there
          /\ seen[u].ran \subseteq seen'[u].ran
          /\ seen[u].due \subseteq seen'[u].due
          /\ Watched(caps', installed', selected', seen'[u])
      BY <2>3, ObserveFacts
    <3>2. Fits(caps, installed, selected, job[u], seen[u]) /\ report[u] = NoReport
      BY <2>1, <2>3 DEF Good, Active
    <3>3. Found(installed', job[u], seen'[u])
      BY <3>1, <3>2 DEF Fits, Found, Moves
    <3>4. ~seen'[u].raced => Alone(caps', job[u], seen'[u])
      BY <3>1, <3>2 DEF Fits, Alone
    <3>5. QED
      BY <2>3, <3>1, <3>2, <3>3, <3>4 DEF Good, Active, Fits
  <2>4. QED
    BY <2>2, <2>3
<1>6. \A u \in Task : Good(caps', installed', selected', job'[u], report'[u], seen'[u])
  BY <1>2, <1>5
<1>7. QED
  BY <1>3, <1>4, <1>6 DEF Inv

-----------------------------------------------------------------------------
(* How a call goes on. *)

LEMMA ActiveFacts ==
  ASSUME Inv, NEW t \in Task, Active(t)
  PROVE  /\ job[t] \in Job /\ seen[t] \in Seen /\ report[t] = NoReport
         /\ job[t].call \in Call /\ job[t].call.iface \in Iface /\ job[t].id \in Id
         /\ caps \in Caps /\ installed \subseteq Component
         /\ Fits(caps, installed, selected, job[t], seen[t])
<1>1. job[t] \in Job /\ seen[t] \in Seen /\ caps \in Caps /\ installed \subseteq Component
  BY DEF Inv, TypeOK
<1>2. job[t].call \in Call /\ job[t].call.iface \in Iface /\ job[t].id \in Id
  BY <1>1 DEF Job, Call
<1>3. report[t] = NoReport /\ Fits(caps, installed, selected, job[t], seen[t])
  BY DEF Inv, Good, Active
<1>4. QED
  BY <1>1, <1>2, <1>3

\* What has to be true of a step of t that ends its call: a summary leaves no
\* capture behind, and a start with a limit has stopped its own.
Ends(t) ==
  LET c == job[t].call IN
  job'[t].pc = "idle" /\ ~seen'[t].raced =>
    /\ c.op = "summary" /\ seen'[t].faults <= 1 => c.iface \notin DOMAIN caps'
    /\ report'[t].ok /\ c.op = "start" /\ c.seconds + c.packets > 0 => c.iface \notin On(caps')

\* Both of what a step of t has to keep.
Fine(t) == Inv' /\ Ends(t)

LEMMA GotoFine ==
  ASSUME Inv, NEW t \in Task, NEW n \in {0, 1}, Moves(t, n),
         NEW k \in Job, k.pc # "idle", Goto(t, k),
         Fits(caps', installed', selected', k, seen'[t])
  PROVE  Fine(t)
<1>1. report[t] = NoReport /\ report \in [Task -> Report] /\ job \in [Task -> Job]
  BY ActiveFacts DEF Moves, Inv, TypeOK
<1>2. job' = [job EXCEPT ![t] = k] /\ report' = [report EXCEPT ![t] = NoReport]
  BY <1>1 DEF Goto
<1>3. Good(caps', installed', selected', k, NoReport, seen'[t])
  BY DEF Good
<1>4. Inv'
  BY <1>2, <1>3, StepInv, IdleTypes
<1>5. job'[t] = k
  BY <1>1, <1>2
<1>6. QED
  BY <1>4, <1>5 DEF Fine, Ends

LEMMA AnswerFine ==
  ASSUME Inv, NEW t \in Task, NEW n \in {0, 1}, Moves(t, n),
         NEW r \in Report, Answer(t, r), Answered(r, seen'[t]), Ends(t)
  PROVE  Fine(t)
<1>1. Good(caps', installed', selected', IdleJob, r, seen'[t])
  BY IdleTypes DEF Good
<1>2. QED
  BY <1>1, StepInv, IdleTypes DEF Answer, Fine

\* The part of a job that only the tools of a summary look at.
SameCall(k, j) ==
  k.call = j.call /\ k.id = j.id /\ k.tool = j.tool /\ k.cleanup = j.cleanup

\* A tool raises: because a request of it failed, or its capture is not there.
LEMMA FailsFine ==
  ASSUME Inv, NEW t \in Task, NEW n \in {0, 1}, Moves(t, n), ToolFails(t),
         ~seen'[t].raced => n = 1 \/ job[t].call.iface \notin DOMAIN caps',
         job[t].tool = "delete" => DOMAIN caps' \subseteq DOMAIN caps
  PROVE  Fine(t)
<1> DEFINE j == job[t]
           i == job[t].call.iface
<1>1. /\ j \in Job /\ seen[t] \in Seen /\ Ordered(j)
      /\ Found(installed, j, seen[t])
      /\ ~seen[t].raced => Alone(caps, j, seen[t])
      /\ j.call.op \in Ops /\ j.id \in Id
  BY ActiveFacts DEF Moves, Fits, Job, Call
<1>2. /\ seen'[t].faults = seen[t].faults + n /\ seen'[t].raced = seen[t].raced
      /\ seen[t].there \subseteq seen'[t].there /\ seen[t].ran \subseteq seen'[t].ran
      /\ Watched(caps', installed', selected', seen'[t])
  BY ObserveFacts
<1>3. seen[t].faults \in Nat
  BY <1>1, CaptureAssumption DEF Seen
<1>4. ASSUME NEW k \in Job, Goto(t, k), k.call.op = "summary",
             k.call = j.call, k.cleanup,
             k.items = j.items, k.found = j.found, k.running = j.running,
             k.tool \in {"stop", "delete"}, k.pc = "version"
      PROVE  Fine(t)
  <2>1. Ordered(k)
    BY <1>4 DEF Ordered
  <2>2. Found(installed', k, seen'[t])
    BY <1>1, <1>2, <1>4 DEF Found
  <2>3. ~seen'[t].raced => Alone(caps', k, seen'[t])
    BY <1>2, <1>3, <1>4 DEF Alone
  <2>4. QED
    BY <1>2, <1>4, <2>1, <2>2, <2>3, GotoFine DEF Fits
<1>5. CASE j.call.op = "summary" /\ ~j.cleanup
  <2> DEFINE k == [j EXCEPT !.cleanup = TRUE]
  <2>1. /\ k \in Job /\ k.call = j.call /\ k.cleanup
        /\ k.items = j.items /\ k.found = j.found /\ k.running = j.running
    BY <1>1 DEF Job
  <2>2. Goto(t, Enter(k, "stop"))
    BY <1>5 DEF ToolFails
  <2> HIDE DEF k
  <2>3. "stop" \in Tools
    BY DEF Tools, Ops, CaptureOps
  <2>4. QED
    BY <1>4, <1>5, <2>1, <2>2, <2>3, EnterFacts
<1>6. CASE j.call.op = "summary" /\ j.cleanup /\ j.tool = "stop"
  <2>1. Goto(t, Enter(j, "delete"))
    BY <1>6 DEF ToolFails
  <2>2. "delete" \in Tools
    BY DEF Tools, Ops, CaptureOps
  <2>3. QED
    BY <1>1, <1>4, <1>6, <2>1, <2>2, EnterFacts
<1>7. CASE ~(j.call.op = "summary" /\ (~j.cleanup \/ j.tool = "stop"))
  <2> DEFINE r == [NoReport EXCEPT !.op = j.call.op, !.id = j.id]
  <2>1. Answer(t, r)
    BY <1>7 DEF ToolFails, Raise
  <2>2. r \in Report /\ ~r.ok /\ r.items = {} /\ r.running = {} /\ r.pending = {}
    BY <1>1, IdleTypes DEF NoReport
  <2> HIDE DEF r
  <2>3. Answered(r, seen'[t])
    BY <2>2 DEF Answered
  <2>4. report'[t] = r
    BY <2>1 DEF Answer, Inv, TypeOK
  <2>5. ASSUME j.call.op = "summary", ~seen'[t].raced, seen'[t].faults <= 1
        PROVE  i \notin DOMAIN caps'
    <3>1. j.cleanup /\ j.tool = "delete"
      BY <1>1, <1>7, <2>5 DEF Ordered
    <3>2. CASE n = 1
      <4>1. seen[t].faults = 0
        BY <1>2, <1>3, <2>5, <3>2
      <4>2. i \notin DOMAIN caps
        BY <1>1, <1>2, <2>5, <3>1, <4>1 DEF Alone
      <4>3. QED
        BY <3>1, <4>2
    <3>3. QED
      BY <2>5, <3>2
  <2>6. Ends(t)
    BY <2>2, <2>4, <2>5 DEF Ends
  <2>7. QED
    BY <2>1, <2>2, <2>3, <2>6, AnswerFine
<1>8. QED
  BY <1>5, <1>6, <1>7

\* A tool returns: a summary goes on, every other call answers.
LEMMA ReturnsFine ==
  ASSUME Inv, NEW t \in Task, NEW n \in {0, 1}, Moves(t, n), caps' = caps,
         NEW k \in Job, NEW hit \in BOOLEAN, ToolReturns(t, k, hit),
         SameCall(k, job[t]),
         k.items \cup k.found \subseteq seen'[t].there,
         k.running \subseteq seen'[t].ran,
         k.tool = "start" => job[t].pc = "check",
         ~seen'[t].raced =>
           /\ k.tool = "delete" => k.call.iface \notin DOMAIN caps
           /\ k.call.op = "summary" /\ ~k.cleanup /\ ~seen'[t].dirty => k.got \subseteq {k.id}
  PROVE  Fine(t)
<1> DEFINE j == job[t]
           i == job[t].call.iface
<1>1. /\ j \in Job /\ seen[t] \in Seen /\ Ordered(j)
      /\ ~seen[t].raced => Alone(caps, j, seen[t])
      /\ k.call.op \in Ops /\ k.id \in Id /\ k.call = j.call /\ k.id = j.id
      /\ k.tool = j.tool /\ k.cleanup = j.cleanup
  BY ActiveFacts DEF Moves, Fits, Job, Call, SameCall
<1>2. /\ seen'[t].faults = seen[t].faults + n /\ seen'[t].raced = seen[t].raced
      /\ seen'[t].dirty = seen[t].dirty
      /\ Watched(caps', installed', selected', seen'[t])
  BY ObserveFacts
<1>3. seen[t].faults \in Nat
  BY <1>1, CaptureAssumption DEF Seen
\* the next tool of a summary
<1>4. ASSUME NEW tool \in {"stop", "download", "delete"}, Goto(t, Enter(k, tool)),
             k.call.op = "summary", k.cleanup => tool # "download"
      PROVE  Fine(t)
  <2> DEFINE e == Enter(k, tool)
  <2>1. tool \in Tools
    BY DEF Tools, Ops, CaptureOps
  <2>2. /\ e \in Job /\ e.tool = tool /\ e.pc = "version" /\ e.call = k.call
        /\ e.id = k.id /\ e.cleanup = k.cleanup /\ e.items = k.items
        /\ e.found = k.found /\ e.running = k.running /\ e.got = k.got
    BY <2>1, EnterFacts
  <2> HIDE DEF e
  <2>3. Ordered(e)
    BY <1>4, <2>2 DEF Ordered
  <2>4. Found(installed', e, seen'[t])
    BY <2>2 DEF Found
  <2>5. ASSUME ~seen'[t].raced
        PROVE  Alone(caps', e, seen'[t])
    <3>1. Alone(caps, j, seen[t])
      BY <1>1, <1>2, <2>5
    <3>2. e.cleanup /\ seen'[t].faults = 0 => i \notin DOMAIN caps'
      BY <1>1, <1>2, <1>3, <2>2, <3>1 DEF Alone
    <3>3. ASSUME ~e.cleanup, ~seen'[t].dirty
          PROVE  Ours(caps', e)
      <4>1. Ours(caps, j) /\ ~Preparing(j)
        BY <1>1, <1>2, <1>4, <2>2, <3>1, <3>3 DEF Alone, Preparing
      <4>2. e.got \subseteq {e.id}
        BY <1>4, <2>2, <2>5, <3>3
      <4>3. QED
        BY <1>1, <2>2, <4>1, <4>2 DEF Ours, Preparing
    <3>4. QED
      BY <1>1, <2>2, <3>2, <3>3 DEF Alone
  <2>6. QED
    BY <1>2, <1>4, <2>2, <2>3, <2>4, <2>5, GotoFine DEF Fits, e
\* the end of the call
<1>5. ASSUME NEW r \in Report, Answer(t, r), k.call.op = "summary" => k.tool = "delete",
             ~r.ok \/ ~k.cleanup, r.op = k.call.op, r.id = k.id,
             r.items \subseteq k.items \cup k.found, r.running \subseteq k.running,
             r.pending = {}, r.got \subseteq k.got
      PROVE  Fine(t)
  <2>1. Answered(r, seen'[t])
    BY <1>5 DEF Answered
  <2>2. ASSUME ~seen'[t].raced
        PROVE  /\ k.call.op = "summary" => i \notin DOMAIN caps'
               /\ k.call.op = "start" /\ k.call.seconds + k.call.packets > 0 => i \notin On(caps')
    <3>1. Alone(caps, j, seen[t])
      BY <1>1, <1>2, <2>2
    <3>2. k.call.op = "start" => j.tool = "start" /\ j.pc = "check"
      BY <1>1 DEF Ordered
    <3>3. QED
      BY <1>1, <1>5, <2>2, <3>1, <3>2 DEF Alone
  <2>3. Ends(t)
    BY <1>1, <2>2 DEF Ends
  <2>4. QED
    BY <1>5, <2>1, <2>3, AnswerFine
<1>6. CASE k.call.op = "summary" /\ k.tool = "start"
  <2>1. Goto(t, Enter(k, "stop")) \/ Goto(t, Enter(k, "download"))
    BY <1>6 DEF ToolReturns
  <2>2. QED
    BY <1>1, <1>4, <1>6, <2>1 DEF Ordered
<1>7. CASE k.call.op = "summary" /\ k.tool = "stop"
  <2>1. Goto(t, Enter(k, IF k.cleanup THEN "delete" ELSE "download"))
    BY <1>7 DEF ToolReturns
  <2>2. QED
    BY <1>4, <1>7, <2>1
<1>8. CASE k.call.op = "summary" /\ k.tool = "download"
  <2>1. Goto(t, Enter(k, "delete"))
    BY <1>8 DEF ToolReturns
  <2>2. QED
    BY <1>4, <1>8, <2>1
<1>9. CASE k.call.op = "summary" /\ k.tool = "delete" /\ k.cleanup
  <2> DEFINE r == [NoReport EXCEPT !.op = j.call.op, !.id = j.id]
  <2>1. Answer(t, r)
    BY <1>9 DEF ToolReturns, Raise
  <2>2. /\ r \in Report /\ ~r.ok /\ r.op = k.call.op /\ r.id = k.id /\ r.items = {}
        /\ r.running = {} /\ r.pending = {} /\ r.got = {}
    BY <1>1, IdleTypes DEF NoReport
  <2> HIDE DEF r
  <2>3. QED
    BY <1>5, <1>9, <2>1, <2>2
<1>10. CASE /\ ~(k.call.op = "summary" /\ k.cleanup)
            /\ k.call.op = "summary" => k.tool \notin {"start", "stop", "download"}
  <2> DEFINE r == [op |-> k.call.op, ok |-> TRUE, id |-> k.id, hit |-> hit,
                   items |-> k.items \cup k.found, running |-> k.running,
                   pending |-> {}, got |-> k.got]
  <2>1. Answer(t, r)
    BY <1>10 DEF ToolReturns
  <2>2. r \in Report
    BY <1>1 DEF Report, Job
  <2>3. k.call.op = "summary" => k.tool = "delete"
    BY <1>1, <1>10 DEF Ordered
  <2>4. ~k.cleanup
    BY <1>1, <1>10 DEF Ordered
  <2>5. QED
    BY <1>5, <2>1, <2>2, <2>3, <2>4
<1>11. QED
  BY <1>1, <1>6, <1>7, <1>8, <1>9, <1>10 DEF Ordered

-----------------------------------------------------------------------------
(* Reads. *)

LEMMA QuietMoves ==
  ASSUME Inv, NEW t \in Task, Active(t), Quiet(t)
  PROVE  Moves(t, 0) /\ caps' = caps /\ installed' = installed /\ selected' = selected
<1>1. seen[t].faults + 0 <= MaxFaults
  BY ActiveFacts, CaptureAssumption DEF Seen
<1>2. QED
  BY <1>1 DEF Quiet, SameRouter, Moves, Inv, TypeOK

\* A read after which the tool goes on.
LEMMA QuietGoto ==
  ASSUME Inv, NEW t \in Task, Active(t), Quiet(t), NEW k \in Job, Goto(t, k),
         k.call = job[t].call, k.id = job[t].id, k.cleanup = job[t].cleanup,
         k.got = job[t].got,
         k.pc \notin {"idle", "enable", "gone", "check"},
         Ordered(k), Preparing(k) <=> Preparing(job[t]),
         k.items \cup k.found \subseteq seen[t].there \cup DOMAIN caps,
         k.running \subseteq seen[t].ran \cup On(caps),
         k.pc = "catalog" => k.comps = installed,
         k.pc = "fetch" => k.call.iface \in DOMAIN caps /\ caps[k.call.iface].file
  PROVE  Fine(t)
<1> DEFINE j == job[t]
<1>1. Moves(t, 0) /\ caps' = caps /\ installed' = installed /\ selected' = selected
  BY QuietMoves
<1>2. /\ seen'[t].faults = seen[t].faults + 0
      /\ seen'[t].raced = seen[t].raced /\ seen'[t].dirty = seen[t].dirty
      /\ seen[t].there \subseteq seen'[t].there /\ seen[t].ran \subseteq seen'[t].ran
      /\ Watched(caps', installed', selected', seen'[t])
  BY <1>1, ObserveFacts
<1>3. seen'[t].faults = seen[t].faults
  BY <1>2, ActiveFacts, CaptureAssumption DEF Seen
<1>4. ~seen[t].raced => Alone(caps, j, seen[t])
  BY ActiveFacts DEF Fits
<1>5. Found(installed', k, seen'[t])
  BY <1>1, <1>2 DEF Found, Watched, Differing
<1>6. ASSUME ~seen'[t].raced
      PROVE  Alone(caps', k, seen'[t])
  BY <1>1, <1>2, <1>3, <1>4, <1>6 DEF Alone, Ours
<1>7. QED
  BY <1>1, <1>2, <1>5, <1>6, GotoFine DEF Fits

\* A read with which the tool is done.
LEMMA QuietReturns ==
  ASSUME Inv, NEW t \in Task, Active(t), Quiet(t), NEW k \in Job, NEW hit \in BOOLEAN,
         ToolReturns(t, k, hit), SameCall(k, job[t]),
         k.items \cup k.found \subseteq seen[t].there \cup DOMAIN caps,
         k.running \subseteq seen[t].ran \cup On(caps),
         k.tool = "start" => job[t].pc = "check",
         ~seen[t].raced =>
           /\ k.tool = "delete" => k.call.iface \notin DOMAIN caps
           /\ k.call.op = "summary" /\ ~k.cleanup /\ ~seen[t].dirty => k.got \subseteq {k.id}
  PROVE  Fine(t)
<1>1. Moves(t, 0) /\ caps' = caps
  BY QuietMoves
<1>2. /\ seen'[t].raced = seen[t].raced /\ seen'[t].dirty = seen[t].dirty
      /\ seen[t].there \subseteq seen'[t].there /\ seen[t].ran \subseteq seen'[t].ran
      /\ Watched(caps', installed', selected', seen'[t])
  BY <1>1, ObserveFacts
<1>3. /\ k.items \cup k.found \subseteq seen'[t].there
      /\ k.running \subseteq seen'[t].ran
  BY <1>1, <1>2 DEF Watched
<1>4. QED
  BY <1>1, <1>2, <1>3, ReturnsFine

\* A read that makes the tool fail, although it was answered.
LEMMA QuietFails ==
  ASSUME Inv, NEW t \in Task, Active(t), Quiet(t), ToolFails(t),
         ~seen[t].raced => job[t].call.iface \notin DOMAIN caps
  PROVE  Fine(t)
<1>1. Moves(t, 0) /\ caps' = caps
  BY QuietMoves
<1>2. seen'[t].raced = seen[t].raced
  BY <1>1, ObserveFacts
<1>3. QED
  BY <1>1, <1>2, FailsFine

\* The fields of a job that moves to another phase.
LEMMA PhaseFacts ==
  ASSUME NEW j \in Job, NEW p \in Phases
  PROVE  LET k == [j EXCEPT !.pc = p] IN
         /\ k \in Job /\ k.pc = p /\ SameCall(k, j) /\ k.comps = j.comps
         /\ k.items = j.items /\ k.found = j.found /\ k.running = j.running
         /\ k.got = j.got
BY DEF Job, SameCall

LEMMA VersionFine ==
  ASSUME Inv, NEW t \in Task, Version(t)
  PROVE  Fine(t)
<1> DEFINE j == [job[t] EXCEPT !.comps = installed]
<1>1. /\ Active(t) /\ job[t] \in Job /\ job[t].pc = "version" /\ Quiet(t)
      /\ Ordered(job[t]) /\ Found(installed, job[t], seen[t])
      /\ NeedsMonitor(caps, installed) /\ job[t].call.op \in Ops /\ job[t].id \in Id
  BY ActiveFacts DEF Active, Version, Fits, Inv, Job, Call
<1>2. /\ j \in Job /\ j.pc = "version" /\ SameCall(j, job[t]) /\ j.comps = installed
      /\ j.items = job[t].items /\ j.found = job[t].found /\ j.running = job[t].running
      /\ j.got = job[t].got
  BY <1>1, ActiveFacts DEF Job, SameCall
<1>3. \/ j.tool = "status" /\ Goto(t, [j EXCEPT !.pc = "probe"])
      \/ j.tool = "components" /\ Goto(t, [j EXCEPT !.pc = "catalog"])
      \/ j.tool = "ensure" /\ Goto(t, Enter(j, "status"))
      \/ j.tool = "ensure" /\ Goto(t, [j EXCEPT !.pc = "queue"])
      \/ j.tool = "list" /\ Goto(t, [j EXCEPT !.pc = "load"])
      \/ j.tool = "list" /\ Answer(t, [NoReport EXCEPT !.op = "list", !.id = j.id])
      \/ j.tool = "start" /\ Goto(t, [j EXCEPT !.pc = "load"])
      \/ j.tool = "stop" /\ Goto(t, [j EXCEPT !.pc = "disable"])
      \/ j.tool = "delete" /\ Goto(t, [j EXCEPT !.pc = "drop"])
      \/ /\ j.tool \notin {"status", "components", "ensure", "list", "start", "stop", "delete"}
         /\ Goto(t, [j EXCEPT !.pc = "look"])
      \/ Monitor \notin installed /\ ToolFails(t)
  BY DEF Version
<1> HIDE DEF j
<1>4. ASSUME NEW p \in {"probe", "catalog", "queue", "load", "disable", "drop", "look"},
             Goto(t, [j EXCEPT !.pc = p]), Ordered([j EXCEPT !.pc = p]),
             p = "load" <=> j.tool = "start" \/ j.tool = "list"
      PROVE  Fine(t)
  <2> DEFINE k == [j EXCEPT !.pc = p]
  <2>1. p \in Phases
    BY DEF Phases, Reads, Commands, CompCommands
  <2>2. /\ k \in Job /\ k.pc = p /\ SameCall(k, j) /\ k.comps = j.comps
        /\ k.items = j.items /\ k.found = j.found /\ k.running = j.running
        /\ k.got = j.got
    BY <1>2, <2>1, PhaseFacts
  <2> HIDE DEF k
  <2>3. Preparing(k) <=> Preparing(job[t])
    BY <1>1, <1>2, <1>4, <2>2 DEF SameCall, Preparing
  <2>4. QED
    BY <1>1, <1>2, <1>4, <2>2, <2>3, QuietGoto DEF SameCall, Found, k
<1>5. CASE j.tool = "ensure" /\ Goto(t, Enter(j, "status"))
  <2> DEFINE k == Enter(j, "status")
  <2>1. /\ k \in Job /\ k.tool = "status" /\ k.pc = "version"
        /\ k.call = j.call /\ k.id = j.id /\ k.cleanup = j.cleanup
        /\ k.items = j.items /\ k.found = j.found /\ k.running = j.running
        /\ k.got = j.got
    BY <1>2, EnterFacts DEF Tools, Ops, ComponentOps
  <2> HIDE DEF k
  <2>2. Ordered(k) /\ ~Preparing(k) /\ ~Preparing(job[t])
    BY <1>1, <1>2, <1>5, <2>1 DEF SameCall, Ordered, Preparing
  <2>3. QED
    BY <1>1, <1>2, <1>5, <2>1, <2>2, QuietGoto DEF SameCall, Found, k
<1>6. CASE j.tool = "list" /\ Answer(t, [NoReport EXCEPT !.op = "list", !.id = j.id])
  <2> DEFINE r == [NoReport EXCEPT !.op = "list", !.id = j.id]
  <2>1. r \in Report /\ ~r.ok /\ r.op = "list" /\ r.items = {} /\ r.running = {} /\ r.pending = {}
    BY <1>1, <1>2, IdleTypes DEF NoReport, Ops, SameCall
  <2> HIDE DEF r
  <2>2. Answer(t, r) /\ Answered(r, seen'[t])
    BY <1>6, <2>1 DEF Answered, r
  <2>3. report'[t] = r
    BY <2>2 DEF Answer, Inv, TypeOK
  <2>4. job[t].call.op # "summary"
    BY <1>1, <1>2, <1>6 DEF Ordered, SameCall
  <2>5. Ends(t)
    BY <2>1, <2>3, <2>4 DEF Ends
  <2>6. QED
    BY <1>1, <2>1, <2>2, <2>5, AnswerFine, QuietMoves
<1>7. CASE Monitor \notin installed /\ ToolFails(t)
  BY <1>1, <1>7, QuietFails DEF NeedsMonitor
<1>8. ASSUME NEW p \in {"probe", "catalog", "queue", "load", "disable", "drop", "look"},
             \/ j.tool = "status" /\ p = "probe"
             \/ j.tool = "components" /\ p = "catalog"
             \/ j.tool = "ensure" /\ p = "queue"
             \/ j.tool \in {"list", "start"} /\ p = "load"
             \/ j.tool = "stop" /\ p = "disable"
             \/ j.tool = "delete" /\ p = "drop"
             \/ j.tool = "download" /\ p = "look"
      PROVE  Ordered([j EXCEPT !.pc = p]) /\ (p = "load" <=> j.tool = "start" \/ j.tool = "list")
  <2> DEFINE k == [j EXCEPT !.pc = p]
  <2>1. p \in Phases
    BY DEF Phases, Reads, Commands, CompCommands
  <2>2. k.pc = p /\ k.tool = job[t].tool /\ k.call = job[t].call /\ k.cleanup = job[t].cleanup
    BY <1>2, <2>1, PhaseFacts DEF SameCall
  <2> HIDE DEF k
  <2>3. Ordered(k)
    BY <1>1, <1>2, <1>8, <2>2 DEF Ordered, SameCall
  <2>4. QED
    BY <1>8, <2>3 DEF k
<1>9. j.tool \notin {"status", "components", "ensure", "list", "start", "stop", "delete"}
        => j.tool = "download"
  BY <1>1, <1>2 DEF SameCall, Ordered, Job, Tools, Ops, CaptureOps, ComponentOps
<1>10. QED
  BY <1>3, <1>4, <1>5, <1>6, <1>7, <1>8, <1>9

LEMMA LoadFine ==
  ASSUME Inv, NEW t \in Task, Load(t)
  PROVE  Fine(t)
<1> DEFINE j == job[t]
<1>1. /\ Active(t) /\ j \in Job /\ j.pc = "load" /\ Quiet(t)
      /\ Ordered(j) /\ Found(installed, j, seen[t]) /\ DOMAIN caps \subseteq Iface
  BY ActiveFacts, CapsFacts DEF Active, Load, Fits
<1>2. ASSUME NEW p \in {"tune", "create"}, j.tool = "start", Goto(t, [j EXCEPT !.pc = p])
      PROVE  Fine(t)
  <2> DEFINE k == [j EXCEPT !.pc = p]
  <2>1. p \in Phases
    BY DEF Phases, Commands
  <2>2. /\ k \in Job /\ k.pc = p /\ SameCall(k, j) /\ k.comps = j.comps
        /\ k.items = j.items /\ k.found = j.found /\ k.running = j.running
        /\ k.got = j.got
    BY <1>1, <2>1, PhaseFacts
  <2> HIDE DEF k
  <2>3. Preparing(k) /\ Preparing(j) /\ Ordered(k)
    BY <1>1, <1>2, <2>2 DEF SameCall, Preparing, Ordered
  <2>4. QED
    BY <1>1, <1>2, <2>2, <2>3, QuietGoto DEF SameCall, Found, k
<1>3. CASE j.tool = "list" /\ Goto(t, [j EXCEPT !.pc = "scan", !.items = Present])
  <2> DEFINE k == [j EXCEPT !.pc = "scan", !.items = Present]
  <2>1. "scan" \in Phases /\ Present \subseteq Iface
    BY <1>1 DEF Phases, Reads, Present
  <2>2. /\ k \in Job /\ k.pc = "scan" /\ SameCall(k, j)
        /\ k.items = DOMAIN caps /\ k.found = j.found /\ k.running = j.running
        /\ k.got = j.got
    BY <1>1, <2>1 DEF Job, SameCall, Present
  <2> HIDE DEF k
  <2>3. ~Preparing(k) /\ ~Preparing(j) /\ Ordered(k)
    BY <1>1, <1>3, <2>2 DEF SameCall, Preparing, Ordered
  <2>4. QED
    BY <1>1, <1>3, <2>2, <2>3, QuietGoto DEF SameCall, Found, k
<1>4. CASE j.tool \notin {"start", "list"} /\ ToolReturns(t, j, Monitor \in j.comps)
  <2>1. j.tool = "status" /\ j.call.op # "summary"
    BY <1>1, <1>4 DEF Ordered, Job, Tools, Ops, CaptureOps, ComponentOps
  <2>2. /\ SameCall(j, j)
        /\ j.items \cup j.found \subseteq seen[t].there \cup DOMAIN caps
        /\ j.running \subseteq seen[t].ran \cup On(caps)
    BY <1>1 DEF SameCall, Found
  <2> DEFINE hit == Monitor \in j.comps
  <2>3. hit \in BOOLEAN /\ ToolReturns(t, j, hit)
    BY <1>4
  <2> HIDE DEF hit
  <2>4. QED
    BY <1>1, <2>1, <2>2, <2>3, QuietReturns
<1>5. QED
  BY <1>2, <1>3, <1>4 DEF Load

\* The watch loop of a start.
LEMMA WatchFine ==
  ASSUME Inv, NEW t \in Task, Poll(t) \/ Sleep(t)
  PROVE  Fine(t)
<1> DEFINE j == job[t]
<1>1. /\ Active(t) /\ j \in Job /\ j.pc \in {"poll", "sleep"} /\ Quiet(t)
      /\ Ordered(j) /\ Found(installed, j, seen[t])
  BY ActiveFacts DEF Active, Poll, Sleep, Fits
<1>2. j.tool = "start"
  BY <1>1 DEF Ordered, Job, Tools, Ops, CaptureOps, ComponentOps
<1>3. ASSUME NEW k \in Job, Goto(t, k), k.pc \in {"poll", "sleep", "autostop"}, SameCall(k, j),
             k.items = j.items, k.found = j.found, k.running = j.running, k.got = j.got
      PROVE  Fine(t)
  <2>1. ~Preparing(k) /\ ~Preparing(j) /\ Ordered(k)
    BY <1>1, <1>2, <1>3 DEF SameCall, Preparing, Ordered
  <2>2. QED
    BY <1>1, <1>3, <2>1, QuietGoto DEF SameCall, Found
<1>4. ASSUME NEW p \in {"autostop", "sleep"}, Goto(t, [j EXCEPT !.pc = p])
      PROVE  Fine(t)
  <2>1. p \in Phases
    BY DEF Phases, Commands
  <2>2. QED
    BY <1>1, <1>3, <1>4, <2>1, PhaseFacts
<1>5. ASSUME NEW n \in 0..MaxSeconds, Goto(t, [j EXCEPT !.pc = "poll", !.left = n])
      PROVE  Fine(t)
  <2> DEFINE k == [j EXCEPT !.pc = "poll", !.left = n]
  <2>1. "poll" \in Phases
    BY DEF Phases, Reads
  <2>2. /\ k \in Job /\ k.pc = "poll" /\ SameCall(k, j)
        /\ k.items = j.items /\ k.found = j.found /\ k.running = j.running
        /\ k.got = j.got
    BY <1>1, <2>1 DEF Job, SameCall
  <2> HIDE DEF k
  <2>3. QED
    BY <1>3, <1>5, <2>2 DEF k
<1>6. QED
  BY <1>4, <1>5 DEF Poll, Sleep

LEMMA CheckFine ==
  ASSUME Inv, NEW t \in Task, Check(t)
  PROVE  Fine(t)
<1> DEFINE j == job[t]
           k == [j EXCEPT !.running = {j.call.iface} \cap On(caps)]
<1>1. /\ Active(t) /\ j \in Job /\ j.pc = "check" /\ Quiet(t) /\ ToolReturns(t, k, TRUE)
      /\ Ordered(j) /\ Found(installed, j, seen[t]) /\ j.call.iface \in Iface
      /\ ~seen[t].raced => Alone(caps, j, seen[t])
  BY ActiveFacts DEF Active, Check, Fits
<1>2. /\ k \in Job /\ SameCall(k, j) /\ k.items = j.items /\ k.found = j.found
      /\ k.running \subseteq On(caps) /\ k.got = j.got
  BY <1>1 DEF Job, SameCall
<1> HIDE DEF k
<1>3. k.tool # "delete"
  BY <1>1, <1>2 DEF Ordered, SameCall
<1>4. k.items \cup k.found \subseteq seen[t].there /\ k.running \subseteq seen[t].ran \cup On(caps)
  BY <1>1, <1>2 DEF Found
<1>5. ~seen[t].raced /\ k.call.op = "summary" /\ ~k.cleanup /\ ~seen[t].dirty
        => k.got \subseteq {k.id}
  BY <1>1, <1>2 DEF SameCall, Alone, Ours
<1>6. QED
  BY <1>1, <1>2, <1>3, <1>4, <1>5, QuietReturns

LEMMA GoneFine ==
  ASSUME Inv, NEW t \in Task, Gone(t)
  PROVE  Fine(t)
<1> DEFINE j == job[t]
<1>1. /\ Active(t) /\ j \in Job /\ j.pc = "gone" /\ Quiet(t)
      /\ Ordered(j) /\ Found(installed, j, seen[t])
      /\ ~seen[t].raced => Alone(caps, j, seen[t])
  BY ActiveFacts DEF Active, Gone, Fits
<1>2. ~seen[t].raced => j.call.iface \notin DOMAIN caps
  BY <1>1 DEF Alone
<1>3. CASE ToolFails(t)
  BY <1>1, <1>2, <1>3, QuietFails
<1>4. CASE ToolReturns(t, j, TRUE)
  <2>1. j.tool = "delete"
    BY <1>1 DEF Ordered, Job, Tools, Ops, CaptureOps, ComponentOps
  <2>2. ~seen[t].raced /\ j.call.op = "summary" /\ ~j.cleanup /\ ~seen[t].dirty
          => j.got \subseteq {j.id}
    BY <1>1 DEF Alone, Ours
  <2>3. QED
    BY <1>1, <1>2, <1>4, <2>1, <2>2, QuietReturns DEF SameCall, Found
<1>5. QED
  BY <1>3, <1>4 DEF Gone

LEMMA DownloadFine ==
  ASSUME Inv, NEW t \in Task, Look(t) \/ Fetch(t)
  PROVE  Fine(t)
<1> DEFINE j == job[t]
           i == j.call.iface
<1>1. /\ Active(t) /\ j \in Job /\ j.pc \in {"look", "fetch"} /\ Quiet(t)
      /\ Ordered(j) /\ Found(installed, j, seen[t]) /\ i \in Iface
      /\ ~seen[t].raced => Alone(caps, j, seen[t])
      /\ caps \in Caps
  BY ActiveFacts DEF Active, Look, Fetch, Fits
<1>2. j.tool = "download" /\ ~Preparing(j)
  BY <1>1 DEF Ordered, Job, Tools, Ops, CaptureOps, ComponentOps, Preparing
<1>3. CASE i \in Present /\ caps[i].file /\ Goto(t, [j EXCEPT !.pc = "fetch"])
  <2> DEFINE k == [j EXCEPT !.pc = "fetch"]
  <2>1. "fetch" \in Phases
    BY DEF Phases
  <2>2. /\ k \in Job /\ k.pc = "fetch" /\ SameCall(k, j)
        /\ k.items = j.items /\ k.found = j.found /\ k.running = j.running
        /\ k.got = j.got
    BY <1>1, <2>1, PhaseFacts
  <2> HIDE DEF k
  <2>3. ~Preparing(k) /\ Ordered(k)
    BY <1>1, <1>2, <2>2 DEF SameCall, Preparing, Ordered
  <2>4. QED
    BY <1>1, <1>2, <1>3, <2>2, <2>3, QuietGoto DEF SameCall, Found, Present, k
<1>4. ASSUME ToolReturns(t, j, FALSE)
      PROVE  Fine(t)
  <2>1. ~seen[t].raced /\ j.call.op = "summary" /\ ~j.cleanup /\ ~seen[t].dirty
          => j.got \subseteq {j.id}
    BY <1>1 DEF Alone, Ours
  <2>2. QED
    BY <1>1, <1>2, <1>4, <2>1, QuietReturns DEF SameCall, Found
<1>5. CASE i \in Present /\ ToolReturns(t, [j EXCEPT !.got = caps[i].under], TRUE)
  <2> DEFINE k == [j EXCEPT !.got = caps[i].under]
  <2>1. caps[i].under \subseteq 0..MaxCalls
    BY <1>1, <1>5, CapsFacts DEF Present, Cap
  <2>2. /\ k \in Job /\ SameCall(k, j)
        /\ k.items = j.items /\ k.found = j.found /\ k.running = j.running
        /\ k.got = caps[i].under
    BY <1>1, <2>1 DEF Job, SameCall
  <2> HIDE DEF k
  <2>3. ~seen[t].raced /\ j.call.op = "summary" /\ ~j.cleanup /\ ~seen[t].dirty
          => caps[i].under \subseteq {j.id}
    BY <1>1, <1>2, <1>5 DEF Alone, Ours, Present
  <2>4. QED
    BY <1>1, <1>2, <1>5, <2>2, <2>3, QuietReturns DEF SameCall, Found, k
<1>6. CASE j.pc = "fetch" /\ ~(i \in Present /\ caps[i].file) /\ ToolFails(t)
  <2>1. seen[t].raced
    BY <1>1, <1>6 DEF Alone, Present
  <2>2. QED
    BY <1>1, <1>6, <2>1, QuietFails
<1>7. QED
  BY <1>3, <1>4, <1>5, <1>6 DEF Look, Fetch

\* The tools that only look: status and list.
LEMMA Looks ==
  ASSUME NEW j \in Job, Ordered(j), j.pc \in {"probe", "scan", "each", "fallback"}
  PROVE  /\ j.tool \in {"status", "list"} /\ j.call.op # "summary" /\ ~j.cleanup
         /\ ~Preparing(j)
BY DEF Ordered, Job, Tools, Ops, CaptureOps, ComponentOps, Preparing

LEMMA ScannedFine ==
  ASSUME Inv, NEW t \in Task, Active(t), Quiet(t), NEW k \in Job,
         Scanned(t, k), SameCall(k, job[t]), k.got = job[t].got,
         job[t].pc \in {"each", "fallback"},
         k.items \cup k.found \subseteq seen[t].there \cup DOMAIN caps,
         k.running \subseteq seen[t].ran \cup On(caps)
  PROVE  Fine(t)
<1> DEFINE l == [k EXCEPT !.pc = "load"]
<1>1. /\ k.tool \in {"status", "list"} /\ k.call.op # "summary" /\ ~k.cleanup
      /\ ~Preparing(job[t]) /\ Ordered(job[t])
  BY Looks, ActiveFacts DEF Fits, SameCall
<1>2. CASE k.tool = "list" /\ ToolReturns(t, k, TRUE)
  BY <1>1, <1>2, QuietReturns
<1>3. CASE k.tool # "list" /\ Goto(t, l)
  <2>1. "load" \in Phases
    BY DEF Phases, Reads
  <2>2. /\ l \in Job /\ l.pc = "load" /\ SameCall(l, k)
        /\ l.items = k.items /\ l.found = k.found /\ l.running = k.running
        /\ l.got = k.got
    BY <2>1, PhaseFacts
  <2> HIDE DEF l
  <2>3. Ordered(l) /\ ~Preparing(l)
    BY <1>1, <2>2 DEF SameCall, Ordered, Preparing
  <2>4. QED
    BY <1>1, <1>3, <2>2, <2>3, QuietGoto DEF SameCall
<1>4. QED
  BY <1>2, <1>3 DEF Scanned

LEMMA ScanFine ==
  ASSUME Inv, NEW t \in Task, Probe(t) \/ Scan(t) \/ Each(t) \/ Fallback(t)
  PROVE  Fine(t)
<1> DEFINE j == job[t]
<1>1. /\ Active(t) /\ j \in Job /\ j.pc \in {"probe", "scan", "each", "fallback"}
      /\ Ordered(j) /\ Found(installed, j, seen[t]) /\ Quiet(t)
      /\ DOMAIN caps \subseteq Iface /\ On(caps) \subseteq DOMAIN caps
  BY ActiveFacts, CapsFacts DEF Active, Probe, Scan, Each, Fallback, Fits
<1>2. j.tool \in {"status", "list"} /\ j.call.op # "summary" /\ ~j.cleanup /\ ~Preparing(j)
  BY <1>1, Looks
<1>3. ASSUME NEW k \in Job, Goto(t, k), k.pc \in {"scan", "each", "fallback"}, SameCall(k, j),
             k.items \cup k.found \subseteq seen[t].there \cup DOMAIN caps,
             k.running \subseteq seen[t].ran \cup On(caps), k.got = j.got
      PROVE  Fine(t)
  <2>1. ~Preparing(k) /\ Ordered(k)
    BY <1>1, <1>2, <1>3 DEF SameCall, Preparing, Ordered
  <2>2. QED
    BY <1>1, <1>2, <1>3, <2>1, QuietGoto DEF SameCall
<1>4. /\ {"scan", "each", "fallback"} \subseteq Phases
      /\ j.items \cup j.found \subseteq seen[t].there /\ j.running \subseteq seen[t].ran
  BY <1>1 DEF Found, Phases, Reads
<1>5. CASE Goto(t, [j EXCEPT !.pc = "scan"])
  <2> DEFINE k == [j EXCEPT !.pc = "scan"]
  <2>1. /\ k \in Job /\ k.pc = "scan" /\ SameCall(k, j) /\ k.got = j.got
        /\ k.items = j.items /\ k.found = j.found /\ k.running = j.running
    BY <1>1, <1>4, PhaseFacts
  <2> HIDE DEF k
  <2>2. QED
    BY <1>3, <1>4, <1>5, <2>1 DEF k
<1>6. CASE ToolReturns(t, j, FALSE)
  BY <1>1, <1>2, <1>4, <1>6, QuietReturns DEF SameCall
<1>7. ASSUME NEW p \in {"fallback", "each"}, Goto(t, [j EXCEPT !.todo = Present, !.pc = p])
      PROVE  Fine(t)
  <2> DEFINE k == [j EXCEPT !.todo = Present, !.pc = p]
  <2>1. /\ k \in Job /\ k.pc = p /\ SameCall(k, j) /\ k.got = j.got
        /\ k.items = j.items /\ k.found = j.found /\ k.running = j.running
    BY <1>1, <1>4 DEF Job, SameCall, Present
  <2> HIDE DEF k
  <2>2. QED
    BY <1>3, <1>4, <1>7, <2>1 DEF k
<1>8. ASSUME Each(t)
      PROVE  Fine(t)
  <2>1. PICK i \in j.todo :
          LET k == [j EXCEPT !.todo = @ \ {i}, !.found = @ \cup ({i} \cap Present),
                             !.running = @ \cup StatusOf({i})] IN
          CASE k.todo # {} -> Goto(t, k)
            [] k.todo = {} /\ k.found = {} -> Goto(t, [k EXCEPT !.pc = "fallback"])
            [] OTHER -> Scanned(t, k)
    BY <1>8 DEF Each
  <2> DEFINE k == [j EXCEPT !.todo = @ \ {i}, !.found = @ \cup ({i} \cap Present),
                            !.running = @ \cup StatusOf({i})]
  <2>2. j.pc = "each"
    BY <1>8 DEF Each
  <2>3. /\ k \in Job /\ k.pc = "each" /\ SameCall(k, j) /\ k.got = j.got
        /\ k.items = j.items /\ k.found = j.found \cup ({i} \cap Present)
        /\ k.running = j.running \cup StatusOf({i})
    BY <1>1, <2>2 DEF Job, SameCall, Present, StatusOf
  <2>4. Goto(t, k) \/ Goto(t, [k EXCEPT !.pc = "fallback"]) \/ Scanned(t, k)
    BY <2>1
  <2> HIDE DEF k
  <2>5. /\ k.items \cup k.found \subseteq seen[t].there \cup DOMAIN caps
        /\ k.running \subseteq seen[t].ran \cup On(caps)
    BY <1>4, <2>3 DEF Present, StatusOf
  <2>6. CASE Goto(t, k)
    BY <1>3, <2>3, <2>5, <2>6
  <2>7. CASE Goto(t, [k EXCEPT !.pc = "fallback"])
    <3> DEFINE l == [k EXCEPT !.pc = "fallback"]
    <3>1. /\ l \in Job /\ l.pc = "fallback" /\ SameCall(l, k)
          /\ l.items = k.items /\ l.found = k.found /\ l.running = k.running
          /\ l.got = k.got
      BY <1>4, <2>3, PhaseFacts
    <3> HIDE DEF l
    <3>2. QED
      BY <1>3, <2>3, <2>5, <2>7, <3>1 DEF SameCall, l
  <2>8. CASE Scanned(t, k)
    BY <1>1, <2>2, <2>3, <2>5, <2>8, ScannedFine
  <2>9. QED
    BY <2>4, <2>6, <2>7, <2>8
<1>9. ASSUME Fallback(t)
      PROVE  Fine(t)
  <2> DEFINE k == [j EXCEPT !.found = Present, !.running = StatusOf(Present)]
  <2>1. j.pc = "fallback" /\ Scanned(t, k)
    BY <1>9 DEF Fallback
  <2>2. /\ k \in Job /\ SameCall(k, j) /\ k.got = j.got
        /\ k.items = j.items /\ k.found = DOMAIN caps /\ k.running \subseteq On(caps)
    BY <1>1 DEF Job, SameCall, Present, StatusOf
  <2> HIDE DEF k
  <2>3. /\ k.items \cup k.found \subseteq seen[t].there \cup DOMAIN caps
        /\ k.running \subseteq seen[t].ran \cup On(caps)
    BY <1>4, <2>2
  <2>4. QED
    BY <1>1, <2>1, <2>2, <2>3, ScannedFine
<1>10. QED
  BY <1>5, <1>6, <1>7, <1>8, <1>9 DEF Probe, Scan

LEMMA RecheckFine ==
  ASSUME Inv, NEW t \in Task, Recheck(t)
  PROVE  Fine(t)
<1>1. /\ Active(t) /\ job[t] \in Job /\ Quiet(t) /\ ToolReturns(t, job[t], Monitor \in installed)
      /\ job[t].pc = "recheck" /\ Ordered(job[t]) /\ Found(installed, job[t], seen[t])
  BY ActiveFacts DEF Active, Recheck, Fits
<1>2. job[t].tool = "ensure" /\ job[t].call.op # "summary"
  BY <1>1 DEF Ordered, Job, Tools, Ops, CaptureOps, ComponentOps
<1>3. /\ SameCall(job[t], job[t]) /\ job[t].tool \notin {"start", "delete"}
      /\ job[t].items \cup job[t].found \subseteq seen[t].there \cup DOMAIN caps
      /\ job[t].running \subseteq seen[t].ran \cup On(caps)
  BY <1>1, <1>2 DEF SameCall, Found
<1> DEFINE hit == Monitor \in installed
<1>4. hit \in BOOLEAN /\ ToolReturns(t, job[t], hit)
  BY <1>1
<1> HIDE DEF hit
<1>5. QED
  BY <1>1, <1>2, <1>3, <1>4, QuietReturns

\* What is pending now, or was when show/version was read.
LEMMA CatalogFine ==
  ASSUME Inv, NEW t \in Task, Catalog(t)
  PROVE  Fine(t)
<1> DEFINE j == job[t]
           r == [NoReport EXCEPT !.op = "components", !.ok = TRUE, !.id = j.id,
                                 !.pending = Differing(j.comps, selected)]
<1>1. /\ Active(t) /\ j \in Job /\ Quiet(t) /\ Answer(t, r) /\ j.pc = "catalog"
      /\ Ordered(j) /\ Found(installed, j, seen[t])
      /\ Watched(caps, installed, selected, seen[t])
      /\ j.comps \subseteq Component /\ j.id \in Id /\ selected \subseteq Component
  BY ActiveFacts DEF Active, Catalog, Fits, Job, Inv, TypeOK
<1>2. /\ r \in Report /\ r.op = "components" /\ r.pending = Differing(j.comps, selected)
  <2>1. Differing(j.comps, selected) \subseteq Component /\ "components" \in Ops \cup {"none"}
    BY <1>1 DEF Differing, Ops, ComponentOps
  <2>2. NoReport \in Report
    BY IdleTypes
  <2>3. QED
    BY <1>1, <2>1, <2>2 DEF Report
<1> HIDE DEF r
<1>3. Differing(j.comps, selected) \subseteq seen[t].due
  BY <1>1 DEF Found, Watched, Differing
<1>4. Moves(t, 0) /\ seen[t].due \subseteq seen'[t].due
  BY <1>1, QuietMoves, ObserveFacts
<1>5. Answered(r, seen'[t])
  BY <1>2, <1>3, <1>4 DEF Answered
<1>6. j.call.op # "summary" /\ j.call.op # "start"
  BY <1>1 DEF Ordered, Job, Tools, Ops, CaptureOps, ComponentOps
<1>7. Ends(t)
  BY <1>6 DEF Ends
<1>8. QED
  BY <1>1, <1>2, <1>4, <1>5, <1>7, AnswerFine

-----------------------------------------------------------------------------
(* Failing requests and commands. *)

LEMMA ReadFailsFine ==
  ASSUME Inv, NEW t \in Task, ReadFails(t)
  PROVE  Fine(t)
<1> DEFINE j == job[t]
<1>1. /\ Active(t) /\ j \in Job /\ j.pc \in Reads \cup {"fetch"}
      /\ Ordered(j) /\ Found(installed, j, seen[t])
      /\ ~seen[t].raced => Alone(caps, j, seen[t])
  <2>1. Active(t)
    BY DEF ReadFails, Reads, Active
  <2>2. QED
    BY <2>1, ActiveFacts DEF ReadFails, Fits
<1>2. Moves(t, 1) /\ caps' = caps /\ installed' = installed /\ selected' = selected
  <2>1. seen[t].faults + 1 <= MaxFaults
    BY <1>1, ActiveFacts, CaptureAssumption DEF ReadFails, Seen
  <2>2. QED
    BY <1>1, <2>1 DEF ReadFails, SameRouter, Moves, Inv, TypeOK
<1>3. /\ seen[t].there \subseteq seen'[t].there /\ seen[t].ran \subseteq seen'[t].ran
      /\ Watched(caps', installed', selected', seen'[t])
  BY <1>2, ObserveFacts
<1>4. CASE j.tool = "status" /\ j.pc = "probe" /\ Goto(t, [j EXCEPT !.pc = "scan"])
  <2> DEFINE k == [j EXCEPT !.pc = "scan"]
  <2>1. /\ k \in Job /\ k.pc = "scan" /\ SameCall(k, j) /\ k.got = j.got
        /\ k.items = j.items /\ k.found = j.found /\ k.running = j.running
    BY <1>1, PhaseFacts DEF Phases, Reads
  <2> HIDE DEF k
  <2>2. Ordered(k) /\ k.call.op # "summary" /\ ~k.cleanup /\ k.tool = "status"
    BY <1>1, <1>4, <2>1 DEF Ordered, SameCall
  <2>3. Found(installed', k, seen'[t]) /\ Alone(caps', k, seen'[t])
    BY <1>1, <1>3, <2>1, <2>2 DEF Found, Alone
  <2>4. QED
    BY <1>2, <1>3, <1>4, <2>1, <2>2, <2>3, GotoFine DEF Fits, k
<1>5. ASSUME NEW k \in Job, NEW hit \in BOOLEAN, j.tool = "status", ToolReturns(t, k, hit),
             SameCall(k, j), k.items \subseteq j.items, k.found \subseteq j.found,
             k.running \subseteq j.running
      PROVE  Fine(t)
  <2>1. k.call.op # "summary" /\ k.tool = "status"
    BY <1>1, <1>5 DEF Ordered, SameCall
  <2>2. /\ k.items \cup k.found \subseteq seen'[t].there /\ k.running \subseteq seen'[t].ran
    BY <1>1, <1>3, <1>5 DEF Found
  <2>3. QED
    BY <1>2, <1>5, <2>1, <2>2, ReturnsFine
<1>6. CASE j.tool = "status" /\ ToolReturns(t, j, FALSE)
  BY <1>1, <1>5, <1>6 DEF SameCall
<1>7. CASE j.tool = "status"
           /\ ToolReturns(t, [j EXCEPT !.found = {}, !.running = {}], Monitor \in j.comps)
  <2> DEFINE k == [j EXCEPT !.found = {}, !.running = {}]
             hit == Monitor \in j.comps
  <2>1. k \in Job /\ SameCall(k, j) /\ k.items = j.items /\ k.found = {} /\ k.running = {}
    BY <1>1 DEF Job, SameCall
  <2>2. hit \in BOOLEAN /\ ToolReturns(t, k, hit)
    BY <1>7
  <2> HIDE DEF k, hit
  <2>3. QED
    BY <1>5, <1>7, <2>1, <2>2
<1>8. CASE ToolFails(t)
  BY <1>2, <1>8, FailsFine
<1>9. QED
  BY <1>4, <1>6, <1>7, <1>8 DEF ReadFails

\* What a command about interface i by call id makes of the captures.
Obeyed(pc, i, id, e) ==
  /\ e \in Caps
  /\ pc = "create" => DOMAIN e = Present \cup {i}
  /\ pc = "drop" => DOMAIN e = Present \ {i}
  /\ pc \notin {"create", "drop"} => DOMAIN e = Present
  /\ \A k \in DOMAIN e \ {i} : e[k] = caps[k]
  /\ pc # "enable" /\ i \in On(e) => i \in On(caps)
  /\ pc \in {"disable", "autostop"} => i \notin On(e)
  /\ pc = "filter" => e[i].filter = id
  /\ pc \in {"disable", "autostop"} =>
       e[i].filter = caps[i].filter /\ e[i].under = caps[i].under
  /\ pc = "enable" /\ i \notin On(caps) => e[i].filter = caps[i].filter /\ e[i].under = {}

LEMMA EffectFacts ==
  ASSUME caps \in Caps, NEW i \in Iface, NEW id \in Id, NEW pc \in Commands,
         pc = "create" \/ i \in Present
  PROVE  Obeyed(pc, i, id, Effect(pc, i, id))
<1> DEFINE e == Effect(pc, i, id)
<1> USE DEF Obeyed
<1>1. /\ DOMAIN caps \subseteq Iface /\ \A k \in DOMAIN caps : caps[k] \in Cap
      /\ Present = DOMAIN caps
  BY CapsFacts DEF Present
<1>2. NewCap \in Cap /\ ~NewCap.on
  BY CaptureAssumption DEF NewCap, Cap, NoFilter
<1>3. id \in 0..MaxCalls
  BY CaptureAssumption DEF Id
<1>4. pc \in {"create", "tune", "filter", "enable", "autostop", "disable", "drop"}
  BY DEF Commands
<1>5. ASSUME NEW f, DOMAIN f \subseteq Iface, \A k \in DOMAIN f : f[k] \in Cap,
             f = [k \in DOMAIN f |-> f[k]]
      PROVE  f \in Caps
  <2>1. f \in [DOMAIN f -> Cap]
    BY <1>5
  <2>2. QED
    BY <1>5, <2>1 DEF Caps
<1>6. CASE pc = "create"
  <2>1. CASE i \in Present
    BY <1>1, <1>6, <2>1 DEF Effect, On
  <2>2. CASE i \notin Present
    <3> DEFINE f == [k \in Present \cup {i} |-> IF k = i THEN NewCap ELSE caps[k]]
    <3>1. e = f
      BY <1>6, <2>2 DEF Effect
    <3>2. f \in Caps
      BY <1>1, <1>2, <1>5
    <3>3. QED
      BY <1>2, <1>6, <3>1, <3>2 DEF On
  <2>3. QED
    BY <2>1, <2>2
<1>7. CASE pc = "tune"
  BY <1>1, <1>7 DEF Effect, On
<1>8. ASSUME NEW c \in Cap, e = [caps EXCEPT ![i] = c], i \in Present
      PROVE  /\ e \in Caps /\ DOMAIN e = Present /\ e[i] = c
             /\ \A k \in DOMAIN e \ {i} : e[k] = caps[k]
  BY <1>1, <1>5, <1>8
<1>9. CASE pc = "filter"
  <2> DEFINE c == [caps[i] EXCEPT !.filter = id]
  <2>1. c \in Cap /\ c.filter = id /\ c.on = caps[i].on
    BY <1>1, <1>3, <1>9 DEF Cap
  <2>2. e = [caps EXCEPT ![i] = c]
    BY <1>9 DEF Effect
  <2> HIDE DEF c
  <2>3. QED
    BY <1>1, <1>8, <1>9, <2>1, <2>2 DEF On
<1>10. CASE pc = "enable"
  <2> DEFINE c == [NewCap EXCEPT !.filter = caps[i].filter, !.on = TRUE]
  <2>1. c \in Cap /\ c.filter = caps[i].filter /\ c.under = {}
    BY <1>1, <1>2, <1>10 DEF Cap, NewCap
  <2>2. e = IF caps[i].on THEN caps ELSE [caps EXCEPT ![i] = c]
    BY <1>10 DEF Effect
  <2> HIDE DEF c
  <2>3. QED
    BY <1>1, <1>8, <1>10, <2>1, <2>2 DEF On
<1>11. CASE pc \in {"disable", "autostop"}
  <2> DEFINE c == [caps[i] EXCEPT !.on = FALSE, !.file = caps[i].file \/ caps[i].on]
  <2>1. c \in Cap /\ ~c.on /\ c.filter = caps[i].filter /\ c.under = caps[i].under
    BY <1>1, <1>11 DEF Cap
  <2>2. e = [caps EXCEPT ![i] = c]
    BY <1>1, <1>11 DEF Effect
  <2> HIDE DEF c
  <2>3. QED
    BY <1>1, <1>8, <1>11, <2>1, <2>2 DEF On
<1>12. CASE pc = "drop"
  <2>1. e = [k \in Present \ {i} |-> caps[k]]
    BY <1>12 DEF Effect
  <2>2. e \in Caps
    BY <1>1, <1>5, <2>1
  <2>3. QED
    BY <1>12, <2>1, <2>2 DEF On
<1>13. QED
  BY <1>4, <1>6, <1>7, <1>9, <1>10, <1>11, <1>12

\* A command that reaches the router.
LEMMA Reached ==
  ASSUME Inv, NEW t \in Task, Active(t), job[t].pc \in Commands,
         Understood(job[t].pc, job[t].call.iface),
         caps' = Effect(job[t].pc, job[t].call.iface, job[t].id)
  PROVE  /\ caps' \in Caps /\ NeedsMonitor(caps', installed)
         /\ job[t].tool = "delete" => DOMAIN caps' \subseteq DOMAIN caps
<1> DEFINE j == job[t]
<1>1. /\ caps \in Caps /\ j.call.iface \in Iface /\ j.id \in Id /\ Ordered(j)
      /\ j.pc = "create" \/ j.call.iface \in Present
      /\ Monitor \in installed
  BY ActiveFacts DEF Fits, Understood
<1>2. /\ caps' \in Caps
      /\ j.pc = "create" => DOMAIN caps' = Present \cup {j.call.iface}
      /\ j.pc = "drop" => DOMAIN caps' = Present \ {j.call.iface}
      /\ j.pc \notin {"create", "drop"} => DOMAIN caps' = Present
  <2>1. Obeyed(j.pc, j.call.iface, j.id, caps')
    BY <1>1, EffectFacts
  <2>2. QED
    BY <2>1 DEF Obeyed
<1>3. j.tool = "delete" => j.pc = "drop"
  BY <1>1 DEF Ordered, Commands
<1>4. QED
  BY <1>1, <1>2, <1>3 DEF NeedsMonitor, Present

LEMMA CommandFine ==
  ASSUME Inv, NEW t \in Task, Command(t)
  PROVE  Fine(t)
<1> DEFINE j == job[t]
           i == j.call.iface
           k == [j EXCEPT !.pc = Following(j), !.left = j.call.seconds]
<1>1. /\ Active(t) /\ j \in Job /\ j.pc \in Commands /\ seen[t] \in Seen
      /\ Ordered(j) /\ Found(installed, j, seen[t])
      /\ ~seen[t].raced => Alone(caps, j, seen[t])
      /\ caps \in Caps /\ NeedsMonitor(caps, installed) /\ i \in Iface /\ j.id \in Id
      /\ j.call.seconds \in 0..MaxSeconds /\ j.call.packets \in 0..MaxFrames
  <2>1. Active(t)
    BY DEF Command, Commands, Active
  <2>2. QED
    BY <2>1, ActiveFacts DEF Command, Fits, Inv, Call
<1>2. seen[t].faults \in Nat /\ seen[t].faults <= MaxFaults
  BY <1>1, CaptureAssumption DEF Seen
<1>3. CASE Understood(j.pc, i) /\ caps' = Effect(j.pc, i, j.id) /\ Goto(t, k)
  <2>1. Moves(t, 0)
    BY <1>1, <1>2, <1>3, Reached DEF Command, SameComponents, Moves, Inv, TypeOK
  <2>2. /\ seen'[t].faults = seen[t].faults /\ seen'[t].raced = seen[t].raced
        /\ seen'[t].dirty = seen[t].dirty
        /\ seen[t].there \subseteq seen'[t].there /\ seen[t].ran \subseteq seen'[t].ran
        /\ Watched(caps', installed', selected', seen'[t]) /\ installed' = installed
    BY <1>2, <2>1, ObserveFacts DEF Moves
  <2>3. j.pc = "create" \/ i \in Present
    BY <1>3 DEF Understood
  <2>4. /\ j.pc = "create" => DOMAIN caps' = Present \cup {i}
        /\ j.pc = "drop" => DOMAIN caps' = Present \ {i}
        /\ j.pc \notin {"create", "drop"} => DOMAIN caps' = Present
        /\ j.pc # "enable" /\ i \in On(caps') => i \in On(caps)
        /\ j.pc \in {"disable", "autostop"} => i \notin On(caps')
        /\ j.pc = "filter" => caps'[i].filter = j.id
        /\ j.pc \in {"disable", "autostop"} =>
             caps'[i].filter = caps[i].filter /\ caps'[i].under = caps[i].under
        /\ j.pc = "enable" /\ i \notin On(caps) =>
             caps'[i].filter = caps[i].filter /\ caps'[i].under = {}
    <3>1. Obeyed(j.pc, i, j.id, caps')
      BY <1>1, <1>3, <2>3, EffectFacts
    <3>2. QED
      BY <3>1 DEF Obeyed
  <2>5. \/ j.pc = "create" /\ j.tool = "start" /\ Following(j) = "tune"
        \/ j.pc = "tune" /\ j.tool = "start" /\ Following(j) = "filter"
        \/ j.pc = "filter" /\ j.tool = "start" /\ Following(j) = "enable"
        \/ j.pc = "enable" /\ j.tool = "start"
             /\ \/ Following(j) = "poll"
                \/ Following(j) = "check" /\ ~(j.call.seconds + j.call.packets > 0)
        \/ j.pc = "autostop" /\ j.tool = "start" /\ Following(j) = "check"
        \/ j.pc = "disable" /\ j.tool = "stop" /\ Following(j) = "check"
        \/ j.pc = "drop" /\ j.tool = "delete" /\ Following(j) = "gone"
    <3>1. j.pc \in {"create", "tune", "filter", "enable", "autostop", "disable", "drop"}
      BY <1>1 DEF Commands
    <3>2. /\ j.pc \in {"create", "tune", "filter", "enable", "autostop"} => j.tool = "start"
          /\ j.pc = "disable" => j.tool = "stop"
          /\ j.pc = "drop" => j.tool = "delete"
      BY <1>1 DEF Ordered, Job, Tools, Ops, CaptureOps, ComponentOps
    <3>3. ~(j.call.seconds > 0 \/ j.call.packets > 0) => ~(j.call.seconds + j.call.packets > 0)
      BY <1>1, CaptureAssumption
    <3>4. QED
      BY <3>1, <3>2, <3>3 DEF Following
  <2>6. /\ k \in Job /\ SameCall(k, j) /\ k.got = j.got /\ k.pc = Following(j)
        /\ k.items = j.items /\ k.found = j.found /\ k.running = j.running
    <3> DEFINE p == Following(j)
    <3>1. p \in Phases
      BY <2>5 DEF Phases, Reads, Commands
    <3> HIDE DEF p
    <3>2. [j EXCEPT !.pc = p, !.left = j.call.seconds] \in Job
      BY <1>1, <3>1 DEF Job
    <3>3. QED
      BY <1>1, <3>2 DEF p, Job, SameCall
  <2> HIDE DEF k
  <2>7. Ordered(k)
    BY <1>1, <2>5, <2>6 DEF Ordered, SameCall
  <2>8. Found(installed', k, seen'[t])
    BY <1>1, <2>2, <2>5, <2>6 DEF Found
  <2>9. ASSUME ~seen'[t].raced
        PROVE  Alone(caps', k, seen'[t])
    <3>1. Alone(caps, j, seen[t])
      BY <1>1, <2>2, <2>9
    <3>2. k.pc = "enable" /\ i \in DOMAIN caps' => caps'[i].filter = k.id
      BY <2>4, <2>5, <2>6 DEF SameCall
    <3>3. k.pc = "gone" => i \notin DOMAIN caps'
      BY <2>4, <2>5, <2>6
    <3>4. k.tool = "start" /\ k.pc = "check" /\ k.call.seconds + k.call.packets > 0 =>
            i \notin On(caps')
      BY <2>4, <2>5, <2>6 DEF SameCall
    <3>5. k.cleanup /\ seen'[t].faults = 0 => i \notin DOMAIN caps'
      <4>1. SUFFICES ASSUME j.cleanup, seen[t].faults = 0 PROVE FALSE
        BY <2>2, <2>6 DEF SameCall
      <4>2. i \notin DOMAIN caps
        BY <3>1, <4>1 DEF Alone
      <4>3. j.tool # "start"
        BY <1>1, <4>1 DEF Ordered
      <4>4. QED
        BY <2>3, <2>5, <4>2, <4>3 DEF Present
    <3>6. ASSUME k.call.op = "summary", ~k.cleanup, ~seen'[t].dirty
          PROVE  Ours(caps', k)
      <4>1. Ours(caps, j)
        BY <2>2, <2>6, <3>1, <3>6 DEF Alone, SameCall
      <4>2. k.got \subseteq {k.id}
        BY <2>6, <4>1 DEF Ours, SameCall
      <4>3. Preparing(k) => Preparing(j) /\ j.pc # "enable"
        BY <2>5, <2>6 DEF Preparing, SameCall
      <4>4. Preparing(k) => i \notin On(caps')
        BY <2>4, <4>1, <4>3 DEF Ours
      <4>5. ASSUME ~Preparing(k), i \in DOMAIN caps'
            PROVE  caps'[i].filter = k.id /\ caps'[i].under \subseteq {k.id}
        <5>1. j.pc \in {"enable", "autostop", "disable"}
          BY <2>4, <2>5, <2>6, <4>5 DEF Preparing, SameCall
        <5>2. CASE j.pc = "enable"
          <6>1. Preparing(j) /\ i \in DOMAIN caps
            BY <2>3, <2>5, <5>2 DEF Preparing, Present
          <6>2. i \notin On(caps) /\ caps[i].filter = j.id
            BY <3>1, <4>1, <5>2, <6>1 DEF Alone, Ours
          <6>3. QED
            BY <2>4, <2>6, <5>2, <6>2 DEF SameCall
        <5>3. CASE j.pc \in {"autostop", "disable"}
          <6>1. ~Preparing(j) /\ i \in DOMAIN caps
            BY <2>3, <5>3 DEF Preparing, Present
          <6>2. caps[i].filter = j.id /\ caps[i].under \subseteq {j.id}
            BY <4>1, <6>1 DEF Ours
          <6>3. QED
            BY <2>4, <2>6, <5>3, <6>2 DEF SameCall
        <5>4. QED
          BY <5>1, <5>2, <5>3
      <4>6. QED
        BY <2>6, <4>2, <4>4, <4>5 DEF Ours, SameCall
    <3>7. k.pc # "fetch"
      BY <2>5, <2>6
    <3>8. k.call = j.call
      BY <2>6 DEF SameCall
    <3>9. QED
      BY <3>2, <3>3, <3>4, <3>5, <3>6, <3>7, <3>8 DEF Alone
  <2>10. k.pc # "idle"
    BY <2>5, <2>6
  <2>11. QED
    BY <1>3, <2>1, <2>2, <2>6, <2>7, <2>8, <2>9, <2>10, GotoFine DEF Fits, k
<1>4. CASE ~Understood(j.pc, i) /\ UNCHANGED caps /\ ToolFails(t)
  <2>1. Moves(t, 0)
    BY <1>1, <1>2, <1>4 DEF Command, SameComponents, Moves, Inv, TypeOK
  <2>2. i \notin DOMAIN caps
    BY <1>1, <1>4 DEF Understood, NeedsMonitor, Present
  <2>3. QED
    BY <1>4, <2>1, <2>2, FailsFine
<1>5. QED
  BY <1>3, <1>4 DEF Command, Refused

\* A command that is refused, lost, or obeyed without an answer.
LEMMA LostFine ==
  ASSUME Inv, NEW t \in Task, Refuse(t) \/ Lose(t)
  PROVE  Fine(t)
<1> DEFINE j == job[t]
<1>1. /\ Active(t) /\ j.pc \in Commands \cup CompCommands /\ seen[t].faults < MaxFaults
      /\ ToolFails(t) /\ Observe(t, 1) /\ SameComponents /\ UNCHANGED calls
  BY DEF Refuse, Lose, Refused, Commands, CompCommands, Active, SameRouter, SameComponents
<1>2. seen[t].faults + 1 <= MaxFaults
  BY <1>1, ActiveFacts, CaptureAssumption DEF Seen
<1>3. /\ caps' \in Caps /\ NeedsMonitor(caps', installed)
      /\ j.tool = "delete" => DOMAIN caps' \subseteq DOMAIN caps
  <2>1. CASE UNCHANGED caps
    BY <2>1 DEF Inv, TypeOK
  <2>2. CASE /\ j.pc \in Commands /\ Understood(j.pc, j.call.iface)
             /\ caps' = Effect(j.pc, j.call.iface, j.id)
    BY <1>1, <2>2, Reached
  <2>3. QED
    BY <2>1, <2>2 DEF Refuse, Lose, SameRouter
<1>4. Moves(t, 1)
  BY <1>1, <1>2, <1>3 DEF SameComponents, Moves, Inv, TypeOK
<1>5. QED
  BY <1>1, <1>3, <1>4, FailsFine

LEMMA ComponentsFine ==
  ASSUME Inv, NEW t \in Task, Queue(t) \/ Commit(t)
  PROVE  Fine(t)
<1> DEFINE j == job[t]
<1>1. /\ Active(t) /\ j \in Job /\ j.pc \in {"queue", "commit"} /\ seen[t] \in Seen
      /\ Ordered(j) /\ Found(installed, j, seen[t])
      /\ j.call.comp \in Component
  BY ActiveFacts DEF Active, Queue, Commit, Fits, Call
<1>2. j.tool \in {"install", "remove", "ensure"} /\ j.call.op # "summary" /\ ~j.cleanup
  BY <1>1 DEF Ordered, Job, Tools, Ops, CaptureOps, ComponentOps
<1>3. Moves(t, 0) /\ caps' = caps
  <2>1. seen[t].faults + 0 <= MaxFaults
    BY <1>1, CaptureAssumption DEF Seen
  <2>2. selected' \subseteq Component /\ committing' \in BOOLEAN
    BY <1>1, CaptureAssumption DEF Queue, Commit, Wanted, Inv, TypeOK
  <2>3. QED
    BY <1>1, <2>1, <2>2 DEF Queue, Commit, Moves, Inv, TypeOK
<1>4. /\ seen[t].there \subseteq seen'[t].there /\ seen[t].ran \subseteq seen'[t].ran
      /\ Watched(caps', installed', selected', seen'[t])
  BY <1>3, ObserveFacts
<1>5. ASSUME NEW hit \in BOOLEAN, ToolReturns(t, j, hit)
      PROVE  Fine(t)
  <2>1. j.items \cup j.found \subseteq seen'[t].there /\ j.running \subseteq seen'[t].ran
    BY <1>1, <1>4 DEF Found
  <2>2. QED
    BY <1>1, <1>2, <1>3, <1>5, <2>1, ReturnsFine DEF SameCall
<1>6. ASSUME NEW p \in {"commit", "recheck"}, Goto(t, [j EXCEPT !.pc = p]),
             p = "recheck" => j.tool = "ensure"
      PROVE  Fine(t)
  <2> DEFINE k == [j EXCEPT !.pc = p]
  <2>1. /\ k \in Job /\ k.pc = p /\ SameCall(k, j) /\ k.got = j.got
        /\ k.items = j.items /\ k.found = j.found /\ k.running = j.running
    BY <1>1, PhaseFacts DEF Phases, Reads, CompCommands
  <2> HIDE DEF k
  <2>2. Ordered(k)
    BY <1>1, <1>2, <1>6, <2>1 DEF Ordered, SameCall
  <2>3. Found(installed', k, seen'[t]) /\ Alone(caps', k, seen'[t])
    BY <1>1, <1>2, <1>4, <2>1 DEF Found, Alone, SameCall
  <2>4. QED
    BY <1>3, <1>4, <1>6, <2>1, <2>2, <2>3, GotoFine DEF Fits, k
<1>7. QED
  BY <1>5, <1>6 DEF Queue, Commit

-----------------------------------------------------------------------------
(* Everything else. *)

LEMMA InitInv == Init => Inv
<1> SUFFICES ASSUME Init PROVE Inv
  OBVIOUS
<1>1. caps \in Caps /\ installed \subseteq Component /\ selected \subseteq Component
  BY CaptureAssumption DEF Init
<1>2. TypeOK
  <2>1. IdleJob \in Job /\ NoReport \in Report /\ NothingSeen \in Seen
    BY IdleTypes
  <2>2. /\ job \in [Task -> Job] /\ report \in [Task -> Report] /\ seen \in [Task -> Seen]
    BY <2>1 DEF Init
  <2>3. 0 \in 0..MaxCalls
    BY CaptureAssumption
  <2>4. calls \in 0..MaxCalls /\ committing \in BOOLEAN
    BY <2>3 DEF Init
  <2>5. QED
    BY <1>1, <2>2, <2>4 DEF TypeOK
<1>3. ASSUME NEW t \in Task
      PROVE  Good(caps, installed, selected, job[t], report[t], seen[t])
  <2>1. job[t] = IdleJob /\ report[t] = NoReport
    BY DEF Init
  <2>2. Answered(NoReport, seen[t])
    BY DEF Answered, NoReport
  <2>3. QED
    BY <2>1, <2>2, IdleTypes DEF Good
<1>4. QED
  BY <1>2, <1>3 DEF Init, Inv, NeedsMonitor

LEMMA StartInv ==
  ASSUME Inv, NEW t \in Task, Start(t)
  PROVE  Inv'
<1> DEFINE s(c) == [NothingSeen EXCEPT !.dirty = c.iface \in On(caps), !.there = Present,
                                !.ran = On(caps), !.had = installed,
                                !.due = Differing(installed, selected)]
           k(c) == [IdleJob EXCEPT !.call = c, !.id = calls']
           tool(c) == IF c.op = "summary" THEN "start" ELSE c.op
<1>1. PICK c \in Calls[t] :
        /\ job' = [job EXCEPT ![t] = Enter(k(c), tool(c))]
        /\ seen' = [seen EXCEPT ![t] = s(c)]
  BY DEF Start
<1>2. /\ UNCHANGED <<caps, installed, selected, committing>>
      /\ report' = [report EXCEPT ![t] = NoReport]
      /\ calls' \in Id /\ calls' \in 0..MaxCalls
  BY CaptureAssumption DEF Start, SameRouter, Inv, TypeOK, Id
<1>3. c \in Call /\ c.iface \in Iface /\ c.op \in Ops /\ tool(c) \in Tools
  BY CaptureAssumption DEF Call, Tools, Ops, CaptureOps
<1>4. /\ s(c) \in Seen /\ ~s(c).raced /\ s(c).there = DOMAIN caps /\ s(c).ran = On(caps)
      /\ s(c).due = Differing(installed, selected)
      /\ s(c).dirty = (c.iface \in On(caps))
  <2>1. /\ Present \subseteq Iface /\ On(caps) \subseteq Iface /\ installed \subseteq Component
        /\ Differing(installed, selected) \subseteq Component
    BY CapsFacts DEF Present, Inv, TypeOK, Differing
  <2>2. NothingSeen \in Seen
    BY IdleTypes
  <2> DEFINE d == c.iface \in On(caps)
             z(b, P, O, I, D) == [NothingSeen EXCEPT !.dirty = b, !.there = P, !.ran = O,
                                                     !.had = I, !.due = D]
  <2>3. d \in BOOLEAN
    OBVIOUS
  <2>4. ASSUME NEW b \in BOOLEAN, NEW P \in SUBSET Iface, NEW O \in SUBSET Iface,
               NEW I \in SUBSET Component, NEW D \in SUBSET Component
        PROVE  /\ z(b, P, O, I, D) \in Seen /\ z(b, P, O, I, D).dirty = b
               /\ z(b, P, O, I, D).there = P /\ z(b, P, O, I, D).ran = O
               /\ z(b, P, O, I, D).due = D
               /\ z(b, P, O, I, D).raced = NothingSeen.raced
    BY <2>2 DEF Seen
  <2>5. ~NothingSeen.raced
    BY DEF NothingSeen
  <2>6. s(c) = z(d, Present, On(caps), installed, Differing(installed, selected))
    OBVIOUS
  <2>7. On(caps) \in SUBSET Iface /\ Present \in SUBSET Iface
    BY <2>1
  <2> HIDE DEF d, s, z
  <2>8. /\ s(c) \in Seen /\ s(c).dirty = d /\ s(c).there = Present /\ s(c).ran = On(caps)
        /\ s(c).due = Differing(installed, selected) /\ ~s(c).raced
    BY <2>1, <2>3, <2>4, <2>5, <2>6, <2>7
  <2>9. QED
    BY <2>8 DEF Present, d
<1>5. /\ k(c) \in Job /\ k(c).call = c /\ ~k(c).cleanup /\ k(c).items = {} /\ k(c).found = {}
      /\ k(c).running = {} /\ k(c).got = {}
  <2>1. k(c) \in Job
    BY <1>2, <1>3, IdleTypes DEF Job
  <2>2. QED
    BY <2>1 DEF Job, IdleJob
<1> DEFINE e == Enter(k(c), tool(c))
           new == s(c)
<1>6. /\ e \in Job /\ e.tool = tool(c)
      /\ e.pc = IF tool(c) \in {"install", "remove"} THEN "queue" ELSE "version"
      /\ e.call = c /\ ~e.cleanup /\ e.items = {} /\ e.found = {} /\ e.running = {} /\ e.got = {}
  <2> HIDE DEF k
  <2>1. QED
    BY <1>3, <1>5, EnterFacts
<1> HIDE DEF s, k, e
<1>7. Ordered(e)
  BY <1>3, <1>6 DEF Ordered, Ops, CaptureOps, ComponentOps
<1>8. Watched(caps, installed, selected, new) /\ Found(installed, e, new)
  BY <1>4, <1>6 DEF Watched, Found
<1>9. Alone(caps, e, new)
  <2>1. e.call.op = "summary" => e.tool = "start" /\ e.pc = "version"
    BY <1>6
  <2>2. e.call.op = "summary" /\ ~new.dirty => Ours(caps, e)
    BY <1>4, <1>6, <2>1 DEF Ours, Preparing
  <2>3. QED
    BY <1>6, <2>2 DEF Alone
<1>10. Good(caps, installed, selected, e, NoReport, new)
  BY <1>6, <1>7, <1>8, <1>9 DEF Good, Fits
<1>11. job' = [job EXCEPT ![t] = e] /\ seen' = [seen EXCEPT ![t] = new]
  BY <1>1 DEF e
<1> HIDE DEF new
<1>12. new \in Seen
  BY <1>4 DEF new
<1>13. TypeOK'
  BY <1>2, <1>6, <1>11, <1>12, IdleTypes DEF Inv, TypeOK
<1>14. \A u \in Task : Good(caps, installed, selected, job'[u], report'[u], seen'[u])
  BY <1>2, <1>10, <1>11 DEF Inv, TypeOK
<1>15. QED
  BY <1>2, <1>13, <1>14 DEF Inv

\* A commit takes place: what a call found pending still was.
LEMMA InstallInv ==
  ASSUME Inv, Install
  PROVE  Inv'
<1>1. /\ installed' = selected /\ UNCHANGED <<selected, job, report, calls>>
      /\ committing' \in BOOLEAN
      /\ caps' \in Caps /\ NeedsMonitor(caps', installed')
      /\ DOMAIN caps' \subseteq DOMAIN caps /\ On(caps') \subseteq On(caps)
  BY NoCaps DEF Install, Inv, TypeOK, NeedsMonitor, On
<1>2. ASSUME NEW u \in Task
      PROVE  /\ seen'[u] \in Seen
             /\ Good(caps', installed', selected', job[u], report[u], seen'[u])
  <2>1. /\ seen[u] \in Seen /\ Good(caps, installed, selected, job[u], report[u], seen[u])
        /\ selected \subseteq Component /\ installed' \subseteq Component
    BY <1>1 DEF Inv, TypeOK
  <2>2. CASE ~Active(u)
    <3>1. seen'[u] = seen[u]
      BY <2>2 DEF Install
    <3>2. QED
      BY <2>1, <2>2, <3>1 DEF Good, Active
  <2>3. CASE Active(u)
    <3> DEFINE s == [seen[u] EXCEPT !.raced = TRUE, !.had = @ \cup installed']
    <3>1. seen'[u] = s
      BY <2>3 DEF Install
    <3>2. /\ s \in Seen /\ s.raced /\ s.there = seen[u].there /\ s.ran = seen[u].ran
          /\ s.due = seen[u].due
      BY <2>1 DEF Seen
    <3> HIDE DEF s
    <3>3. report[u] = NoReport /\ Fits(caps, installed, selected, job[u], seen[u])
      BY <2>1, <2>3 DEF Good, Active
    <3>4. Watched(caps', installed', selected', s) /\ Found(installed', job[u], s)
      BY <1>1, <3>2, <3>3 DEF Fits, Watched, Found, Differing
    <3>5. QED
      BY <2>3, <3>1, <3>2, <3>3, <3>4 DEF Good, Active, Fits
  <2>4. QED
    BY <2>2, <2>3
<1>3. seen' \in [Task -> Seen]
  <2>1. seen' = [u \in Task |-> seen'[u]]
    BY DEF Install
  <2>2. QED
    BY <1>2, <2>1
<1>4. TypeOK'
  BY <1>1, <1>3 DEF Inv, TypeOK
<1>5. QED
  BY <1>1, <1>2, <1>4 DEF Inv

\* A packet is captured: under the filter that is set.
LEMMA TrafficInv ==
  ASSUME Inv, Traffic
  PROVE  Inv'
<1>1. PICK i \in On(caps) :
        /\ caps[i].frames < MaxFrames
        /\ caps' = [caps EXCEPT ![i].frames = @ + 1, ![i].under = @ \cup {caps[i].filter}]
  BY DEF Traffic
<1>2. UNCHANGED <<installed, selected, committing, job, report, calls, seen>>
  BY DEF Traffic, SameComponents
<1> DEFINE c == [caps[i] EXCEPT !.frames = @ + 1, !.under = @ \cup {caps[i].filter}]
<1>3. /\ caps \in Caps /\ DOMAIN caps \subseteq Iface /\ i \in DOMAIN caps
      /\ \A x \in DOMAIN caps : caps[x] \in Cap
  BY CapsFacts DEF Inv, TypeOK
<1>4. /\ c \in Cap /\ c.filter = caps[i].filter /\ c.on = caps[i].on /\ c.file = caps[i].file
      /\ c.under = caps[i].under \cup {caps[i].filter}
  <2>1. caps[i].frames + 1 \in 0..MaxFrames
    BY <1>1, <1>3, CaptureAssumption DEF Cap
  <2>2. QED
    BY <1>3, <2>1 DEF Cap
<1>5. caps' = [caps EXCEPT ![i] = c]
  BY <1>1, <1>3
<1> HIDE DEF c
<1>6. /\ DOMAIN caps' = DOMAIN caps /\ On(caps') = On(caps)
      /\ \A x \in DOMAIN caps : /\ caps'[x] \in Cap
                                /\ caps'[x].filter = caps[x].filter /\ caps'[x].file = caps[x].file
                                /\ caps'[x].under \subseteq caps[x].under \cup
                                     (IF x \in On(caps) THEN {caps[x].filter} ELSE {})
  BY <1>3, <1>4, <1>5 DEF On
<1>7. caps' \in Caps
  <2>1. caps' \in [DOMAIN caps -> Cap]
    BY <1>5, <1>6
  <2>2. QED
    BY <1>3, <2>1 DEF Caps
<1>8. ASSUME NEW u \in Task
      PROVE  Good(caps', installed, selected, job[u], report[u], seen[u])
  <2>1. Good(caps, installed, selected, job[u], report[u], seen[u])
    BY DEF Inv
  <2>2. Watched(caps, installed, selected, seen[u]) => Watched(caps', installed, selected, seen[u])
    BY <1>6 DEF Watched
  <2>3. ASSUME Ours(caps, job[u])
        PROVE  Ours(caps', job[u])
    BY <1>6, <2>3 DEF Ours
  <2>4. Alone(caps, job[u], seen[u]) => Alone(caps', job[u], seen[u])
    BY <1>6, <2>3 DEF Alone
  <2>5. QED
    BY <2>1, <2>2, <2>4 DEF Good, Fits
<1>9. TypeOK' /\ NeedsMonitor(caps', installed')
  BY <1>2, <1>6, <1>7 DEF Inv, TypeOK, NeedsMonitor
<1>10. QED
  BY <1>2, <1>8, <1>9 DEF Inv

LEMMA RebootInv ==
  ASSUME Inv, Reboot
  PROVE  Inv'
<1>1. ASSUME NEW u \in Task
      PROVE  report'[u] \in Report /\ Answered(report'[u], seen[u])
  <2>1. CASE Active(u)
    <3> DEFINE r == [NoReport EXCEPT !.op = job[u].call.op, !.id = job[u].id]
    <3>1. report'[u] = r
      BY <2>1 DEF Reboot
    <3>2. job[u].call.op \in Ops /\ job[u].id \in Id
      BY <2>1, ActiveFacts DEF Call
    <3>3. r \in Report /\ ~r.ok /\ r.items = {} /\ r.running = {} /\ r.pending = {}
      BY <3>2, IdleTypes DEF NoReport
    <3> HIDE DEF r
    <3>4. QED
      BY <3>1, <3>3 DEF Answered
  <2>2. CASE ~Active(u)
    BY <2>2 DEF Reboot, Inv, TypeOK, Good, Active
  <2>3. QED
    BY <2>1, <2>2
<1>2. report' \in [Task -> Report]
  <2>1. report' = [u \in Task |-> report'[u]]
    BY DEF Reboot
  <2>2. QED
    BY <1>1, <2>1
<1>3. TypeOK' /\ NeedsMonitor(caps', installed')
  BY <1>2, IdleTypes, NoCaps DEF Reboot, SameComponents, Inv, TypeOK, NeedsMonitor
<1>4. \A u \in Task : Good(caps', installed', selected', job'[u], report'[u], seen'[u])
  BY <1>1, IdleTypes DEF Reboot, Good
<1>5. QED
  BY <1>3, <1>4 DEF Inv

-----------------------------------------------------------------------------
(* All steps. *)

LEMMA StepFine ==
  ASSUME Inv, NEW t \in Task, Step(t)
  PROVE  Fine(t)
<1>1. CASE Version(t)
  BY <1>1, VersionFine
<1>2. CASE Load(t)
  BY <1>2, LoadFine
<1>3. CASE Poll(t) \/ Sleep(t)
  BY <1>3, WatchFine
<1>4. CASE Check(t)
  BY <1>4, CheckFine
<1>5. CASE Gone(t)
  BY <1>5, GoneFine
<1>6. CASE Look(t) \/ Fetch(t)
  BY <1>6, DownloadFine
<1>7. CASE Probe(t) \/ Scan(t) \/ Each(t) \/ Fallback(t)
  BY <1>7, ScanFine
<1>8. CASE Recheck(t)
  BY <1>8, RecheckFine
<1>9. CASE Catalog(t)
  BY <1>9, CatalogFine
<1>10. CASE ReadFails(t)
  BY <1>10, ReadFailsFine
<1>11. CASE Command(t)
  BY <1>11, CommandFine
<1>12. CASE Refuse(t) \/ Lose(t)
  BY <1>12, LostFine
<1>13. CASE Queue(t) \/ Commit(t)
  BY <1>13, ComponentsFine
<1>14. QED
  BY <1>1, <1>2, <1>3, <1>4, <1>5, <1>6, <1>7, <1>8, <1>9, <1>10, <1>11, <1>12, <1>13 DEF Step

LEMMA NextInv == Inv /\ [Next]_vars => Inv'
<1> SUFFICES ASSUME Inv, [Next]_vars PROVE Inv'
  OBVIOUS
<1>1. ASSUME NEW t \in Task, Step(t) PROVE Inv'
  BY <1>1, StepFine DEF Fine
<1>2. ASSUME NEW t \in Task, Start(t) PROVE Inv'
  BY <1>2, StartInv
<1>3. CASE UNCHANGED vars
  BY <1>3 DEF vars, Inv, TypeOK
<1>4. QED
  BY <1>1, <1>2, <1>3, InstallInv, TrafficInv, RebootInv DEF Next

LEMMA InvAlways == Spec => []Inv
<1>1. QED
  BY InitInv, NextInv, PTL DEF Spec

-----------------------------------------------------------------------------
(* The theorems. *)

\* The types, and that what status, list and list_components show was so at
\* some moment of the call (CaptureInv): for any calls, faults and traffic.
THEOREM CaptureCorrect == Spec => []CaptureInv
<1>1. ASSUME Inv, NEW t \in Task
      PROVE  /\ report[t].op \in {"status", "list"} =>
                  report[t].items \subseteq seen[t].there /\ report[t].running \subseteq seen[t].ran
             /\ report[t].pending \subseteq seen[t].due
  <2>1. CASE Active(t)
    BY <1>1, <2>1, ActiveFacts DEF NoReport
  <2>2. CASE ~Active(t)
    BY <1>1, <2>2 DEF Inv, Good, Active, Answered
  <2>3. QED
    BY <2>1, <2>2
<1>2. Inv => CaptureInv
  BY <1>1 DEF CaptureInv, ShownWereThere, PendingWasPending, Inv
<1>3. QED
  BY <1>2, InvAlways, PTL

\* A step of a task changes what that task is doing and no other.
LEMMA OwnJob ==
  ASSUME Inv, NEW t \in Task, Start(t) \/ Step(t), NEW u \in Task, u # t
  PROVE  job'[u] = job[u]
<1> DEFINE Own == \E j : job' = [job EXCEPT ![t] = j]
<1>1. ASSUME NEW j, Goto(t, j) PROVE Own
  BY <1>1 DEF Goto
<1>2. ASSUME NEW r, Answer(t, r) PROVE Own
  BY <1>2 DEF Answer
<1>3. ToolFails(t) => Own
  BY <1>1, <1>2 DEF ToolFails, Raise
<1>4. ASSUME NEW j, NEW hit, ToolReturns(t, j, hit) PROVE Own
  BY <1>1, <1>2, <1>4 DEF ToolReturns, Raise
<1>5. ASSUME NEW j, Scanned(t, j) PROVE Own
  BY <1>1, <1>4, <1>5 DEF Scanned
<1>6. Start(t) => Own
  BY DEF Start
<1> HIDE DEF Own
<1>7. Version(t) \/ Load(t) \/ Poll(t) \/ Sleep(t) \/ Check(t) \/ Gone(t) => Own
  BY <1>1, <1>2, <1>3, <1>4 DEF Version, Load, Poll, Sleep, Check, Gone
<1>8. Look(t) \/ Fetch(t) \/ Probe(t) \/ Scan(t) \/ Each(t) \/ Fallback(t) => Own
  BY <1>1, <1>3, <1>4, <1>5 DEF Look, Fetch, Probe, Scan, Each, Fallback
<1>9. Recheck(t) \/ Catalog(t) \/ ReadFails(t) \/ Queue(t) \/ Commit(t) => Own
  BY <1>1, <1>2, <1>3, <1>4 DEF Recheck, Catalog, ReadFails, Queue, Commit
<1>10. Command(t) \/ Refuse(t) \/ Lose(t) => Own
  BY <1>1, <1>3 DEF Command, Refuse, Lose, Refused
<1>11. Own
  BY <1>6, <1>7, <1>8, <1>9, <1>10 DEF Step
<1>12. job \in [Task -> Job]
  BY DEF Inv, TypeOK
<1>13. QED
  BY <1>11, <1>12 DEF Own

\* What holds of every call that ends, whatever the step.
LEMMA EndsAlways ==
  ASSUME Inv, [Next]_vars, NEW t \in Task, Active(t)
  PROVE  Ends(t)
<1>1. ASSUME NEW u \in Task, Start(u) \/ Step(u)
      PROVE  Ends(t)
  <2>1. CASE u = t
    BY <1>1, <2>1, StepFine DEF Start, Fine
  <2>2. CASE u # t
    BY <1>1, <2>2, OwnJob DEF Ends, Active
  <2>3. QED
    BY <2>1, <2>2
<1>2. CASE Install \/ Traffic \/ UNCHANGED vars
  BY <1>2 DEF Install, Traffic, vars, Ends, Active
<1>3. CASE Reboot
  BY <1>3, NoCaps DEF Reboot, Ends, On
<1>4. QED
  BY <1>1, <1>2, <1>3 DEF Next

\* What a command to enable a capture may start, by the call that sent it.
LEMMA EnableFacts ==
  ASSUME Inv, NEW t \in Task, Step(t), job[t].pc = "enable", ~seen[t].raced,
         NEW i \in On(caps') \ On(caps)
  PROVE  caps'[i].filter # NoFilter
<1> DEFINE k == job[t].call.iface
<1>1. /\ Active(t) /\ caps \in Caps /\ k \in Iface /\ job[t].id \in Id
      /\ Alone(caps, job[t], seen[t])
  <2>1. Active(t)
    BY DEF Active
  <2>2. QED
    BY <2>1, ActiveFacts DEF Inv, TypeOK, Fits
<1>2. Command(t) \/ Refuse(t) \/ Lose(t)
  BY DEF Step, Version, Load, Poll, Sleep, Check, Gone, Look, Fetch, Probe, Scan, Each, Fallback,
         Recheck, Catalog, ReadFails, Queue, Commit, Reads
<1>3. \/ caps' = caps
      \/ Understood("enable", k) /\ caps' = Effect("enable", k, job[t].id)
  BY <1>2 DEF Command, Refuse, Lose, SameRouter
<1>4. CASE caps' = caps
  BY <1>4
<1>5. CASE Understood("enable", k) /\ caps' = Effect("enable", k, job[t].id)
  <2>1. k \in DOMAIN caps
    BY <1>5 DEF Understood, Present
  <2>2. Obeyed("enable", k, job[t].id, caps')
    BY <1>1, <1>5, <2>1, EffectFacts DEF Commands, Present
  <2>3. /\ DOMAIN caps' = DOMAIN caps
        /\ \A x \in DOMAIN caps' \ {k} : caps'[x] = caps[x]
        /\ k \notin On(caps) => caps'[k].filter = caps[k].filter
    BY <2>2 DEF Obeyed, Present
  <2>4. i = k
    BY <2>3 DEF On
  <2>5. caps[k].filter = job[t].id /\ job[t].id # NoFilter
    BY <1>1, <2>1, CaptureAssumption DEF Alone, Id, NoFilter
  <2>6. QED
    BY <2>3, <2>4, <2>5
<1>6. QED
  BY <1>3, <1>4, <1>5

\* start_packet_capture never enables a capture without a filter, and the packets
\* of a summary passed its own filter (FilterHolds): whatever fails, and whatever
\* other calls do, as long as they leave the captures alone.
THEOREM FilterAlways == Spec => FilterHolds
<1>1. Inv => SummaryIsOurs
  <2>1. ASSUME Inv, NEW t \in Task, report[t].op = "summary"
        PROVE  Answered(report[t], seen[t])
    <3>1. CASE Active(t)
      BY <2>1, <3>1, ActiveFacts DEF NoReport
    <3>2. CASE ~Active(t)
      BY <2>1, <3>2 DEF Inv, Good, Active
    <3>3. QED
      BY <3>1, <3>2
  <2>2. QED
    BY <2>1 DEF SummaryIsOurs, Answered
<1>2. ASSUME Inv, [Next]_vars, NEW t \in Task,
             job[t].pc = "enable" /\ job'[t] # job[t] /\ ~seen[t].raced,
             NEW i \in On(caps') \ On(caps)
      PROVE  caps'[i].filter # NoFilter
  <2>1. ASSUME NEW u \in Task, Start(u) \/ Step(u)
        PROVE  caps'[i].filter # NoFilter
    <3>1. u = t
      BY <1>2, <2>1, OwnJob
    <3>2. Step(t)
      BY <1>2, <2>1, <3>1 DEF Start, Active
    <3>3. QED
      BY <1>2, <3>2, EnableFacts
  <2>2. CASE Install \/ Traffic \/ UNCHANGED vars
    BY <1>2, <2>2 DEF Install, Traffic, vars
  <2>3. CASE Reboot
    BY <1>2, <2>3, NoCaps DEF Reboot, On
  <2>4. QED
    BY <1>2, <2>1, <2>2, <2>3 DEF Next
<1>3. Inv /\ [Next]_vars =>
        [\A t \in Task :
           job[t].pc = "enable" /\ job'[t] # job[t] /\ ~seen[t].raced =>
             \A i \in On(caps') \ On(caps) : caps'[i].filter # NoFilter]_vars
  BY <1>2
<1>4. QED
  BY <1>1, <1>3, InvAlways, PTL DEF Spec, FilterHolds, NeverUnfiltered

\* A start with a limit that answers has stopped its capture (AutoStopped).
THEOREM StopsItself == Spec => AutoStopped
<1>1. Inv /\ [Next]_vars =>
        [\A t \in Task :
           LET c == job[t].call IN
           (Active(t) /\ job'[t].pc = "idle" /\ report'[t].ok /\ c.op = "start"
              /\ c.seconds + c.packets > 0 /\ ~seen'[t].raced)
             => c.iface \notin On(caps')]_vars
  BY EndsAlways DEF Ends
<1>2. QED
  BY <1>1, InvAlways, PTL DEF Spec, AutoStopped

\* capture_flow_summary leaves no capture behind, on every path through its try
\* and its except, with any one of its requests failing (CleanedUp).
THEOREM SummaryCleansUp == Spec => CleanedUp
<1>1. Inv /\ [Next]_vars =>
        [\A t \in Task :
           (job[t].call.op = "summary" /\ Active(t) /\ job'[t].pc = "idle"
              /\ seen'[t].faults <= 1 /\ ~seen'[t].raced)
             => job[t].call.iface \notin DOMAIN caps']_vars
  BY EndsAlways DEF Ends
<1>2. QED
  BY <1>1, InvAlways, PTL DEF Spec, CleanedUp
=============================================================================
