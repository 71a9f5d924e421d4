------------------------------ MODULE Capture -------------------------------
(***************************************************************************)
(* The packet-capture tools of tools/capture.py and the component tools    *)
(* they rest on (tools/components.py), one action per request.             *)
(*                                                                         *)
(* The router keeps one capture per interface, which is created,           *)
(* configured, enabled (started), disabled (stopped, which leaves a file)  *)
(* and removed by single commands; nothing ties a capture to the call that *)
(* made it.  capture_flow_summary runs the tools start, stop, download and *)
(* delete one after the other, and when one of them fails, stop and delete *)
(* once more.                                                              *)
(*                                                                         *)
(* Buffer size, capture size and direction are set by three requests that  *)
(* are one phase here ("tune"); a filter is known by the call that set it. *)
(***************************************************************************)
EXTENDS Naturals, FiniteSets

CONSTANTS Task,         \* tool calls that may be in flight together
          Iface,        \* interfaces of the router
          Component,    \* firmware components
          Monitor,      \* the component that captures packets
          Calls,        \* Calls[t]: the calls the agent may make as task t
          InitCaps,     \* captures there may be at the start
          InitComps,    \* components that may be installed at the start
          Faults,       \* which failures may happen, a subset of FaultKinds
          MaxFrames,    \* bound: packets counted in a capture
          MaxSeconds,   \* bound: the longest `max_seconds'
          MaxFaults,    \* bound: failures during one call
          MaxCalls      \* bound: the number of calls of a behaviour

FaultKinds == {"read",     \* a read fails
               "refuse",   \* the router refuses a command
               "lost",     \* a command, or its answer, is lost
               "reboot"}   \* the router restarts

Id == 1..MaxCalls    \* calls, in the order they were made
NoFilter == 0

\* filter: the call whose filter is set.  under: the filters under which the
\* packets of the last session were captured.  file: a pcap is there.
Cap == [filter : 0..MaxCalls, on : BOOLEAN, frames : 0..MaxFrames,
        under : SUBSET (0..MaxCalls), file : BOOLEAN]
NewCap == [filter |-> NoFilter, on |-> FALSE, frames |-> 0, under |-> {}, file |-> FALSE]
Caps == UNION {[S -> Cap] : S \in SUBSET Iface}

CaptureOps == {"start", "stop", "delete", "download", "summary"}
ComponentOps == {"install", "remove", "ensure", "components"}
Ops == CaptureOps \cup ComponentOps \cup {"status", "list"}

\* seconds, packets: `max_seconds', `max_packets'; 0 stands for None.
Call == [op : Ops, iface : Iface, seconds : 0..MaxSeconds, packets : 0..MaxFrames,
         comp : Component, commit : BOOLEAN]

ASSUME CaptureAssumption ==
  /\ Iface # {}
  /\ Monitor \in Component
  /\ {MaxFrames, MaxSeconds, MaxFaults, MaxCalls} \subseteq Nat
  /\ MaxCalls > 0
  /\ Calls \in [Task -> SUBSET Call]
  /\ InitCaps \subseteq Caps
  /\ InitComps \subseteq SUBSET Component
  /\ Faults \subseteq FaultKinds

VARIABLES caps,       \* the captures of the router
          installed,  \* the components it runs
          selected,   \* the components it should run after the next commit
          committing, \* a commit was accepted and is not done
          job,        \* what each task is doing
          report,     \* the last answer each task got
          calls       \* how many calls were made

\* History, read by the properties only: what happened during t's last call.
VARIABLE seen

vars == <<caps, installed, selected, committing, job, report, calls, seen>>

-----------------------------------------------------------------------------
(* Tasks. *)

Reads == {"version", "load", "poll", "check", "gone", "look", "probe", "scan", "each",
          "fallback", "recheck", "catalog"}
Commands == {"create", "tune", "filter", "enable", "autostop", "disable", "drop"}
CompCommands == {"queue", "commit"}
Phases == Reads \cup Commands \cup CompCommands \cup {"idle", "sleep", "fetch"}

Tools == Ops \ {"summary"}

\* tool: the tool that runs now.  left: seconds until the deadline.  cleanup: a
\* tool of a summary has failed.  comps: the components of show/version.  items:
\* what rc listed.  todo: what a scan has left to read; found, running: what it
\* found.  got: the filters of the packets downloaded.
Job == [pc : Phases, call : Call, tool : Tools, id : Id, left : 0..MaxSeconds,
        cleanup : BOOLEAN, comps : SUBSET Component, items : SUBSET Iface,
        todo : SUBSET Iface, found : SUBSET Iface, running : SUBSET Iface,
        got : SUBSET (0..MaxCalls)]

AnyCall == [op |-> "stop", iface |-> CHOOSE i \in Iface : TRUE, seconds |-> 0,
            packets |-> 0, comp |-> Monitor, commit |-> FALSE]
IdleJob == [pc |-> "idle", call |-> AnyCall, tool |-> "stop", id |-> 1, left |-> 0,
            cleanup |-> FALSE, comps |-> {}, items |-> {}, todo |-> {}, found |-> {},
            running |-> {}, got |-> {}]

\* hit: `deleted', `ok' of a download, `monitor_installed', `committed'.
Report == [op : Ops \cup {"none"}, ok : BOOLEAN, id : Id, hit : BOOLEAN,
           items : SUBSET Iface, running : SUBSET Iface, pending : SUBSET Component,
           got : SUBSET (0..MaxCalls)]
NoReport == [op |-> "none", ok |-> FALSE, id |-> 1, hit |-> FALSE, items |-> {},
             running |-> {}, pending |-> {}, got |-> {}]

\* faults: failures of the call's requests.  raced: something else changed the
\* captures or the components.  dirty: the capture was enabled when the call began.
\* there, ran, had, due: the captures that existed, those that were enabled, the
\* components that were installed and those not as selected, at some moment.
Seen == [faults : 0..MaxFaults, raced : BOOLEAN, dirty : BOOLEAN, there : SUBSET Iface,
         ran : SUBSET Iface, had : SUBSET Component, due : SUBSET Component]

TypeOK ==
  /\ caps \in Caps
  /\ installed \subseteq Component
  /\ selected \subseteq Component
  /\ committing \in BOOLEAN
  /\ job \in [Task -> Job]
  /\ report \in [Task -> Report]
  /\ calls \in 0..MaxCalls
  /\ seen \in [Task -> Seen]

Present == DOMAIN caps
On(f) == {i \in DOMAIN f : f[i].on}
Differing(S, T) == (S \ T) \cup (T \ S)
NothingSeen == [faults |-> 0, raced |-> FALSE, dirty |-> FALSE,
                there |-> {}, ran |-> {}, had |-> {}, due |-> {}]

Init ==
  /\ installed \in InitComps
  /\ selected = installed
  /\ committing = FALSE
  /\ caps \in {f \in InitCaps : Monitor \in installed \/ DOMAIN f = {}}
  /\ job = [t \in Task |-> IdleJob]
  /\ report = [t \in Task |-> NoReport]
  /\ calls = 0
  /\ seen = [t \in Task |-> NothingSeen]

Active(t) == job[t].pc # "idle"

\* A step in which task t fails n requests.
Observe(t, n) ==
  seen' = [u \in Task |->
    IF ~Active(u) THEN seen[u]
    ELSE [seen[u] EXCEPT
            !.faults = @ + (IF u = t THEN n ELSE 0),
            !.raced = @ \/ (u # t /\ (caps' # caps \/ installed' # installed)),
            !.there = @ \cup DOMAIN caps', !.ran = @ \cup On(caps'),
            !.had = @ \cup installed', !.due = @ \cup Differing(installed', selected')]]

SameRouter == UNCHANGED <<caps, installed, selected, committing>>
SameComponents == UNCHANGED <<installed, selected, committing>>

Quiet(t) == SameRouter /\ UNCHANGED calls /\ Observe(t, 0)

Goto(t, j) == job' = [job EXCEPT ![t] = j] /\ UNCHANGED report
Answer(t, r) == job' = [job EXCEPT ![t] = IdleJob] /\ report' = [report EXCEPT ![t] = r]
Raise(t) == Answer(t, [NoReport EXCEPT !.op = job[t].call.op, !.id = job[t].id])

\* The first request of a tool.
Enter(j, tool) ==
  [j EXCEPT !.tool = tool, !.pc = IF tool \in {"install", "remove"} THEN "queue" ELSE "version"]

\* Mutant of ToolFails: a summary whose start failed has nothing to clean up.
ToolFailsInStart(t) ==
  LET j == job[t] IN
  CASE j.call.op = "summary" /\ ~j.cleanup /\ j.tool # "start" ->
         Goto(t, Enter([j EXCEPT !.cleanup = TRUE], "stop"))
    [] j.call.op = "summary" /\ j.cleanup /\ j.tool = "stop" -> Goto(t, Enter(j, "delete"))
    [] OTHER -> Raise(t)

\* The running tool raises an exception: a summary stops and deletes the capture
\* first, whatever comes of it.
ToolFails(t) ==
  LET j == job[t] IN
  CASE j.call.op = "summary" /\ ~j.cleanup ->
         Goto(t, Enter([j EXCEPT !.cleanup = TRUE], "stop"))
    [] j.call.op = "summary" /\ j.cleanup /\ j.tool = "stop" -> Goto(t, Enter(j, "delete"))
    [] OTHER -> Raise(t)

\* The tool returns, with job j: a summary goes on with the next one.
ToolReturns(t, j, hit) ==
  CASE j.call.op = "summary" /\ j.tool = "start" ->
         Goto(t, Enter(j, IF j.running # {} THEN "stop" ELSE "download"))
    [] j.call.op = "summary" /\ j.tool = "stop" ->
         Goto(t, Enter(j, IF j.cleanup THEN "delete" ELSE "download"))
    [] j.call.op = "summary" /\ j.tool = "download" -> Goto(t, Enter(j, "delete"))
    [] j.call.op = "summary" /\ j.tool = "delete" /\ j.cleanup -> Raise(t)
    [] OTHER -> Answer(t, [op |-> j.call.op, ok |-> TRUE, id |-> j.id, hit |-> hit,
                           items |-> j.items \cup j.found, running |-> j.running,
                           pending |-> {}, got |-> j.got])

Start(t) ==
  /\ ~Active(t)
  /\ calls < MaxCalls
  /\ calls' = calls + 1
  /\ \E c \in Calls[t] :
       /\ job' = [job EXCEPT ![t] =
            Enter([IdleJob EXCEPT !.call = c, !.id = calls'],
                  IF c.op = "summary" THEN "start" ELSE c.op)]
       /\ seen' = [seen EXCEPT ![t] =
            [NothingSeen EXCEPT !.dirty = c.iface \in On(caps), !.there = Present,
                                !.ran = On(caps), !.had = installed,
                                !.due = Differing(installed, selected)]]
  /\ report' = [report EXCEPT ![t] = NoReport]
  /\ SameRouter

-----------------------------------------------------------------------------
(* Reads. *)

\* show/version: every tool but those of components.py needs the component,
\* the ones that only look answer without it.
Version(t) ==
  LET j == [job[t] EXCEPT !.comps = installed] IN
  /\ j.pc = "version"
  /\ CASE j.tool = "status" -> Goto(t, [j EXCEPT !.pc = "probe"])
       [] j.tool = "components" -> Goto(t, [j EXCEPT !.pc = "catalog"])
       [] j.tool = "ensure" ->
            Goto(t, IF Monitor \in installed THEN Enter(j, "status")
                    ELSE [j EXCEPT !.pc = "queue"])
       [] j.tool = "list" ->
            IF Monitor \in installed THEN Goto(t, [j EXCEPT !.pc = "load"])
            ELSE Answer(t, [NoReport EXCEPT !.op = "list", !.id = j.id])
       [] OTHER ->
            IF Monitor \in installed
            THEN Goto(t, [j EXCEPT !.pc = CASE j.tool = "start" -> "load"
                                            [] j.tool = "stop" -> "disable"
                                            [] j.tool = "delete" -> "drop"
                                            [] OTHER -> "look"])
            ELSE ToolFails(t)
  /\ Quiet(t)

\* start_packet_capture creates only a capture it does not find in rc.
Load(t) ==
  LET j == job[t] IN
  /\ j.pc = "load"
  /\ CASE j.tool = "start" ->
            Goto(t, [j EXCEPT !.pc = IF j.call.iface \in Present THEN "tune" ELSE "create"])
       [] j.tool = "list" -> Goto(t, [j EXCEPT !.pc = "scan", !.items = Present])
       [] OTHER -> ToolReturns(t, j, Monitor \in j.comps)
  /\ Quiet(t)

\* Mutant of Enough: no deadline.
EnoughPackets(j) ==
  \/ j.call.iface \notin On(caps)
  \/ j.call.packets > 0 /\ caps[j.call.iface].frames >= j.call.packets

\* Why the watch loop ends.  Without max_seconds its deadline is not looked at.
Enough(j) ==
  \/ j.call.iface \notin On(caps)
  \/ j.call.packets > 0 /\ caps[j.call.iface].frames >= j.call.packets
  \/ j.call.seconds > 0 /\ j.left = 0

\* One turn of the watch loop of start_packet_capture, ...
Poll(t) ==
  /\ job[t].pc = "poll"
  /\ Goto(t, [job[t] EXCEPT !.pc = IF Enough(job[t]) THEN "autostop" ELSE "sleep"])
  /\ Quiet(t)

\* ... and the second after it, or longer when the request was slow.
Sleep(t) ==
  /\ job[t].pc = "sleep"
  /\ \E n \in {k \in 0..MaxSeconds : k < job[t].left \/ k = 0} :
       Goto(t, [job[t] EXCEPT !.pc = "poll", !.left = n])
  /\ Quiet(t)

\* The status at the end of start and stop.
Check(t) ==
  /\ job[t].pc = "check"
  /\ ToolReturns(t, [job[t] EXCEPT !.running = {job[t].call.iface} \cap On(caps)], TRUE)
  /\ Quiet(t)

\* delete_packet_capture does not answer while rc still shows the capture.
Gone(t) ==
  /\ job[t].pc = "gone"
  /\ IF job[t].call.iface \in Present THEN ToolFails(t) ELSE ToolReturns(t, job[t], TRUE)
  /\ Quiet(t)

\* download_packet_capture: only of a capture that is stopped and has a file.
Look(t) ==
  LET i == job[t].call.iface IN
  /\ job[t].pc = "look"
  /\ IF i \in Present /\ ~caps[i].on /\ caps[i].file
     THEN Goto(t, [job[t] EXCEPT !.pc = "fetch"])
     ELSE ToolReturns(t, job[t], FALSE)
  /\ Quiet(t)

\* The file may be gone by then.
Fetch(t) ==
  LET i == job[t].call.iface IN
  /\ job[t].pc = "fetch"
  /\ IF i \in Present /\ caps[i].file
     THEN ToolReturns(t, [job[t] EXCEPT !.got = caps[i].under], TRUE)
     ELSE ToolFails(t)
  /\ Quiet(t)

\* get_packet_capture_status asks whether the router knows captures at all.
Probe(t) ==
  LET j == job[t] IN
  /\ j.pc = "probe"
  /\ IF Monitor \in j.comps \cup installed THEN Goto(t, [j EXCEPT !.pc = "scan"])
     ELSE ToolReturns(t, j, FALSE)
  /\ Quiet(t)

\* _status_all: the captures of rc, then each one's status; when that shows
\* nothing, the status of all.
Scan(t) ==
  LET j == job[t] IN
  /\ j.pc = "scan"
  /\ Goto(t, [j EXCEPT !.todo = Present, !.pc = IF Present = {} THEN "fallback" ELSE "each"])
  /\ Quiet(t)

StatusOf(S) == S \cap On(caps)

Scanned(t, j) ==
  IF j.tool = "list" THEN ToolReturns(t, j, TRUE) ELSE Goto(t, [j EXCEPT !.pc = "load"])

Each(t) ==
  LET j == job[t] IN
  /\ j.pc = "each"
  /\ \E i \in j.todo :
       LET k == [j EXCEPT !.todo = @ \ {i}, !.found = @ \cup ({i} \cap Present),
                          !.running = @ \cup StatusOf({i})] IN
       CASE k.todo # {} -> Goto(t, k)
         [] k.todo = {} /\ k.found = {} -> Goto(t, [k EXCEPT !.pc = "fallback"])
         [] OTHER -> Scanned(t, k)
  /\ Quiet(t)

Fallback(t) ==
  LET j == job[t] IN
  /\ j.pc = "fallback"
  /\ Scanned(t, [j EXCEPT !.found = Present, !.running = StatusOf(Present)])
  /\ Quiet(t)

\* ensure_packet_capture looks again after the commit.
Recheck(t) ==
  /\ job[t].pc = "recheck"
  /\ ToolReturns(t, job[t], Monitor \in installed)
  /\ Quiet(t)

\* Mutant of Catalog: the next commit is taken for what is installed.
CatalogCommitted(t) ==
  LET j == job[t] IN
  /\ j.pc = "catalog"
  /\ Answer(t, [NoReport EXCEPT !.op = "components", !.ok = TRUE, !.id = j.id,
                                !.pending = selected])
  /\ Quiet(t)

\* list_components: what is selected and was not installed, or the other way round.
Catalog(t) ==
  LET j == job[t] IN
  /\ j.pc = "catalog"
  /\ Answer(t, [NoReport EXCEPT !.op = "components", !.ok = TRUE, !.id = j.id,
                                !.pending = Differing(j.comps, selected)])
  /\ Quiet(t)

\* A read fails.  get_packet_capture_status goes on without an answer; all the
\* other tools raise.
ReadFails(t) ==
  LET j == job[t] IN
  /\ "read" \in Faults
  /\ seen[t].faults < MaxFaults
  /\ j.pc \in Reads \cup {"fetch"}
  /\ CASE j.tool = "status" /\ j.pc = "probe" ->
            IF Monitor \in j.comps THEN Goto(t, [j EXCEPT !.pc = "scan"])
            ELSE ToolReturns(t, j, FALSE)
       [] j.tool = "status" /\ j.pc \notin {"version", "probe"} ->
            ToolReturns(t, [j EXCEPT !.found = {}, !.running = {}], Monitor \in j.comps)
       [] OTHER -> ToolFails(t)
  /\ SameRouter
  /\ UNCHANGED calls
  /\ Observe(t, 1)

-----------------------------------------------------------------------------
(* Commands. *)

\* What the router makes of a command about interface i by call id.
Effect(pc, i, id) ==
  CASE pc = "create" -> IF i \in Present THEN caps
                        ELSE [k \in Present \cup {i} |-> IF k = i THEN NewCap ELSE caps[k]]
    [] pc = "filter" -> [caps EXCEPT ![i].filter = id]
    [] pc = "enable" -> IF caps[i].on THEN caps
                        ELSE [caps EXCEPT ![i] = [NewCap EXCEPT !.filter = caps[i].filter,
                                                                !.on = TRUE]]
    [] pc \in {"disable", "autostop"} ->
         [caps EXCEPT ![i].on = FALSE, ![i].file = caps[i].file \/ caps[i].on]
    [] pc = "drop" -> [k \in Present \ {i} |-> caps[k]]
    [] OTHER -> caps

Understood(pc, i) == Monitor \in installed /\ (pc = "create" \/ i \in Present)

\* Mutant of Following: a capture with a limit is not stopped after the loop.
FollowingUnstopped(j) ==
  CASE j.pc = "create" -> "tune" [] j.pc = "tune" -> "filter" [] j.pc = "filter" -> "enable"
    [] j.pc = "drop" -> "gone" [] OTHER -> "check"

\* The phase after an accepted command.
Following(j) ==
  CASE j.pc = "create" -> "tune"
    [] j.pc = "tune" -> "filter"
    [] j.pc = "filter" -> "enable"
    [] j.pc = "enable" -> IF j.call.seconds > 0 \/ j.call.packets > 0 THEN "poll" ELSE "check"
    [] j.pc = "drop" -> "gone"
    [] OTHER -> "check"

\* Mutant of Refused: what the router answers to a command is not looked at.
RefusedUnseen(t) ==
  Goto(t, [job[t] EXCEPT !.pc = Following(job[t]), !.left = job[t].call.seconds])

\* The router answers a command with an error.
Refused(t) == ToolFails(t)

\* A command reaches the router and its answer comes back.
Command(t) ==
  LET j == job[t] IN
  /\ j.pc \in Commands
  /\ IF Understood(j.pc, j.call.iface)
     THEN /\ caps' = Effect(j.pc, j.call.iface, j.id)
          /\ Goto(t, [j EXCEPT !.pc = Following(j), !.left = j.call.seconds])
     ELSE UNCHANGED caps /\ Refused(t)
  /\ SameComponents
  /\ UNCHANGED calls
  /\ Observe(t, 0)

\* The router refuses a command that it might have obeyed.
Refuse(t) ==
  LET j == job[t] IN
  /\ "refuse" \in Faults
  /\ seen[t].faults < MaxFaults
  /\ j.pc \in Commands \cup CompCommands
  /\ IF j.pc \in Commands THEN Refused(t) ELSE ToolFails(t)
  /\ SameRouter
  /\ UNCHANGED calls
  /\ Observe(t, 1)

\* The command is lost, or obeyed and its answer is lost.
Lose(t) ==
  LET j == job[t] IN
  /\ "lost" \in Faults
  /\ seen[t].faults < MaxFaults
  /\ j.pc \in Commands
  /\ \/ UNCHANGED caps
     \/ /\ Understood(j.pc, j.call.iface)
        /\ caps' = Effect(j.pc, j.call.iface, j.id)
  /\ ToolFails(t)
  /\ SameComponents
  /\ UNCHANGED calls
  /\ Observe(t, 1)

-----------------------------------------------------------------------------
(* Components. *)

Wanted(j) == IF j.tool = "ensure" THEN Monitor ELSE j.call.comp

\* install_component and remove_component change the selection of the next
\* commit, which all calls share.
Queue(t) ==
  LET j == job[t] IN
  /\ j.pc = "queue"
  /\ selected' = IF j.tool = "remove" THEN selected \ {Wanted(j)} ELSE selected \cup {Wanted(j)}
  /\ IF j.tool = "ensure" \/ j.call.commit THEN Goto(t, [j EXCEPT !.pc = "commit"])
     ELSE ToolReturns(t, j, FALSE)
  /\ UNCHANGED <<caps, installed, committing, calls>>
  /\ Observe(t, 0)

\* The router accepts the commit: it installs, at some time, what is selected.
Commit(t) ==
  LET j == job[t] IN
  /\ j.pc = "commit"
  /\ committing' = TRUE
  /\ IF j.tool = "ensure" THEN Goto(t, [j EXCEPT !.pc = "recheck"])
     ELSE ToolReturns(t, j, TRUE)
  /\ UNCHANGED <<caps, installed, selected, calls>>
  /\ Observe(t, 0)

\* The captures go with their component.
Install ==
  /\ committing
  /\ committing' = FALSE
  /\ installed' = selected
  /\ caps' = IF Monitor \in selected THEN caps ELSE [i \in {} |-> NewCap]
  /\ seen' = [u \in Task |-> IF Active(u) THEN [seen[u] EXCEPT !.raced = TRUE, !.had = @ \cup installed']
                             ELSE seen[u]]
  /\ UNCHANGED <<selected, job, report, calls>>

-----------------------------------------------------------------------------
\* A packet that the filter lets through.
Traffic ==
  /\ \E i \in On(caps) :
       /\ caps[i].frames < MaxFrames
       /\ caps' = [caps EXCEPT ![i].frames = @ + 1, ![i].under = @ \cup {caps[i].filter}]
  /\ SameComponents
  /\ UNCHANGED <<job, report, calls, seen>>

\* Captures are not saved, so there is nothing left to clean up; the calls in
\* flight fail.
Reboot ==
  /\ "reboot" \in Faults
  /\ caps' = [i \in {} |-> NewCap]
  /\ job' = [t \in Task |-> IdleJob]
  /\ report' = [t \in Task |-> IF Active(t)
                               THEN [NoReport EXCEPT !.op = job[t].call.op, !.id = job[t].id]
                               ELSE report[t]]
  /\ SameComponents
  /\ UNCHANGED <<calls, seen>>

Step(t) ==
  \/ Version(t) \/ Load(t) \/ Poll(t) \/ Sleep(t) \/ Check(t) \/ Gone(t)
  \/ Look(t) \/ Fetch(t) \/ Probe(t) \/ Scan(t) \/ Each(t) \/ Fallback(t) \/ Recheck(t)
  \/ Catalog(t)
  \/ ReadFails(t) \/ Command(t) \/ Refuse(t) \/ Lose(t) \/ Queue(t) \/ Commit(t)

Next == Traffic \/ Install \/ Reboot \/ \E t \in Task : Start(t) \/ Step(t)

Spec == Init /\ [][Next]_vars

\* Every request has a timeout and a sleep ends; packets need not come.
FairSpec == Spec /\ \A t \in Task : WF_vars(Step(t))

-----------------------------------------------------------------------------
(* Properties. *)

\* capture_flow_summary leaves no capture behind on its interface, whether it
\* answers or fails, as long as no more than one of its requests failed and
\* nothing else touched the captures.
CleanedUp ==
  [][\A t \in Task :
       (job[t].call.op = "summary" /\ Active(t) /\ job'[t].pc = "idle"
          /\ seen'[t].faults <= 1 /\ ~seen'[t].raced)
         => job[t].call.iface \notin DOMAIN caps']_vars

\* The packets of a summary were captured under the filter of that summary,
\* unless a capture was running before it or another call interfered.
SummaryIsOurs ==
  \A t \in Task :
    report[t].op = "summary" /\ report[t].ok /\ ~seen[t].raced /\ ~seen[t].dirty
      => report[t].got \subseteq {report[t].id}

\* No tool enables a capture that has no filter ("default capture of entire WAN
\* is refused"), unless another call replaced the capture meanwhile.
NeverUnfiltered ==
  [][\A t \in Task :
       job[t].pc = "enable" /\ job'[t] # job[t] /\ ~seen[t].raced =>
         \A i \in On(caps') \ On(caps) : caps'[i].filter # NoFilter]_vars

\* A start with a limit that answers has stopped its capture, unless another
\* call started it again.
AutoStopped ==
  [][\A t \in Task :
       LET c == job[t].call IN
       (Active(t) /\ job'[t].pc = "idle" /\ report'[t].ok /\ c.op = "start"
          /\ c.seconds + c.packets > 0 /\ ~seen'[t].raced)
         => c.iface \notin On(caps')]_vars

\* What the reading tools list was there, and what they call running was
\* running, at some moment of the call.
ShownWereThere ==
  \A t \in Task :
    report[t].op \in {"status", "list"} =>
      report[t].items \subseteq seen[t].there /\ report[t].running \subseteq seen[t].ran

\* What list_components calls pending was selected and not installed, or the
\* other way round, at some moment of the call, although its two reads may fall
\* before and after a commit.
PendingWasPending == \A t \in Task : report[t].pending \subseteq seen[t].due

\* The types, and that what the reading tools show was there.
CaptureInv == TypeOK /\ ShownWereThere /\ PendingWasPending

\* No capture without a filter is started, and a summary shows what passed its own.
FilterHolds == []SummaryIsOurs /\ NeverUnfiltered

\* Every call ends, the watch loop too when it was given max_seconds.
CallsEnd ==
  \A t \in Task :
    (Active(t) /\ (job[t].call.packets > 0 => job[t].call.seconds > 0)) ~> ~Active(t)
=============================================================================
