---------------------------- MODULE DomainLists ----------------------------
(***************************************************************************)
(* The domain-list tools of tools/dns_routes.py (get, add, remove, set,    *)
(* create, delete, diff_sc_rc) and save_config of tools/txn.py, on the     *)
(* router's running and saved configuration.                               *)
(*                                                                         *)
(* Every tool call is an asyncio task of its own, and there is no lock:    *)
(* each request to the router is an await at which another call may run.   *)
(* One action is one request: a probe of a read (ScRc), the one batch      *)
(* that writes, or the save of save_config.  A batch is atomic on the      *)
(* router, but its items are executed one by one: an item the router       *)
(* refuses does not stop the ones after it, and the code does not look at  *)
(* the answer.                                                             *)
(***************************************************************************)
EXTENDS ScRc, FiniteSets

CONSTANTS Task,        \* tool calls that may be in flight together
          MaxLists,    \* bound: domain-list0 .. domain-list{MaxLists-1}
          Name,        \* descriptions of lists
          Entry,       \* domains and addresses
          Calls,       \* Calls[t]: the calls the agent may make as task t
          InitStores,  \* what rc and sc may both hold at the start
          Faults,      \* which failures may happen, a subset of FaultKinds
          MaxCalls     \* bound: the number of calls of a behaviour

FaultKinds == {"read",     \* a request of a read fails
               "reject",   \* the router refuses the item that writes a list
               "nosave",   \* a save is answered, but sc stays what it was
               "lost",     \* a writing request, or its answer, is lost
               "reboot"}   \* the router restarts

Key == 0..(MaxLists - 1)
List == [name : Name, entries : SUBSET Entry]
Store == UNION {[K -> List] : K \in SUBSET Key}

Writers == {"add", "remove", "set", "create", "delete"}
Readers == {"get", "getSaved", "diff"}
Ops == Writers \cup Readers \cup {"save"}

\* ref: the name (or key) the call gives; a new list is given a name.
Call == {c \in [op : Ops, ref : Name \cup Key, args : SUBSET Entry, save : BOOLEAN] :
           c.op = "create" => c.ref \in Name}

ASSUME ListsAssumption ==
  /\ MaxLists \in Nat \ {0}
  /\ MaxCalls \in Nat
  /\ Name # {}
  /\ Calls \in [Task -> SUBSET Call]
  /\ InitStores \subseteq Store
  /\ Faults \subseteq FaultKinds

VARIABLES rc,       \* running configuration: key -> list
          sc,       \* saved configuration
          job,      \* what each task is doing
          report,   \* the last answer each task got
          calls     \* how many calls were made

\* History, read by the properties only.
VARIABLES owed,     \* owed[k]: entries reported added to k, not asked away since
          differed, \* differed[t]: rc # sc at some moment of t's last call
          wrote     \* wrote[t]: the write of t's last call changed rc

history == <<owed, differed, wrote>>
vars == <<rc, sc, job, report, calls, owed, differed, wrote>>

-----------------------------------------------------------------------------
(* Lists in a configuration. *)

\* The entries a read finds under a key; a key that is missing has none.
Includes(f, k) == IF k \in DOMAIN f THEN f[k].entries ELSE {}

Put(f, k, v) == [x \in DOMAIN f \cup {k} |-> IF x = k THEN v ELSE f[x]]
Drop(f, k) == [x \in DOMAIN f \ {k} |-> f[x]]
Only(f, k) == [x \in DOMAIN f \cap {k} |-> f[x]]

\* `include: {no: true}' on a list, and a list written with a description and
\* includes: the router adds the includes to those it has, which is why the
\* code clears them first.
ClearInclude(f, k) ==
  IF k \in DOMAIN f THEN Put(f, k, [f[k] EXCEPT !.entries = {}]) ELSE f
MergeList(f, k, n, es) ==
  Put(f, k, [name |-> n, entries |-> Includes(f, k) \cup es])

\* The keys a name may stand for: itself when it is a key, else every list
\* with that description (the code takes the first in the router's order).
ResolveListKey(f, ref) ==
  IF ref \in DOMAIN f THEN {ref} ELSE {k \in DOMAIN f : f[k].name = ref}

\* Mutant of FirstFree: the next number is the count of the lists.
FirstFreeByCount(f) == {Cardinality(DOMAIN f)}

\* The number create_domain_list picks: the first one no list uses.
FirstFree(f) ==
  {k \in Key : k \notin DOMAIN f /\ \A m \in Key : m < k => m \in DOMAIN f}

\* diff_sc_rc reports a key when its includes differ, and nothing else.
Dirty(f, g) == \E k \in DOMAIN f \cup DOMAIN g : Includes(f, k) # Includes(g, k)

-----------------------------------------------------------------------------
(* Tasks. *)

Phases == {"idle", "read", "write", "commit", "after", "saved"}
Empty == [x \in {} |-> x]
AnyName == CHOOSE n \in Name : TRUE

\* probe, err: the read in progress.  key, desc, old: the list the call works
\* on as its first read showed it.  mine: what the last completed read showed
\* and the report still needs.
Job == [pc : Phases, call : Call, probe : Probes, err : BOOLEAN,
        key : Key, desc : Name, old : SUBSET Entry, mine : Store]

NoCall == [op |-> "get", ref |-> 0, args |-> {}, save |-> FALSE]
IdleJob == [pc |-> "idle", call |-> NoCall, probe |-> 1, err |-> FALSE,
            key |-> 0, desc |-> AnyName, old |-> {}, mine |-> Empty]

\* ok: an answer, not an exception.  hit: `created' or `deleted'.  entries:
\* `added_entries'.
Report == [op : Ops \cup {"none"}, ok : BOOLEAN, key : Key, hit : BOOLEAN,
           entries : SUBSET Entry, dirty : BOOLEAN, persisted : BOOLEAN]
NoReport == [op |-> "none", ok |-> FALSE, key |-> 0, hit |-> FALSE,
             entries |-> {}, dirty |-> FALSE, persisted |-> FALSE]

TypeOK ==
  /\ rc \in Store
  /\ sc \in Store
  /\ job \in [Task -> Job]
  /\ report \in [Task -> Report]
  /\ calls \in Nat
  /\ owed \in [Key -> SUBSET Entry]
  /\ differed \in [Task -> BOOLEAN]
  /\ wrote \in [Task -> BOOLEAN]

Init ==
  /\ rc \in InitStores
  /\ sc = rc
  /\ job = [t \in Task |-> IdleJob]
  /\ report = [t \in Task |-> NoReport]
  /\ calls = 0
  /\ owed = [k \in Key |-> {}]
  /\ differed = [t \in Task |-> FALSE]
  /\ wrote = [t \in Task |-> FALSE]

Active(t) == job[t].pc # "idle"

\* The call asked for sc to be written.
AsksSave(c) == c.op = "save" \/ (c.op \in Writers /\ c.save)

\* Every step of a call that is in flight records whether rc and sc differ.
Observe ==
  differed' = [t \in Task |-> differed[t] \/ (Active(t) /\ rc' # sc')]

\* The call ends with an exception.
Raise(t) ==
  /\ job' = [job EXCEPT ![t] = IdleJob]
  /\ report' = [report EXCEPT ![t] = [NoReport EXCEPT !.op = job[t].call.op]]

-----------------------------------------------------------------------------
Start(t) ==
  /\ ~Active(t)
  /\ calls < MaxCalls
  /\ calls' = calls + 1
  /\ \E c \in Calls[t] :
       job' = [job EXCEPT ![t] =
                 [IdleJob EXCEPT !.pc = IF c.op = "save" THEN "commit" ELSE "read",
                                 !.call = c]]
  /\ report' = [report EXCEPT ![t] = NoReport]
  /\ differed' = [differed EXCEPT ![t] = rc # sc]
  /\ wrote' = [wrote EXCEPT ![t] = FALSE]
  /\ UNCHANGED <<rc, sc, owed>>

\* The configuration the read of this phase prefers.
Preferred(t) ==
  CASE job[t].pc = "saved" -> IF job[t].call.op = "getSaved" THEN "rc" ELSE "sc"
    [] OTHER -> IF job[t].call.op = "getSaved" THEN "sc" ELSE "rc"

View(t) == Shown(ProbedRoot(Preferred(t), job[t].probe), rc, sc)

Reading(t) == job[t].pc \in {"read", "after", "saved"}

\* Mutant of ProbeNext: the last request is followed by the first.
ProbeAgain(t) ==
  /\ Reading(t)
  /\ DOMAIN View(t) = {}
  /\ job' = [job EXCEPT ![t].probe = IF @ = LastProbe THEN 1 ELSE @ + 1]
  /\ UNCHANGED <<rc, sc, report, calls, owed, wrote>>
  /\ Observe

\* A request of a read that fails, or that shows nothing: the read goes on to
\* its next request.
ProbeNext(t) ==
  /\ Reading(t)
  /\ job[t].probe < LastProbe
  /\ \/ DOMAIN View(t) = {} /\ job' = [job EXCEPT ![t].probe = @ + 1]
     \/ "read" \in Faults
        /\ job' = [job EXCEPT ![t].probe = @ + 1, ![t].err = TRUE]
  /\ UNCHANGED <<rc, sc, report, calls, owed, wrote>>
  /\ Observe

\* Nothing was found and some request of the read failed: its exception is
\* raised.
ProbeRaise(t) ==
  /\ Reading(t)
  /\ job[t].probe = LastProbe
  /\ \/ DOMAIN View(t) = {} /\ job[t].err
     \/ "read" \in Faults
  /\ Raise(t)
  /\ UNCHANGED <<rc, sc, calls, owed, wrote>>
  /\ Observe

\* The read of this phase is over and returns view.
Returns(t, view) ==
  /\ view = View(t)
  /\ DOMAIN view # {} \/ (job[t].probe = LastProbe /\ ~job[t].err)

\* The job after a completed read, in its next phase.
Fresh(t, pc) == [job[t] EXCEPT !.pc = pc, !.probe = 1, !.err = FALSE]

\* Mutant of NewEntries: add writes only what it was asked to add.
NewEntriesOnly(c, old) ==
  CASE c.op = "remove" -> old \ c.args
    [] OTHER -> c.args

\* What is written for a list that showed the entries old: the call has
\* nothing to write when that is what the list already holds.
NewEntries(c, old) ==
  CASE c.op = "add" -> old \cup c.args
    [] c.op = "remove" -> old \ c.args
    [] OTHER -> c.args
NothingToDo(c, old) == c.op \in {"add", "remove"} /\ NewEntries(c, old) = old

\* A rewrite that read sc, because rc could not be read, gives up what sc lacks.
GivenUp(t, key, old) ==
  IF job[t].call.op \in {"add", "remove"} /\ ProbedRoot("rc", job[t].probe) = "sc"
  THEN [owed EXCEPT ![key] = @ \cap old] ELSE owed

\* The first read of a call on a named list is over: the name is resolved, and
\* the list's description and entries are taken from what the read showed.
ReadNamed(t) ==
  LET c == job[t].call IN
  /\ job[t].pc = "read"
  /\ c.op \in {"add", "remove", "set", "delete", "get", "getSaved"}
  /\ \E view \in {View(t)} :
       /\ Returns(t, view)
       /\ \/ /\ ResolveListKey(view, c.ref) = {}
             /\ Raise(t)
             /\ UNCHANGED owed
          \/ /\ \E k \in ResolveListKey(view, c.ref) :
                  /\ job' = [job EXCEPT ![t] =
                       [Fresh(t, CASE c.op \in {"get", "getSaved"} -> "saved"
                                   [] NothingToDo(c, view[k].entries) -> "after"
                                   [] OTHER -> "write")
                        EXCEPT !.key = k, !.desc = view[k].name,
                               !.old = view[k].entries, !.mine = Only(view, k)]]
                  /\ owed' = GivenUp(t, k, view[k].entries)
             /\ UNCHANGED report
  /\ UNCHANGED <<rc, sc, calls, wrote>>
  /\ Observe

\* create_domain_list picks its key from what its first read showed.
ReadForCreate(t) ==
  /\ job[t].pc = "read"
  /\ job[t].call.op = "create"
  /\ Returns(t, View(t))
  /\ \E k \in FirstFree(View(t)) :
       job' = [job EXCEPT ![t] = [Fresh(t, "write") EXCEPT !.key = k]]
  /\ UNCHANGED <<rc, sc, report, calls, owed, wrote>>
  /\ Observe

\* diff_sc_rc, and the same diff after the save of save_config: rc, then sc.
ReadForDiff(t) ==
  /\ job[t].pc = "read"
  /\ job[t].call.op \in {"diff", "save"}
  /\ Returns(t, View(t))
  /\ job' = [job EXCEPT ![t] = [Fresh(t, "saved") EXCEPT !.mine = View(t)]]
  /\ UNCHANGED <<rc, sc, report, calls, owed, wrote>>
  /\ Observe

-----------------------------------------------------------------------------
(* Writes: one batch, the optional save its last item. *)

\* What the write items of the call's batch may make of rc.
Effects(j) ==
  CASE j.call.op \in {"add", "remove", "set"} ->
         LET cleared == ClearInclude(rc, j.key) IN
         {MergeList(cleared, j.key, j.desc, NewEntries(j.call, j.old))}
           \cup IF "reject" \in Faults THEN {cleared} ELSE {}
    [] j.call.op = "create" ->
         {MergeList(rc, j.key, j.call.ref, j.call.args)}
           \cup IF "reject" \in Faults THEN {rc} ELSE {}
    [] j.call.op = "delete" ->
         {Drop(rc, j.key)} \cup IF "reject" \in Faults THEN {rc} ELSE {}
    [] OTHER -> {rc}

\* Mutant of Saved: every batch saves.
SavedAlways(j) == {rc'}

\* What sc may be once the batch ran: save_payload(save) appends the save.
Saved(j) ==
  IF AsksSave(j.call)
  THEN {rc'} \cup IF "nosave" \in Faults THEN {sc} ELSE {}
  ELSE {sc}

\* Entries the call asks away are owed no longer.
Owing(j) ==
  CASE j.call.op = "remove" -> [owed EXCEPT ![j.key] = @ \ j.call.args]
    [] j.call.op = "set" -> [owed EXCEPT ![j.key] = @ \cap j.call.args]
    [] j.call.op = "delete" -> [owed EXCEPT ![j.key] = {}]
    [] OTHER -> owed

\* The writing request reaches the router; the call goes on when the answer
\* reaches it and ends with an exception when the answer is lost.
Write(t) ==
  /\ job[t].pc = "write"
  /\ rc' \in Effects(job[t])
  /\ sc' \in Saved(job[t])
  /\ owed' = Owing(job[t])
  /\ wrote' = [wrote EXCEPT ![t] = rc' # rc]
  /\ \/ job' = [job EXCEPT ![t] = [Fresh(t, "after") EXCEPT !.mine = Empty]]
        /\ UNCHANGED report
     \/ "lost" \in Faults /\ Raise(t)
  /\ UNCHANGED calls
  /\ Observe

\* The save of save_config; its answer is looked at.
Commit(t) ==
  /\ job[t].pc = "commit"
  /\ rc' = rc
  /\ \/ sc' \in Saved(job[t])
        /\ job' = [job EXCEPT ![t] = Fresh(t, "read")]
        /\ UNCHANGED report
     \/ "lost" \in Faults /\ sc' \in Saved(job[t]) /\ Raise(t)
     \/ "reject" \in Faults /\ sc' = sc /\ Raise(t)
  /\ UNCHANGED <<calls, owed, wrote>>
  /\ Observe

\* The writing request never reaches the router.
Lose(t) ==
  /\ "lost" \in Faults
  /\ job[t].pc \in {"write", "commit"}
  /\ Raise(t)
  /\ UNCHANGED <<rc, sc, calls, owed, wrote>>
  /\ Observe

\* The read of rc after a write: what the report compares and counts.
ReadAfter(t) ==
  /\ job[t].pc = "after"
  /\ Returns(t, View(t))
  /\ job' = [job EXCEPT ![t] =
               [Fresh(t, "saved") EXCEPT !.mine = Only(View(t), job[t].key)]]
  /\ UNCHANGED <<rc, sc, report, calls, owed, wrote>>
  /\ Observe

-----------------------------------------------------------------------------
(* Answers. *)

\* `dirty' as each tool computes it, from its last two reads.
DirtyFlag(j, view) ==
  CASE j.call.op \in {"diff", "save"} -> Dirty(j.mine, view)
    [] j.call.op = "delete" -> (j.key \in DOMAIN j.mine) # (j.key \in DOMAIN view)
    [] j.call.op = "create" ->
         j.key \notin DOMAIN view \/ Includes(view, j.key) # j.call.args
    [] OTHER -> Includes(j.mine, j.key) # Includes(view, j.key)

\* Mutant of Added: what was to be added was added.
AddedUnread(j) == IF j.call.op = "add" THEN j.call.args \ j.old ELSE {}

\* The entries add_domains counts as added: asked for, not there before, and
\* there in the read after the write.
Added(j) ==
  IF j.call.op = "add"
  THEN (j.call.args \ j.old) \cap Includes(j.mine, j.key)
  ELSE {}

Answer(j, view) ==
  [op |-> j.call.op, ok |-> TRUE, key |-> j.key,
   hit |-> \/ j.call.op = "create" /\ j.key \in DOMAIN j.mine
           \/ j.call.op = "delete" /\ j.key \notin DOMAIN j.mine,
   entries |-> Added(j),
   dirty |-> DirtyFlag(j, view),
   persisted |-> AsksSave(j.call)]

\* The last read, of the other configuration, is over: the call answers.
Finish(t) ==
  /\ job[t].pc = "saved"
  /\ Returns(t, View(t))
  /\ report' = [report EXCEPT ![t] = Answer(job[t], View(t))]
  /\ owed' = [owed EXCEPT ![job[t].key] = @ \cup Added(job[t])]
  /\ job' = [job EXCEPT ![t] = IdleJob]
  /\ UNCHANGED <<rc, sc, calls, wrote>>
  /\ Observe

\* The router restarts from sc.  Every connection is lost: the calls in flight
\* fail at their next request and have done nothing in between.
Reboot ==
  /\ "reboot" \in Faults
  /\ rc' = sc
  /\ job' = [t \in Task |-> IdleJob]
  /\ report' = [t \in Task |-> IF Active(t)
                               THEN [NoReport EXCEPT !.op = job[t].call.op]
                               ELSE report[t]]
  /\ owed' = [k \in Key |-> owed[k] \cap Includes(sc, k)]
  /\ UNCHANGED <<sc, calls, differed, wrote>>

Step(t) ==
  \/ ProbeNext(t) \/ ProbeRaise(t)
  \/ ReadNamed(t) \/ ReadForCreate(t) \/ ReadForDiff(t)
  \/ Write(t) \/ Commit(t) \/ Lose(t)
  \/ ReadAfter(t) \/ Finish(t)

Next == Reboot \/ \E t \in Task : Start(t) \/ Step(t)

Spec == Init /\ [][Next]_vars

\* Every request has a timeout, and the event loop resumes a task whose
\* request is over.
FairSpec == Spec /\ \A t \in Task : WF_vars(Step(t))

-----------------------------------------------------------------------------
(* What concurrency and failures leave standing. *)

\* rc changes one list per request, and sc changes only on behalf of a call in
\* flight that asked for a save, and then becomes a copy of rc (the write
\* batches of dns_routes.py and save_config).
SC == INSTANCE SavedConfig
        WITH Client <- Task, Slot <- Key, Thing <- List,
             running <- rc, saved <- sc,
             open <- {t \in Task : Active(t)},
             consent <- {t \in Task : Active(t) /\ AsksSave(job[t].call)}

ImplementsSavedConfig == SC!SCSpec

\* Every call that starts answers or fails: no read goes round in circles, and
\* no phase waits for another call (all tools of dns_routes.py, save_config).
CallsEnd == \A t \in Task : Active(t) ~> ~Active(t)

-----------------------------------------------------------------------------
(* What calls that do not overlap, or work on lists of their own, rely on. *)

\* The write of t's call ran and was answered.
Answered(t) == job[t].pc = "write" /\ job'[t].pc = "after"

\* t's call has just answered.
Finished(t) == job[t].pc = "saved" /\ job'[t].pc = "idle" /\ report'[t].ok

\* No write changes the description of a list that stays: create_domain_list
\* never takes the key of an existing list, and a rewrite keeps the name.
NamesStable ==
  [][\A t \in Task : Answered(t) =>
       \A k \in DOMAIN rc \cap DOMAIN rc' : rc'[k].name = rc[k].name]_vars

\* Entries that add_domains reported as added stay in rc until a call asks
\* them away, a reboot drops what was not saved, the list is deleted, or a
\* rewrite could not read rc and took sc for it: no later rewrite of the list
\* from an old read of rc loses them (dns_routes.py:33-48).
NoLostAdd == \A k \in Key : owed[k] \subseteq Includes(rc, k)

\* `added_entries', `created' and `deleted' are true of rc when they are
\* reported, and a list is called created only by a call whose write changed rc
\* ("created only if rc really changed").
ReportsHonest ==
  [][\A t \in Task : Finished(t) =>
       LET r == report'[t] IN
       /\ r.entries \subseteq Includes(rc, r.key)
       /\ r.op = "create" /\ r.hit => r.key \in DOMAIN rc /\ wrote[t]
       /\ r.op = "delete" /\ r.hit => r.key \notin DOMAIN rc]_vars

\* `dirty' is right both ways.  dirty=true means that sc and rc differed at some
\* moment of the call (not for a list the router refused to create, which is
\* reported dirty too).  As long as neither configuration is empty, a call that
\* answers dirty=false about a list, one it really created or deleted if that was
\* its purpose, leaves it with the same includes in rc and sc.
DirtyIsRight ==
  [][\A t \in Task : Finished(t) =>
       LET r == report'[t] IN
       /\ r.dirty => differed'[t] \/ (r.op = "create" /\ ~r.hit)
       /\ ~r.dirty /\ DOMAIN rc # {} /\ DOMAIN sc # {} =>
            IF r.op \in {"diff", "save"} THEN ~Dirty(rc, sc)
            ELSE (r.op \in {"create", "delete"} => r.hit) =>
                   Includes(rc, r.key) = Includes(sc, r.key)]_vars

\* The answers of add, remove, create, delete, diff_sc_rc and save_config are
\* true of the router, whatever was refused, lost or not saved before.
AnswersHold == ReportsHonest /\ DirtyIsRight
=============================================================================
