----------------------------- MODULE SiteToSite -----------------------------
(***************************************************************************)
(* The write tools of tools/ipsec.py for site-to-site connections: create  *)
(* (which is also update by name, and clone when a source is given),       *)
(* update, set_ipsec_state, delete and rename.                             *)
(*                                                                         *)
(* None of them is one request.  A create writes the profile, reads it     *)
(* back, enables its crypto map, switches the ipsec service on, saves and  *)
(* reads again; a rename is a create under the new name and a delete of    *)
(* the old one, and has a handler that takes the new profile back when a   *)
(* request in between fails.  One action is one request.                   *)
(*                                                                         *)
(* Of a profile three things matter: its pre-shared key, whether its       *)
(* crypto map is enabled, and everything else (`data'), which is what      *)
(* _verify_rc_against_payload compares.  A missing key it only warns of.   *)
(***************************************************************************)
EXTENDS Naturals, Sequences, Functions

CONSTANTS Task,       \* tool calls that may be in flight together
          Name,       \* names of connections
          Psk, Data,  \* pre-shared keys; what else a profile says
          None,       \* a parameter left out, a profile without a key
          Unfit,      \* data _s2s_flat_payload refuses to send
          Calls,      \* Calls[t]: the calls the agent may make as task t
          InitConns,  \* the connections there may be at the start
          Faults,     \* which failures may happen
          MaxFaults,  \* bound: how many of them in a behaviour
          MaxCalls    \* bound: how many calls in a behaviour

FaultKinds == {"read",    \* a GET fails
               "refuse",  \* the router refuses a write
               "lost",    \* a write, or its answer, is lost
               "mangle",  \* the router stores other data than it was sent, or no key
               "nosave",  \* a save is answered and not made
               "reboot"}  \* the router restarts

Profile == [psk : Psk \cup {None}, data : Data, on : BOOLEAN]
Conns == UNION {[N -> Profile] : N \in SUBSET Name}
Config == [conn : Conns, service : BOOLEAN]

Ops == {"create", "update", "state", "delete", "rename"}

\* from: the source of a create, the old name of a rename.  enable: what
\* happens to the crypto map.
Call == {c \in [op : Ops, name : Name, from : Name \cup {None}, psk : Psk \cup {None},
                data : Data \cup {None}, enable : {"on", "off", "keep"}, save : BOOLEAN] :
           /\ c.op = "rename" => c.from \in Name \ {c.name} /\ c.psk = None
           /\ c.op = "create" /\ c.from = None => c.data # None
           /\ c.op \in {"create", "state"} => c.enable # "keep"}

ASSUME S2SAssumption ==
  /\ None \notin Psk \cup Data \cup Name
  /\ Unfit \subseteq Data
  /\ Data # {} /\ Name # {}
  /\ Calls \in [Task -> SUBSET Call]
  /\ InitConns \subseteq Conns
  /\ Faults \subseteq FaultKinds
  /\ MaxFaults \in Nat /\ MaxCalls \in Nat

VARIABLES rc,      \* running configuration
          sc,      \* saved configuration
          job,     \* what each task is doing
          report,  \* the last answer each task got
          calls,   \* how many calls were made
          faults   \* the failures so far, in order

\* History, read by the properties only: the keys nobody asked away.
VARIABLE kept

vars == <<rc, sc, job, report, calls, faults, kept>>

-----------------------------------------------------------------------------
(* Connections. *)

\* What a write leaves under a name; the crypto map of a profile that was
\* there stays as it was, that of a new one starts as the firmware likes.
Applied(c, n, p, d) ==
  {[c EXCEPT !.conn = [m \in DOMAIN c.conn \cup {n} |->
       IF m = n THEN [psk |-> p, data |-> d, on |-> on] ELSE c.conn[m]]] :
     on \in IF n \in DOMAIN c.conn THEN {c.conn[n].on} ELSE BOOLEAN}
Removed(c, n) == [c EXCEPT !.conn = [m \in DOMAIN c.conn \ {n} |-> c.conn[m]]]
Switched(c, n, on) == [c EXCEPT !.conn = [c.conn EXCEPT ![n].on = on]]

Keys(c) == {c.conn[n].psk : n \in DOMAIN c.conn} \ {None}

-----------------------------------------------------------------------------
(* Tasks. *)

Phases == {"idle", "load", "psk", "status", "apply", "verify", "enable", "service",
           "delete", "gone", "save", "report", "recover", "drop"}

\* psk, data: the payload.  on: what the crypto map is to be set to.
\* created: `created' of rename_ipsec.  warned: `warnings' names a missing key.
\* alone: no other call was in flight since this one began (history, read by
\* the properties only).
Job == [pc : Phases, call : Call \cup {None}, psk : Psk \cup {None}, data : Data,
        on : BOOLEAN, created : BOOLEAN, warned : BOOLEAN, alone : BOOLEAN]
IdleJob == [pc |-> "idle", call |-> None, psk |-> None,
            data |-> CHOOSE d \in Data : TRUE, on |-> TRUE, created |-> FALSE,
            warned |-> FALSE, alone |-> FALSE]

\* ok: an answer that says the work is done; warned: it carries a warning, of a
\* missing key or of a save that was not made.  partial: rename gave up half-way;
\* created, dropped: `created_new' and `rolled_back_new' of that answer.
Report == [end : {"none", "ok", "error", "partial"}, created : BOOLEAN,
           dropped : BOOLEAN, warned : BOOLEAN]
Says(end) == [end |-> end, created |-> FALSE, dropped |-> FALSE, warned |-> FALSE]

TypeOK ==
  /\ rc \in Config
  /\ sc \in Config
  /\ job \in [Task -> Job]
  /\ \A t \in Task : job[t].pc # "idle" => job[t].call \in Call
  /\ report \in [Task -> Report]
  /\ calls \in Nat
  /\ faults \in Seq(FaultKinds)
  /\ kept \subseteq Psk

Init ==
  /\ rc \in [conn : InitConns, service : BOOLEAN]
  /\ sc = rc
  /\ job = [t \in Task |-> IdleJob]
  /\ report = [t \in Task |-> Says("none")]
  /\ calls = 0
  /\ faults = <<>>
  /\ kept = Keys(rc)

Active(t) == job[t].pc # "idle"
At(t, pc) == job[t].pc = pc

\* A failure, as long as there may be one more.
Happens(kind) ==
  /\ kind \in Faults
  /\ Len(faults) < MaxFaults
  /\ faults' = Append(faults, kind)

Go(t, pc) == job' = [job EXCEPT ![t].pc = pc] /\ UNCHANGED report
End(t, answer) ==
  /\ job' = [job EXCEPT ![t] = IdleJob]
  /\ report' = [report EXCEPT ![t] = answer]

\* An exception.  Once rename_ipsec has begun to write, its handler runs.
Fail(t) ==
  IF job[t].call.op = "rename" /\ job[t].pc \notin {"load", "status"}
  THEN Go(t, "recover")
  ELSE End(t, Says("error"))

\* Mutant of SaveOrReport: every call saves.
SaveAlways(t) == "save"

SaveOrReport(t) == IF job[t].call.save THEN "save" ELSE "report"

Start(t) ==
  /\ ~Active(t)
  /\ calls < MaxCalls
  /\ calls' = calls + 1
  /\ \E c \in Calls[t] :
       job' = [u \in Task |->
                 IF u = t
                 THEN [IdleJob EXCEPT !.pc = "load", !.call = c,
                                      !.alone = \A v \in Task : ~Active(v)]
                 ELSE [job[u] EXCEPT !.alone = FALSE]]
  /\ report' = [report EXCEPT ![t] = Says("none")]
  /\ UNCHANGED <<rc, sc, faults, kept>>

-----------------------------------------------------------------------------
(* Reads of the running configuration, and what follows from them.  A read *)
(* that fails raises, except that of the status in rename_ipsec.           *)

\* Where the call goes with this payload: data that do not pass the checks of
\* _s2s_flat_payload, or a missing key, raise before anything is sent.
Send(t, psk, data, on) ==
  IF psk = None \/ data \in Unfit
  THEN End(t, Says("error"))
  ELSE /\ job' = [job EXCEPT ![t] = [@ EXCEPT !.pc = "apply", !.psk = psk,
                                              !.data = data, !.on = on]]
       /\ UNCHANGED report

Given(x, default) == IF x # None THEN x ELSE default

LoadForCreate(t) ==
  LET c == job[t].call IN
  /\ At(t, "load") /\ c.op = "create"
  /\ \/ /\ c.from = None
        /\ Send(t, c.psk, c.data, c.enable = "on")
     \/ /\ c.from # None /\ c.from \notin DOMAIN rc.conn
        /\ End(t, Says("error"))
     \/ /\ c.from \in DOMAIN rc.conn
        /\ LET src == rc.conn[c.from] IN
             Send(t, Given(c.psk, src.psk), Given(c.data, src.data), c.enable = "on")
  /\ UNCHANGED <<rc, sc, calls, faults, kept>>

LoadForUpdate(t) ==
  LET c == job[t].call IN
  /\ At(t, "load") /\ c.op = "update"
  /\ \/ c.name \notin DOMAIN rc.conn /\ End(t, Says("error"))
     \/ /\ c.name \in DOMAIN rc.conn
        /\ LET data == Given(c.data, rc.conn[c.name].data) IN
             IF c.psk # None
             THEN Send(t, c.psk, data, c.enable = "on")
             ELSE /\ job' = [job EXCEPT ![t] = [@ EXCEPT !.pc = "psk", !.data = data]]
                  /\ UNCHANGED report
  /\ UNCHANGED <<rc, sc, calls, faults, kept>>

\* The key of an update that keeps it is taken from a read of its own.
ReadPsk(t) ==
  LET c == job[t].call IN
  /\ At(t, "psk")
  /\ Send(t, IF c.name \in DOMAIN rc.conn THEN rc.conn[c.name].psk ELSE None,
          job[t].data, c.enable = "on")
  /\ UNCHANGED <<rc, sc, calls, faults, kept>>

\* set_ipsec_state: a name that is not in rc may still be in the status map.
LoadForState(t) ==
  LET c == job[t].call IN
  /\ At(t, "load") /\ c.op = "state"
  /\ job' = [job EXCEPT ![t] = [@ EXCEPT !.on = (c.enable = "on"),
               !.pc = IF c.name \in DOMAIN rc.conn THEN "enable" ELSE "status"]]
  /\ UNCHANGED <<rc, sc, report, calls, faults, kept>>

StatusForState(t) ==
  /\ At(t, "status") /\ job[t].call.op = "state"
  /\ IF job[t].call.name \in DOMAIN rc.conn
     THEN Go(t, "enable") ELSE End(t, Says("error"))
  /\ UNCHANGED <<rc, sc, calls, faults, kept>>

LoadForDelete(t) ==
  /\ At(t, "load") /\ job[t].call.op = "delete"
  /\ IF job[t].call.name \in DOMAIN rc.conn
     THEN Go(t, "delete") ELSE End(t, Says("error"))
  /\ UNCHANGED <<rc, sc, calls, faults, kept>>

\* rename_ipsec takes key and data from this read, and gives up when the old
\* name is missing, the new one is taken, or there is no key.
LoadForRename(t) ==
  LET c == job[t].call IN
  /\ At(t, "load") /\ c.op = "rename"
  /\ IF c.from \in DOMAIN rc.conn /\ c.name \notin DOMAIN rc.conn
          /\ rc.conn[c.from].psk # None
     THEN /\ job' = [job EXCEPT ![t] = [@ EXCEPT !.pc = "status",
                       !.psk = rc.conn[c.from].psk, !.data = rc.conn[c.from].data]]
          /\ UNCHANGED report
     ELSE End(t, Says("error"))
  /\ UNCHANGED <<rc, sc, calls, faults, kept>>

\* Whether the old connection is enabled; when that cannot be read, it is.
StatusForRename(t) ==
  LET old == job[t].call.from IN
  /\ At(t, "status") /\ job[t].call.op = "rename"
  /\ \/ /\ Send(t, job[t].psk, job[t].data,
                old \in DOMAIN rc.conn => rc.conn[old].on)
        /\ UNCHANGED faults
     \/ Happens("read") /\ Send(t, job[t].psk, job[t].data, TRUE)
  /\ UNCHANGED <<rc, sc, calls, kept>>

\* Mutant of Verify: it is enough that the profile is there.
VerifyPresence(t) ==
  LET c == job[t].call IN
  /\ At(t, "verify")
  /\ IF c.name \notin DOMAIN rc.conn
     THEN Fail(t)
     ELSE /\ job' = [job EXCEPT ![t] =
                [@ EXCEPT !.pc = IF c.enable = "keep" /\ c.op = "update"
                                 THEN SaveOrReport(t) ELSE "enable",
                          !.warned = c.op # "rename" /\ rc.conn[c.name].psk = None]]
          /\ UNCHANGED report
  /\ UNCHANGED <<rc, sc, calls, faults, kept>>

\* The read after the write.  create and update compare the data they find
\* with those they sent, and warn when they find no key; rename looks for the
\* name only.
Verify(t) ==
  LET c == job[t].call IN
  /\ At(t, "verify")
  /\ IF \/ c.name \notin DOMAIN rc.conn
        \/ c.op # "rename" /\ rc.conn[c.name].data # job[t].data
     THEN Fail(t)
     ELSE /\ job' = [job EXCEPT ![t] =
                [@ EXCEPT !.pc = IF c.enable = "keep" /\ c.op = "update"
                                 THEN SaveOrReport(t) ELSE "enable",
                          !.warned = c.op # "rename" /\ rc.conn[c.name].psk = None]]
          /\ UNCHANGED report
  /\ UNCHANGED <<rc, sc, calls, faults, kept>>

\* The read after the delete.
Gone(t) ==
  LET c == job[t].call
      old == IF c.op = "rename" THEN c.from ELSE c.name
  IN
  /\ At(t, "gone")
  /\ IF \/ old \in DOMAIN rc.conn
        \/ c.op = "rename" /\ c.name \notin DOMAIN rc.conn
     THEN Fail(t) ELSE Go(t, SaveOrReport(t))
  /\ UNCHANGED <<rc, sc, calls, faults, kept>>

\* The last two reads, of sc and of the status.  A saved delete must not be in
\* sc; when a saved create is not there, the answer warns; the others do not look.
Answer(t) ==
  LET c == job[t].call IN
  /\ At(t, "report")
  /\ IF c.op = "delete" /\ c.save /\ c.name \in DOMAIN sc.conn
     THEN End(t, Says("error"))
     ELSE End(t, [Says("ok") EXCEPT
                    !.warned = \/ job[t].warned
                               \/ c.op = "create" /\ c.save /\ c.name \notin DOMAIN sc.conn])
  /\ UNCHANGED <<rc, sc, calls, faults, kept>>

ReadFails(t) ==
  /\ \/ job[t].pc \in {"load", "psk", "verify", "gone", "report"}
     \/ At(t, "status") /\ job[t].call.op = "state"
  /\ Happens("read")
  /\ Fail(t)
  /\ UNCHANGED <<rc, sc, calls, kept>>

-----------------------------------------------------------------------------
(* Writes. *)

\* A write that would make rc what is in results, and what may become of it.
Request(t, results, pc) ==
  \/ rc' \in results /\ Go(t, pc) /\ UNCHANGED faults
  \/ rc' = rc /\ Happens("refuse") /\ Fail(t)
  \/ rc' \in results \cup {rc} /\ Happens("lost") /\ Fail(t)

\* The whole profile is sent.  The key of a profile that was there is asked
\* away, unless this is an update that keeps it; a key given is to be kept.  A key
\* is given up when the router stores the profile without it: the code only
\* warns, or does not look.
Apply(t) ==
  LET c == job[t].call
      stored(k, d) == Applied(rc, c.name, k, d)
      replaced == IF c.name \in DOMAIN rc.conn /\ ~(c.op = "update" /\ c.psk = None)
                  THEN {rc.conn[c.name].psk} ELSE {}
      written == [job EXCEPT ![t].pc = "verify", ![t].created = TRUE]
  IN
  /\ At(t, "apply")
  /\ \/ /\ \/ rc' \in stored(job[t].psk, job[t].data) /\ UNCHANGED faults
           \/ /\ \E k \in {job[t].psk, None}, d \in Data : rc' \in stored(k, d)
              /\ Happens("mangle")
        /\ job' = written /\ UNCHANGED report
     \/ rc' = rc /\ Happens("refuse") /\ Fail(t)
     \/ rc' \in stored(job[t].psk, job[t].data) \cup {rc} /\ Happens("lost") /\ Fail(t)
  /\ kept' = IF rc' = rc THEN kept
             ELSE IF rc'.conn[c.name].psk # None
             THEN (kept \ replaced) \cup ({c.psk} \ {None})
             ELSE kept \ (replaced \cup {job[t].psk})
  /\ UNCHANGED <<sc, calls>>

\* Mutant of Enable: the service is not switched on.
EnableOnly(t) ==
  LET c == job[t].call IN
  /\ At(t, "enable")
  /\ \/ /\ c.name \in DOMAIN rc.conn
        /\ Request(t, {Switched(rc, c.name, job[t].on)},
                   IF c.op = "rename" THEN "delete" ELSE SaveOrReport(t))
     \/ c.name \notin DOMAIN rc.conn /\ Fail(t) /\ UNCHANGED <<rc, faults>>
  /\ UNCHANGED <<sc, calls, kept>>

\* `crypto map X enable', or its `no' form; the router refuses it for a map
\* that is not there.
Enable(t) ==
  LET c == job[t].call
      next == IF job[t].on THEN "service"
              ELSE IF c.op = "rename" THEN "delete" ELSE SaveOrReport(t)
  IN
  /\ At(t, "enable")
  /\ \/ c.name \in DOMAIN rc.conn /\ Request(t, {Switched(rc, c.name, job[t].on)}, next)
     \/ c.name \notin DOMAIN rc.conn /\ Fail(t) /\ UNCHANGED <<rc, faults>>
  /\ UNCHANGED <<sc, calls, kept>>

Service(t) ==
  /\ At(t, "service")
  /\ Request(t, {[rc EXCEPT !.service = TRUE]},
             IF job[t].call.op = "rename" THEN "delete" ELSE SaveOrReport(t))
  /\ UNCHANGED <<sc, calls, kept>>

\* The old profile of a rename, or the profile of a delete.  To remove what is
\* not there may be answered or refused.
Delete(t) ==
  LET c == job[t].call
      old == IF c.op = "rename" THEN c.from ELSE c.name
  IN
  /\ At(t, "delete")
  /\ \/ Request(t, {Removed(rc, old)}, "gone")
     \/ old \notin DOMAIN rc.conn /\ Fail(t) /\ UNCHANGED <<rc, faults>>
  /\ kept' = IF c.op = "delete" /\ rc' # rc THEN kept \ {rc.conn[old].psk} ELSE kept
  /\ UNCHANGED <<sc, calls>>

Save(t) ==
  /\ At(t, "save")
  /\ \/ sc' = rc /\ Go(t, "report") /\ UNCHANGED faults
     \/ sc' = sc /\ Happens("nosave") /\ Go(t, "report")
     \/ sc' = sc /\ Happens("refuse") /\ Fail(t)
     \/ sc' \in {sc, rc} /\ Happens("lost") /\ Fail(t)
  /\ UNCHANGED <<rc, calls, kept>>

-----------------------------------------------------------------------------
(* The handler of rename_ipsec. *)

Partial(t, dropped) ==
  End(t, [Says("partial") EXCEPT !.created = job[t].created, !.dropped = dropped])

\* Mutant of Recover: the new profile is taken back whatever became of the old.
RecoverBlindly(t) ==
  /\ At(t, "recover")
  /\ IF job[t].created /\ job[t].call.name \in DOMAIN rc.conn
     THEN Go(t, "drop")
     ELSE Partial(t, FALSE)
  /\ UNCHANGED <<rc, sc, calls, faults, kept>>

\* Mutant of Recover: the new profile is left where it is.
RecoverNothing(t) ==
  /\ At(t, "recover")
  /\ Partial(t, FALSE)
  /\ UNCHANGED <<rc, sc, calls, faults, kept>>

\* The new profile is taken back when the write that made it was answered and
\* the old one is still there.
Recover(t) ==
  LET c == job[t].call IN
  /\ At(t, "recover")
  /\ \/ /\ IF job[t].created /\ {c.name, c.from} \subseteq DOMAIN rc.conn
           THEN Go(t, "drop") ELSE Partial(t, FALSE)
        /\ UNCHANGED faults
     \/ Happens("read") /\ Partial(t, FALSE)
  /\ UNCHANGED <<rc, sc, calls, kept>>

\* The router's answer is not looked at.
Drop(t) ==
  LET new == job[t].call.name IN
  /\ At(t, "drop")
  /\ \/ rc' = Removed(rc, new) /\ Partial(t, TRUE) /\ UNCHANGED faults
     \/ rc' = rc /\ Happens("refuse") /\ Partial(t, TRUE)
     \/ rc' \in {rc, Removed(rc, new)} /\ Happens("lost") /\ Partial(t, FALSE)
  /\ UNCHANGED <<sc, calls, kept>>

-----------------------------------------------------------------------------
\* The router restarts from sc, and every call in flight fails.
Reboot ==
  /\ Happens("reboot")
  /\ rc' = sc
  /\ job' = [t \in Task |-> IdleJob]
  /\ report' = [t \in Task |-> IF Active(t) THEN Says("none") ELSE report[t]]
  /\ kept' = kept \cap Keys(sc)
  /\ UNCHANGED <<sc, calls>>

Load(t) ==
  \/ LoadForCreate(t) \/ LoadForUpdate(t) \/ ReadPsk(t)
  \/ LoadForState(t) \/ StatusForState(t)
  \/ LoadForDelete(t) \/ LoadForRename(t) \/ StatusForRename(t)

Step(t) ==
  \/ Load(t) \/ Apply(t) \/ Verify(t) \/ Enable(t) \/ Service(t)
  \/ Delete(t) \/ Gone(t) \/ Save(t) \/ Answer(t)
  \/ ReadFails(t) \/ Recover(t) \/ Drop(t)

Next == Reboot \/ \E t \in Task : Start(t) \/ Step(t)

Spec == Init /\ [][Next]_vars

-----------------------------------------------------------------------------
(* Safety. *)

\* The abstract promise: each request changes one slot of the running
\* configuration (a profile, or the service), and the saved one changes only
\* for a call in flight that asked for it.
Slots(c) == [s \in DOMAIN c.conn \cup (IF c.service THEN {None} ELSE {}) |->
               IF s = None THEN None ELSE c.conn[s]]

SC == INSTANCE SavedConfig
        WITH Client <- Task, Slot <- Name \cup {None}, Thing <- Profile \cup {None},
             running <- Slots(rc), saved <- Slots(sc),
             open <- {t \in Task : Active(t)},
             consent <- {t \in Task : Active(t) /\ job[t].call.save}

ImplementsSavedConfig == SC!SCSpec

\* No pre-shared key gets lost on the way: at every moment each key nobody has
\* replaced or deleted is in some profile of the running configuration, even
\* though a rename deletes the profile it was read from and its handler deletes
\* the one it wrote (rename_ipsec; the key is never shown to the agent, who
\* could not write it again).  Lost is at most a key that the router left out of
\* a profile it was sent: no tool looks for it before it goes on.
KeyKept == kept \subseteq Keys(rc)

\* The task's call ends with this step, not by a reboot.
Ends(t) == Active(t) /\ job'[t].pc = "idle" /\ report'[t].end # "none"

\* A rename that began to write leaves the connection under one name, with its
\* key: the new one when it is answered, one of the two when it gives up.  (When
\* nobody else is at work and at most one thing went wrong, which was not a lost
\* write.  When the router stored the new profile without the key the rename is
\* answered and the key is gone: ipsec.py:1678 looks for the name only.)
RenameAllOrNothing ==
  [][\A t \in Task :
       /\ Ends(t) /\ job[t].alone
       /\ job[t].call.op = "rename" /\ job[t].pc \notin {"load", "status"}
       /\ Len(faults') <= 1 /\ faults' # <<"lost">>
       => LET c == job[t].call IN
          \E n \in Name :
            /\ {c.name, c.from} \cap DOMAIN rc'.conn = {n}
            /\ report'[t].end = "ok" => n = c.name
            /\ faults' # <<"mangle">> => rc'.conn[n].psk = job[t].psk]_vars

\* create and update save a profile only as they were asked to write it: with
\* that data, its crypto map set, and with that key, or with none and a warning
\* that says so.  (When nobody else is at work.)
SavedAsAsked ==
  [][\A t \in Task :
       /\ At(t, "save") /\ sc' # sc /\ job[t].alone
       /\ job[t].call.op \in {"create", "update"}
       => LET c == job[t].call
              stored == sc'.conn[c.name]
          IN  /\ c.name \in DOMAIN sc'.conn
              /\ stored.data = job[t].data
              /\ stored.psk = job[t].psk \/ (stored.psk = None /\ job[t].warned)
              /\ c.enable # "keep" => stored.on = job[t].on]_vars

\* What an answer says is so: the profile is there or gone, its crypto map is
\* as asked (as it was, for a rename whose reads went well), the service runs
\* when something was enabled, a create or update whose profile has no key
\* warns, and a call that asked for it is saved.  When a save was answered and
\* not made, a delete that says it is saved is saved nevertheless, and a create
\* whose profile is not in sc warns.  (When nobody else is at work.)
AnswersHold ==
  [][\A t \in Task :
       Ends(t) /\ report'[t].end = "ok" /\ job[t].alone =>
         LET c == job[t].call
             warned == report'[t].warned
         IN
         /\ (c.op = "delete") = (c.name \notin DOMAIN rc.conn)
         /\ c.op = "rename" => c.from \notin DOMAIN rc.conn
         /\ c.op # "delete" /\ ~(c.op = "update" /\ c.enable = "keep")
              => rc.conn[c.name].on = job[t].on /\ (job[t].on => rc.service)
         /\ c.op \in {"create", "update"} /\ rc.conn[c.name].psk = None => warned
         /\ c.save => \/ sc = rc
                      \/ "nosave" \in Range(faults)
         /\ c.save /\ c.op = "delete" => c.name \notin DOMAIN sc.conn
         /\ c.save /\ c.op = "create" => c.name \in DOMAIN sc.conn \/ warned]_vars

-----------------------------------------------------------------------------
(* What the comments say and the code does not do. *)

\* ipsec.py:1704: the handler of a rename drops the new profile when the old one
\* still exists, so that what it removes is in the old one too: no key is in the
\* running configuration before the drop and not after it.
DropsACopy == [][\A t \in Task : At(t, "drop") => Keys(rc) \subseteq Keys(rc')]_vars
=============================================================================
