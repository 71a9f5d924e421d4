--------------------------- MODULE WireguardPeers ---------------------------
(***************************************************************************)
(* The WireGuard tools of tools/wireguard.py and the AllowedIPs part of    *)
(* diff_sc_rc (tools/dns_routes.py), one action per request.               *)
(*                                                                         *)
(* A peer is never changed in place: update_wireguard_peer and             *)
(* add_wireguard_allowed_ips read it from rc, and send one batch that      *)
(* removes it, writes it anew and may save.  The router executes the items *)
(* of a batch one by one; a refused item does not stop the ones after it,  *)
(* but the call then ends with an exception.                               *)
(*                                                                         *)
(* Of a peer the model keeps its AllowedIPs and its keepalive interval;    *)
(* endpoint, connect.via, comment and preshared key are handed over by     *)
(* _build_wg_peer_payload and left out.  Of an interface it keeps the      *)
(* peers and whether it is up.  show/interface shows the interfaces and    *)
(* peers of rc, without their AllowedIPs.                                  *)
(***************************************************************************)
EXTENDS Naturals, FiniteSets

CONSTANTS Task,         \* tool calls that may be in flight together
          MaxIfaces,    \* bound: Wireguard0 .. Wireguard{MaxIfaces-1}
          PeerKey,      \* public keys
          Net,          \* CIDRs
          Interval,     \* keepalive intervals
          Keepalive,    \* the interval a payload has unless told otherwise: 25
          Calls,        \* Calls[t]: the calls the agent may make as task t
          InitConfigs,  \* what rc and sc may both hold at the start
          Faults,       \* which failures may happen, a subset of FaultKinds
          MaxCalls      \* bound: the number of calls of a behaviour

FaultKinds == {"read",     \* a GET fails
               "refuse",   \* the router refuses an item of a batch
               "drop",     \* the router keeps only some AllowedIPs of a peer
               "lost",     \* a writing request, or its answer, is lost
               "reboot"}   \* the router restarts

Iface == 0..(MaxIfaces - 1)
AutoId == MaxIfaces    \* `interface_id' is left to the tool or the router

Peer == [ips : SUBSET Net, alive : Interval]
Peers == UNION {[K -> Peer] : K \in SUBSET PeerKey}
Config == UNION {[K -> [up : BOOLEAN, peers : Peers]] : K \in SUBSET Iface}

PeerWriters == {"add", "update", "merge", "remove"}
IfaceWriters == {"create", "conf", "state", "delete"}
Writers == PeerWriters \cup IfaceWriters
Readers == {"get", "getSaved", "runtime", "diff"}
Ops == Writers \cup Readers

\* ips: `allowed_ips' or `cidrs'; an update without them keeps the old ones.
\* alive: the interval asked for, or nothing.  up: `enabled'.
Call == {c \in [op : Ops, iface : 0..AutoId, key : PeerKey, ips : SUBSET Net,
                alive : SUBSET Interval, up : BOOLEAN, save : BOOLEAN] :
           /\ c.iface = AutoId => c.op \in {"create", "conf", "diff"}
           /\ c.op \in {"add", "merge", "conf"} => c.ips # {}
           /\ Cardinality(c.alive) <= 1}

ASSUME WireguardAssumption ==
  /\ MaxIfaces \in Nat \ {0}
  /\ MaxCalls \in Nat
  /\ Keepalive \in Interval
  /\ PeerKey # {}
  /\ Calls \in [Task -> SUBSET Call]
  /\ InitConfigs \subseteq Config
  /\ Faults \subseteq FaultKinds

VARIABLES rc,       \* running configuration: interface number -> interface
          sc,       \* saved configuration
          job,      \* what each task is doing
          report,   \* the last answer each task got
          calls     \* how many calls were made

\* History, read by the properties only.
VARIABLES owed,     \* owed[i]: <<key, ip>> there at first or reported added since,
                    \* and not asked away
          seen      \* seen[t]: what happened during t's last call

vars == <<rc, sc, job, report, calls, owed, seen>>

-----------------------------------------------------------------------------
(* Interfaces and peers in a configuration. *)

NoPeers == [k \in {} |-> [ips |-> {}, alive |-> Keepalive]]
Fresh == [up |-> FALSE, peers |-> NoPeers]

\* A write to an interface that does not exist creates it.
Ensured(f, i) == IF i \in DOMAIN f THEN f[i] ELSE Fresh
Put(f, i, v) == [x \in DOMAIN f \cup {i} |-> IF x = i THEN v ELSE f[x]]
Drop(f, i) == [x \in DOMAIN f \ {i} |-> f[x]]

PeersAt(f, i) == IF i \in DOMAIN f THEN f[i].peers ELSE NoPeers
IpsAt(f, i, k) == IF k \in DOMAIN PeersAt(f, i) THEN f[i].peers[k].ips ELSE {}

\* The AllowedIPs of an interface, as pairs.
Pairs(f, i) == {p \in PeerKey \X Net : p[2] \in IpsAt(f, i, p[1])}

\* A peer that is written to an interface that has it is appended to it.
WritePeer(f, i, k, ips, alive) ==
  LET old == Ensured(f, i) IN
  Put(f, i, [old EXCEPT !.peers = [x \in DOMAIN old.peers \cup {k} |->
                IF x = k THEN [ips |-> IpsAt(f, i, k) \cup ips, alive |-> alive]
                ELSE old.peers[x]]])
RemovePeer(f, i, k) ==
  IF i \in DOMAIN f
  THEN Put(f, i, [f[i] EXCEPT !.peers = [x \in DOMAIN f[i].peers \ {k} |-> @[x]]])
  ELSE f

\* Mutant of NextWgId: the next number is the count of the interfaces.
NextWgIdByCount(f) == {Cardinality(DOMAIN f)}

\* The number create_wireguard picks: the first one no interface has.
NextWgId(f) ==
  {i \in Iface : i \notin DOMAIN f /\ \A j \in Iface : j < i => j \in DOMAIN f}

-----------------------------------------------------------------------------
(* Tasks. *)

\* look: the first read.  check: add's read of rc.  make, conf: the requests of
\* add_wireguard_from_conf before its batch.  write: the batch.  see, after,
\* saved: reads after it.  first, second, again: the reads of the readers.
Phases == {"idle", "look", "check", "make", "conf", "write", "see", "after",
           "saved", "first", "second", "again"}

\* iface: the interface worked on.  was, alive: the peer as first read.  live:
\* the keys of the live interface.  cfg, other: the reads to compare, as
\* <<interface, key, ip>>.  none: there was nothing to read for cfg.  unread: a
\* read failed and was passed over.
Entry == Iface \X PeerKey \X Net
Job == [pc : Phases, call : Call, iface : Iface, was : SUBSET Net,
        alive : Interval, live : SUBSET PeerKey, cfg : SUBSET Entry,
        other : SUBSET Entry, none : BOOLEAN, unread : BOOLEAN]

NoCall == [op |-> "diff", iface |-> AutoId, key |-> CHOOSE k \in PeerKey : TRUE,
           ips |-> {}, alive |-> {}, up |-> FALSE, save |-> FALSE]
IdleJob == [pc |-> "idle", call |-> NoCall, iface |-> 0, was |-> {},
            alive |-> Keepalive, live |-> {}, cfg |-> {}, other |-> {},
            none |-> FALSE, unread |-> FALSE]

\* ips: the AllowedIPs shown; added: `added'.  unread: as in Job.
Report == [op : Ops \cup {"none"}, ok : BOOLEAN, iface : Iface, key : PeerKey,
           ips : SUBSET Net, added : SUBSET Net, dirty : BOOLEAN,
           persisted : BOOLEAN, unread : BOOLEAN]
NoReport == [op |-> "none", ok |-> FALSE, iface |-> 0, key |-> NoCall.key,
             ips |-> {}, added |-> {}, dirty |-> FALSE, persisted |-> FALSE,
             unread |-> FALSE]

\* differed: rc # sc at some moment.  raced: something else changed rc or sc.
\* held: what rc or sc had on the interface at some moment.
Seen == [differed : BOOLEAN, raced : BOOLEAN, held : SUBSET Net]

TypeOK ==
  /\ rc \in Config
  /\ sc \in Config
  /\ job \in [Task -> Job]
  /\ report \in [Task -> Report]
  /\ calls \in Nat
  /\ owed \in [Iface -> SUBSET (PeerKey \X Net)]
  /\ seen \in [Task -> Seen]

Init ==
  /\ rc \in InitConfigs
  /\ sc = rc
  /\ job = [t \in Task |-> IdleJob]
  /\ report = [t \in Task |-> NoReport]
  /\ calls = 0
  /\ owed = [i \in Iface |-> Pairs(rc, i)]
  /\ seen = [t \in Task |-> [differed |-> FALSE, raced |-> FALSE, held |-> {}]]

Active(t) == job[t].pc # "idle"
AsksSave(c) == c.op \in Writers /\ c.save

NetsOn(f, i) == {p[2] : p \in Pairs(f, i)}

\* What a step of task t adds to the history of the calls in flight.
Observe(t) ==
  seen' = [u \in Task |->
    IF ~Active(u) THEN seen[u]
    ELSE [differed |-> seen[u].differed \/ rc' # sc',
          raced |-> seen[u].raced \/ (u # t /\ (rc' # rc \/ sc' # sc)),
          held |-> seen[u].held \cup NetsOn(rc', job[u].iface)
                                \cup NetsOn(sc', job[u].iface)]]

\* A step of task t that writes nothing.
Reads(t) ==
  /\ UNCHANGED <<rc, sc, calls>>
  /\ Observe(t)

Goto(t, j) == job' = [job EXCEPT ![t] = j] /\ UNCHANGED report

\* The call ends, with an exception or with an answer.
Raise(t) ==
  /\ job' = [job EXCEPT ![t] = IdleJob]
  /\ report' = [report EXCEPT ![t] = [NoReport EXCEPT !.op = job[t].call.op]]
Answer(t, r) ==
  /\ job' = [job EXCEPT ![t] = IdleJob]
  /\ report' = [report EXCEPT ![t] = r]

\* The phase a call starts in: create with a number of its own, an import,
\* remove and diff read nothing first.
FirstPhase(c) ==
  CASE c.op = "create" /\ c.iface # AutoId -> "write"
    [] c.op = "conf" /\ c.iface = AutoId -> "conf"
    [] c.op = "remove" -> "write"
    [] c.op = "diff" -> "first"
    [] OTHER -> "look"

Start(t) ==
  /\ ~Active(t)
  /\ calls < MaxCalls
  /\ calls' = calls + 1
  /\ \E c \in Calls[t] :
       LET i == IF c.iface = AutoId THEN 0 ELSE c.iface IN
       /\ job' = [job EXCEPT ![t] = [IdleJob EXCEPT !.pc = FirstPhase(c),
                                                    !.call = c, !.iface = i]]
       /\ seen' = [seen EXCEPT ![t] =
            [differed |-> rc # sc, raced |-> FALSE,
             held |-> NetsOn(rc, i) \cup NetsOn(sc, i)]]
  /\ report' = [report EXCEPT ![t] = NoReport]
  /\ UNCHANGED <<rc, sc, owed>>

-----------------------------------------------------------------------------
(* Reads before a write. *)

\* A read whose exception the tool does not catch.
ReadFails(t) ==
  /\ "read" \in Faults
  /\ job[t].pc \in {"look", "see", "after"} \/ (job[t].pc \in {"first", "second"}
                                                 /\ job[t].call.op = "diff")
  /\ \/ job[t].pc # "first" /\ job[t].pc # "second" /\ Raise(t)
     \* diff_sc_rc answers with the error in place of the comparison
     \/ job[t].pc \in {"first", "second"}
        /\ Answer(t, [NoReport EXCEPT !.op = "diff", !.ok = TRUE, !.unread = TRUE])
  /\ UNCHANGED owed
  /\ Reads(t)

LookForCreate(t) ==
  /\ job[t].pc = "look"
  /\ job[t].call.op = "create"
  /\ \E i \in NextWgId(rc) : Goto(t, [job[t] EXCEPT !.pc = "write", !.iface = i])
  /\ UNCHANGED owed
  /\ Reads(t)

\* add_wireguard_from_conf creates the interface it was given if it is missing.
LookForConf(t) ==
  /\ job[t].pc = "look"
  /\ job[t].call.op = "conf"
  /\ Goto(t, [job[t] EXCEPT !.pc = IF job[t].iface \in DOMAIN rc
                                   THEN "conf" ELSE "make"])
  /\ UNCHANGED owed
  /\ Reads(t)

\* The other tools refuse an interface that does not exist.
LookForIface(t) ==
  LET j == job[t] IN
  /\ j.pc = "look"
  /\ j.call.op \in {"state", "delete", "add", "get", "getSaved", "runtime"}
  /\ IF j.iface \notin DOMAIN rc THEN Raise(t)
     ELSE Goto(t, [j EXCEPT !.live = DOMAIN PeersAt(rc, j.iface),
                            !.pc = CASE j.call.op \in {"state", "delete"} -> "write"
                                     [] j.call.op = "add" -> "check"
                                     [] OTHER -> "first"])
  /\ UNCHANGED owed
  /\ Reads(t)

\* add_wireguard_peer refuses a key that is there; when rc cannot be read, it
\* goes on as if there were no peers.
CheckDuplicate(t) ==
  LET j == job[t] IN
  /\ j.pc = "check"
  /\ \/ IF j.call.key \in DOMAIN PeersAt(rc, j.iface) THEN Raise(t)
        ELSE Goto(t, [j EXCEPT !.pc = "write"])
     \/ "read" \in Faults /\ Goto(t, [j EXCEPT !.pc = "write", !.unread = TRUE])
  /\ UNCHANGED owed
  /\ Reads(t)

\* update and merge read the peer they rewrite.  A merge that has nothing to
\* add only reads sc; an update needs AllowedIPs, given or already there.
LookForPeer(t) ==
  LET j == job[t]
      was == IpsAt(rc, j.iface, j.call.key)
      found == j.call.key \in DOMAIN PeersAt(rc, j.iface)
      noop == j.call.op = "merge" /\ j.call.ips \subseteq was IN
  /\ j.pc = "look"
  /\ j.call.op \in {"update", "merge"}
  /\ IF ~found \/ (j.call.ips = {} /\ was = {}) THEN Raise(t)
     ELSE Goto(t, [j EXCEPT !.pc = IF noop THEN "saved" ELSE "write",
                            !.was = was,
                            !.alive = rc[j.iface].peers[j.call.key].alive,
                            !.cfg = IF noop THEN {<<j.iface, j.call.key, n>> : n \in was}
                                    ELSE {}])
  /\ UNCHANGED owed
  /\ Reads(t)

-----------------------------------------------------------------------------
(* Writes. *)

\* Mutant of Rewritten: a merge writes what it was asked to add.
RewrittenAsAsked(j) == IF j.call.ips = {} THEN j.was ELSE j.call.ips

\* The AllowedIPs of the peer that is written.
Rewritten(j) ==
  CASE j.call.op = "merge" -> j.was \cup j.call.ips
    [] j.call.ips = {} -> j.was
    [] OTHER -> j.call.ips

\* Its interval: what is asked for; else an update keeps what it read, and
\* everything else takes the payload's default.
Timing(j) ==
  IF j.call.alive # {} THEN CHOOSE a \in j.call.alive : TRUE
  ELSE IF j.call.op = "update" THEN j.alive ELSE Keepalive

\* What the router may keep of a peer's AllowedIPs: at least one.
Kept(ips) == {ips} \cup (IF "drop" \in Faults THEN (SUBSET ips) \ {{}} ELSE {})

\* What a writing request may make of configuration f: item by item, each done
\* or refused; bad: some item was refused.
Done(f) == [cfg |-> f, bad |-> FALSE]
Bad(f) == [cfg |-> f, bad |-> TRUE]
PeerWritten(f, j) ==
  {Done(WritePeer(f, j.iface, j.call.key, ips, Timing(j))) : ips \in Kept(Rewritten(j))}
Items(f, j) ==
  CASE j.pc \in {"make", "write"} /\ j.call.op \in {"create", "conf", "state"} ->
         {Done(Put(f, j.iface, [Ensured(f, j.iface) EXCEPT
                 !.up = IF j.call.op = "create" \/ j.pc = "make" THEN @ ELSE j.call.up]))}
    [] j.pc = "conf" -> PeerWritten(f, j)
    [] j.call.op = "delete" -> {Done(Drop(f, j.iface))}
    [] j.call.op = "add" -> PeerWritten(f, j)
    [] j.call.op = "remove" -> {Done(RemovePeer(f, j.iface, j.call.key))}
    [] OTHER -> PeerWritten(RemovePeer(f, j.iface, j.call.key), j)

\* With a refused item: nothing done, or one of the two items of a batch.
Refused(f, j) ==
  IF "refuse" \notin Faults THEN {}
  ELSE {Bad(f)}
    \cup (IF j.pc = "write" /\ j.call.op = "create"
          THEN {Bad(Put(f, j.iface, Ensured(f, j.iface)))} ELSE {})
    \cup (IF j.call.op \in {"update", "merge"}
          THEN {Bad(RemovePeer(f, j.iface, j.call.key))}
                 \cup {Bad(o.cfg) : o \in PeerWritten(f, j)} ELSE {})

Outcomes(f, j) == Items(f, j) \cup Refused(f, j)

\* Mutant of Saves: every batch saves.
SavesAlways(j) == j.pc = "write"

\* The batch of the call ends with a save; no other request saves.
Saves(j) == j.pc = "write" /\ j.call.save

\* AllowedIPs are owed no longer once a call on the peer asks them away, is
\* refused, or rewrites the peer from a read that something else has overtaken,
\* or when the router drops what it was told to keep.
Owing(t, o) ==
  LET j == job[t]
      gone == {p \in owed[j.iface] :
                 /\ p[1] = j.call.key
                 /\ \/ j.call.op = "remove" \/ o.bad \/ seen[t].raced
                    \/ j.call.op = "update" /\ j.call.ips # {} /\ p[2] \notin j.call.ips
                    \/ p[2] \in Rewritten(j) \ IpsAt(o.cfg, j.iface, p[1])} IN
  CASE j.call.op = "delete" -> [owed EXCEPT ![j.iface] = {}]
    [] j.call.op \in {"remove", "update", "merge"} -> [owed EXCEPT ![j.iface] = @ \ gone]
    [] OTHER -> owed

\* What follows a write that was answered without an error.
AfterWrite(t) ==
  LET j == job[t] IN
  CASE j.pc = "make" -> Goto(t, [j EXCEPT !.pc = "conf"])
    [] j.pc = "conf" -> Goto(t, [j EXCEPT !.pc = "write"])
    [] j.pc = "write" /\ j.call.op \in {"create", "conf", "state"} ->
         Goto(t, [j EXCEPT !.pc = "see"])
    [] j.pc = "write" /\ j.call.op \in {"update", "merge"} ->
         Goto(t, [j EXCEPT !.pc = "after"])
    [] OTHER ->
         Answer(t, [NoReport EXCEPT !.op = j.call.op, !.ok = TRUE, !.iface = j.iface,
                      !.key = j.call.key, !.unread = j.unread,
                      !.ips = IF j.call.op = "add" THEN j.call.ips ELSE {},
                      !.persisted = j.call.save])

\* The writing request reaches the router.
Write(t) ==
  LET j == job[t] IN
  /\ j.pc \in {"make", "conf", "write"}
  /\ j.pc = "conf" => j.call.iface # AutoId
  /\ \E o \in Outcomes(rc, j) :
       /\ rc' = o.cfg
       /\ sc' = IF Saves(j) THEN o.cfg ELSE sc
       /\ owed' = Owing(t, o)
       /\ \/ ~o.bad /\ AfterWrite(t)
          \/ o.bad /\ Raise(t)
          \/ "lost" \in Faults /\ Raise(t)
  /\ UNCHANGED calls
  /\ Observe(t)

\* The import of a .conf: the router picks a free number for the tunnel.
Import(t) ==
  LET j == job[t] IN
  /\ j.pc = "conf"
  /\ j.call.iface = AutoId
  /\ \/ \E i \in Iface \ DOMAIN rc :
          /\ \E o \in Items(rc, [j EXCEPT !.iface = i]) : rc' = o.cfg
          /\ \/ Goto(t, [j EXCEPT !.pc = "write", !.iface = i])
             \/ "lost" \in Faults /\ Raise(t)
     \/ ("refuse" \in Faults \/ Iface \subseteq DOMAIN rc) /\ Raise(t) /\ rc' = rc
  /\ UNCHANGED <<sc, calls, owed>>
  /\ Observe(t)

\* The writing request never reaches the router.
Lose(t) ==
  /\ "lost" \in Faults
  /\ job[t].pc \in {"make", "conf", "write"}
  /\ Raise(t)
  /\ UNCHANGED owed
  /\ Reads(t)

-----------------------------------------------------------------------------
(* Reads after a write, and the answers. *)

\* create, from_conf and set_state answer what they asked for.
See(t) ==
  LET j == job[t] IN
  /\ j.pc = "see"
  /\ Answer(t, [NoReport EXCEPT !.op = j.call.op, !.ok = TRUE, !.iface = j.iface,
                                !.persisted = j.call.save])
  /\ UNCHANGED owed
  /\ Reads(t)

\* update and merge read the peer again; an update that does not find it any
\* more goes on with what it wrote.
ReadAfter(t) ==
  LET j == job[t]
      gone == j.call.key \notin DOMAIN PeersAt(rc, j.iface)
      now == IF gone /\ j.call.op = "update" THEN Rewritten(j)
             ELSE IpsAt(rc, j.iface, j.call.key) IN
  /\ j.pc = "after"
  /\ Goto(t, [j EXCEPT !.pc = "saved", !.cfg = {<<j.iface, j.call.key, n>> : n \in now}])
  /\ UNCHANGED owed
  /\ Reads(t)

\* Mutant of PeerReport: what was asked for was added.
PeerReportUnread(j, saved) ==
  LET now == {e[3] : e \in j.cfg} IN
  [NoReport EXCEPT !.op = j.call.op, !.ok = TRUE, !.iface = j.iface,
     !.key = j.call.key, !.ips = now \cup j.call.ips, !.added = Rewritten(j) \ j.was,
     !.dirty = now # saved, !.persisted = j.call.save, !.unread = j.unread]

\* Mutant of PeerReport: the peer as it was before the write is compared with sc.
PeerReportStale(j, saved) ==
  LET now == {e[3] : e \in j.cfg} IN
  [NoReport EXCEPT !.op = j.call.op, !.ok = TRUE, !.iface = j.iface,
     !.key = j.call.key, !.ips = now,
     !.added = IF j.call.op = "merge" THEN (j.call.ips \ j.was) \cap now ELSE now \ j.was,
     !.dirty = j.was # saved, !.persisted = j.call.save, !.unread = j.unread]

\* The answer of update and merge; also that of a merge with nothing to add,
\* which has sent no save and answers persisted=save all the same.
PeerReport(j, saved) ==
  LET now == {e[3] : e \in j.cfg} IN
  [NoReport EXCEPT !.op = j.call.op, !.ok = TRUE, !.iface = j.iface,
     !.key = j.call.key, !.ips = now,
     !.added = IF j.call.op = "merge" THEN (j.call.ips \ j.was) \cap now ELSE now \ j.was,
     !.dirty = now # saved, !.persisted = j.call.save, !.unread = j.unread]

\* The read of sc that `dirty' compares with; a failed one counts as empty.
ReadSaved(t) ==
  LET j == job[t] IN
  /\ j.pc = "saved"
  /\ \/ Answer(t, PeerReport(j, IpsAt(sc, j.iface, j.call.key)))
     \/ "read" \in Faults /\ Answer(t, PeerReport([j EXCEPT !.unread = TRUE], {}))
  /\ owed' = [owed EXCEPT ![j.iface] = @ \cup {<<j.call.key, n>> : n \in
                 {m \in report'[t].added : ~seen[t].raced}}]
  /\ Reads(t)

\* What a reader finds of its interface, or of all of them, in f.
Found(j, f) ==
  {e \in Entry : /\ e[3] \in IpsAt(f, e[1], e[2])
                 /\ j.call.op # "diff" => e[1] = j.iface}

KeysIn(E) == {e[2] : e \in E}
IpsOf(E, k) == {e[3] : e \in {d \in E : d[2] = k}}

\* diff_sc_rc compares everything.  get_wireguard compares the peers it knows
\* from the live interface or from the configuration asked for, and none if
\* the other configuration has no peers.
Dirty(j) ==
  IF j.call.op = "diff" THEN j.cfg # j.other
  ELSE /\ j.other # {}
       /\ \E k \in j.live \cup KeysIn(j.cfg) :
            {e \in j.cfg : e[2] = k} # {e \in j.other : e[2] = k}

\* runtime shows the AllowedIPs of the first configured peer for every peer.
ShownIps(j) == IF j.cfg = {} THEN {{}} ELSE {IpsOf(j.cfg, k) : k \in KeysIn(j.cfg)}

ReaderReport(j) ==
  [NoReport EXCEPT !.op = j.call.op, !.ok = TRUE, !.iface = j.iface, !.unread = j.unread]
ReaderReports(j) ==
  IF j.call.op # "runtime" THEN {[ReaderReport(j) EXCEPT !.dirty = Dirty(j)]}
  ELSE IF j.live = {} THEN {ReaderReport(j)}
  ELSE UNION {{[ReaderReport(j) EXCEPT !.key = k, !.ips = S] : S \in ShownIps(j)} : k \in j.live}

\* The configuration a reader prefers, and the other one.
Wanted(j) == IF j.call.op = "getSaved" THEN sc ELSE rc
Rest(j) == IF j.call.op = "getSaved" THEN rc ELSE sc

\* What a read with a caught exception yields; nothing if the interface is not
\* in that configuration, or if the read failed.
Shows(j, f) ==
  {[e |-> Found(j, f), none |-> j.call.op # "diff" /\ j.iface \notin DOMAIN f,
    failed |-> FALSE]}
    \cup IF "read" \in Faults /\ j.call.op # "diff"
         THEN {[e |-> {}, none |-> TRUE, failed |-> TRUE]} ELSE {}

\* First the preferred configuration.  runtime is content with it if it shows
\* the interface; getSaved asks once more if it does not.
ReadFirst(t) ==
  LET j == job[t] IN
  /\ j.pc = "first"
  /\ \E v \in Shows(j, Wanted(j)) :
       LET k == [j EXCEPT !.cfg = v.e, !.none = v.none, !.unread = @ \/ v.failed] IN
       IF j.call.op = "runtime" /\ ~v.none
       THEN \E r \in ReaderReports(k) : Answer(t, r)
       ELSE Goto(t, [k EXCEPT !.pc = IF j.call.op = "getSaved" /\ v.none
                                     THEN "again" ELSE "second"])
  /\ UNCHANGED owed
  /\ Reads(t)

\* Then the other one; get asks for rc once more if it did not show.
ReadSecond(t) ==
  LET j == job[t] IN
  /\ j.pc = "second"
  /\ \E v \in Shows(j, Rest(j)) :
       LET k == [j EXCEPT !.other = v.e, !.unread = @ \/ v.failed] IN
       CASE j.call.op = "runtime" ->
              \E r \in ReaderReports([k EXCEPT !.cfg = v.e]) : Answer(t, r)
         [] j.call.op = "get" /\ j.none -> Goto(t, [k EXCEPT !.pc = "again"])
         [] OTHER -> \E r \in ReaderReports(k) : Answer(t, r)
  /\ UNCHANGED owed
  /\ Reads(t)

\* The second attempt; when get still has no rc, it shows sc in its place.
ReadAgain(t) ==
  LET j == job[t] IN
  /\ j.pc = "again"
  /\ \E v \in Shows(j, Wanted(j)) :
       LET k == [j EXCEPT !.cfg = v.e, !.unread = @ \/ v.failed] IN
       IF j.call.op = "getSaved" THEN Goto(t, [k EXCEPT !.pc = "second"])
       ELSE \E r \in ReaderReports([k EXCEPT !.cfg = IF v.none THEN j.other ELSE v.e]) :
              Answer(t, r)
  /\ UNCHANGED owed
  /\ Reads(t)

-----------------------------------------------------------------------------
\* The router restarts from sc; the calls in flight fail.
Reboot ==
  /\ "reboot" \in Faults
  /\ rc' = sc
  /\ job' = [t \in Task |-> IdleJob]
  /\ report' = [t \in Task |-> IF Active(t)
                               THEN [NoReport EXCEPT !.op = job[t].call.op]
                               ELSE report[t]]
  /\ owed' = [i \in Iface |-> owed[i] \cap Pairs(sc, i)]
  /\ UNCHANGED <<sc, calls, seen>>

Step(t) ==
  \/ ReadFails(t)
  \/ LookForCreate(t) \/ LookForConf(t) \/ LookForIface(t) \/ LookForPeer(t)
  \/ CheckDuplicate(t)
  \/ Write(t) \/ Import(t) \/ Lose(t)
  \/ See(t) \/ ReadAfter(t) \/ ReadSaved(t)
  \/ ReadFirst(t) \/ ReadSecond(t) \/ ReadAgain(t)

Next == Reboot \/ \E t \in Task : Start(t) \/ Step(t)

Spec == Init /\ [][Next]_vars

-----------------------------------------------------------------------------
(* What concurrency and failures leave standing. *)

\* rc changes on one interface per request; sc changes only in the batch of a
\* call that asked for a save, and then becomes a copy of rc (every write tool
\* of wireguard.py).
SC == INSTANCE SavedConfig
        WITH Client <- Task, Slot <- Iface, Thing <- [up : BOOLEAN, peers : Peers],
             running <- rc, saved <- sc,
             open <- {t \in Task : Active(t)},
             consent <- {t \in Task : Active(t) /\ AsksSave(job[t].call)}

ImplementsSavedConfig == SC!SCSpec

\* AllowedIPs that were there, or that update or merge reported as added, stay
\* in rc until a call on the peer asks them away or is refused, the interface is
\* deleted, the router drops them, or a reboot does: the only other way to lose
\* them is a rewrite of the peer from a read that another call's write has
\* overtaken (update_wireguard_peer, add_wireguard_allowed_ips).
NoLostIps == \A i \in Iface : owed[i] \subseteq Pairs(rc, i)

\* The AllowedIPs an answer shows were on that interface, in rc or sc, at some
\* moment of the call ("allowed_ips" of update, merge and runtime).
ShownWereThere ==
  \A t \in Task :
    report[t].op \in {"update", "merge", "runtime"} /\ ~seen[t].raced =>
      report[t].ips \subseteq seen[t].held

\* The types, and that what update, merge and runtime show was there.
PeersInv == TypeOK /\ ShownWereThere

\* t's call has just answered.
Finished(t) == Active(t) /\ job'[t].pc = "idle" /\ report'[t].ok

\* `dirty' is right both ways, as far as undisturbed reads can tell.  dirty=true
\* means that sc and rc differed at some moment of the call, unless a read failed
\* (get, diff, update, merge); dirty=false of update, merge or diff means that rc
\* and sc have the same AllowedIPs for what was asked.
DirtyIsRight ==
  [][\A t \in Task :
       LET r == report'[t] IN
       Finished(t) /\ ~seen'[t].raced =>
         /\ r.dirty => seen'[t].differed \/ r.unread
         /\ ~r.dirty /\ r.op \in {"update", "merge"} =>
              IpsAt(rc, r.iface, r.key) = IpsAt(sc, r.iface, r.key)
         /\ ~r.dirty /\ r.op = "diff" /\ ~r.unread =>
              \A i \in Iface : Pairs(rc, i) = Pairs(sc, i)]_vars

\* As long as no other call writes meanwhile, a new interface takes a number
\* that nobody has, and a new peer a key that the interface does not have
\* (_next_wg_id, "refuse duplicate public key").
NewIsNew ==
  [][\A t \in Task :
       LET j == job[t] IN
       j.pc = "write" /\ (job'[t].pc = "see" \/ Finished(t)) /\ ~seen[t].raced =>
         /\ j.call.op = "create" /\ j.call.iface = AutoId => j.iface \notin DOMAIN rc
         /\ j.call.op = "add" /\ ~j.unread => j.call.key \notin DOMAIN PeersAt(rc, j.iface)]_vars
=============================================================================
