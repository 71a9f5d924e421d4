-------------------------- MODULE SiteToSite_proofs --------------------------
(***************************************************************************)
(* What holds of SiteToSite for every set of tasks, names, keys, data,     *)
(* calls and faults: its types, that it implements SavedConfig, what a     *)
(* call may say, save and leave behind when no other is in flight beside   *)
(* it, and that a single task loses no key.                                *)
(*                                                                         *)
(* Every step of a call moves its task to another phase of the same call   *)
(* or ends the call (Moves); reads change nothing else, writes change one  *)
(* slot of rc, and only Save changes sc.                                   *)
(***************************************************************************)
EXTENDS SiteToSite, SequenceTheorems, TLAPS

-----------------------------------------------------------------------------
(* Tasks. *)

GoesOn(t) ==
  \E j \in Job : /\ job' = [job EXCEPT ![t] = j]
                 /\ j.pc # "idle" /\ j.call = job[t].call /\ j.alone = job[t].alone
                 /\ j.pc = "save" => j.call.save
                 /\ report' = report
IsOver(t) ==
  \E r \in Report : /\ job' = [job EXCEPT ![t] = IdleJob]
                    /\ report' = [report EXCEPT ![t] = r]
Moves(t) == GoesOn(t) \/ IsOver(t)

LEMMA IdleJobType == IdleJob \in Job /\ IdleJob.pc = "idle"
<1>1. (CHOOSE d \in Data : TRUE) \in Data
  BY S2SAssumption
<1>2. QED
  BY <1>1 DEF IdleJob, Job, Phases

LEMMA SaysType == \A end \in {"none", "ok", "error", "partial"} : Says(end) \in Report
BY DEF Says, Report

LEMMA GoMoves ==
  ASSUME TypeOK, NEW t \in Task, NEW pc \in Phases \ {"idle"}, Go(t, pc),
         pc = "save" => job[t].call.save
  PROVE  GoesOn(t)
<1> DEFINE j == [job[t] EXCEPT !.pc = pc]
<1>1. job[t] \in Job
  BY DEF TypeOK
<1>2. j \in Job /\ j.pc = pc /\ j.call = job[t].call /\ j.alone = job[t].alone
  BY <1>1 DEF Job
<1>3. job' = [job EXCEPT ![t] = j] /\ report' = report
  BY DEF Go, TypeOK
<1>4. QED
  BY <1>2, <1>3 DEF GoesOn

\* The answer of a rename that gave up.
LEMMA PartialType ==
  ASSUME TypeOK, NEW t \in Task, NEW b \in BOOLEAN
  PROVE  [Says("partial") EXCEPT !.created = job[t].created, !.dropped = b] \in Report
BY DEF TypeOK, Job, Says, Report

LEMMA EndMoves ==
  ASSUME NEW t \in Task, NEW r \in Report, End(t, r)
  PROVE  IsOver(t)
BY DEF End, IsOver

LEMMA FailMoves ==
  ASSUME TypeOK, NEW t \in Task, Fail(t)
  PROVE  Moves(t)
<1>1. "recover" \in Phases \ {"idle"}
  BY DEF Phases
<1>2. QED
  BY <1>1, GoMoves, EndMoves, SaysType DEF Fail, Moves

LEMMA SendMoves ==
  ASSUME TypeOK, NEW t \in Task, NEW k \in Psk \cup {None}, NEW d \in Data,
         NEW b \in BOOLEAN, Send(t, k, d, b)
  PROVE  Moves(t)
<1> DEFINE j == [job[t] EXCEPT !.pc = "apply", !.psk = k, !.data = d, !.on = b]
<1>1. job[t] \in Job /\ "apply" \in Phases
  BY DEF TypeOK, Phases
<1>2. j \in Job /\ j.pc = "apply" /\ j.call = job[t].call /\ j.alone = job[t].alone
  BY <1>1 DEF Job
<1>3. CASE End(t, Says("error"))
  BY <1>3, EndMoves, SaysType DEF Moves
<1>4. CASE job' = [job EXCEPT ![t] = j] /\ report' = report
  BY <1>2, <1>4 DEF GoesOn, Moves
<1>5. job \in [Task -> Job]
  BY DEF TypeOK
<1>6. QED
  BY <1>3, <1>4, <1>5 DEF Send

\* A call in flight is one of the calls there may be.
LEMMA ActiveCall ==
  ASSUME TypeOK, NEW t \in Task, Active(t)
  PROVE  /\ job[t] \in Job
         /\ job[t].call \in Call
         /\ job[t].call.op \in Ops
         /\ job[t].call.name \in Name
         /\ job[t].call.from \in Name \cup {None}
         /\ job[t].call.psk \in Psk \cup {None}
         /\ job[t].call.data \in Data \cup {None}
         /\ job[t].call.op = "create" /\ job[t].call.from = None => job[t].call.data # None
         /\ job[t].call.op = "rename" => job[t].call.from \in Name \ {job[t].call.name}
BY DEF TypeOK, Active, Call

LEMMA ConnType ==
  ASSUME TypeOK
  PROVE  /\ rc.service \in BOOLEAN /\ sc.service \in BOOLEAN
         /\ DOMAIN rc.conn \subseteq Name /\ rc.conn \in [DOMAIN rc.conn -> Profile]
         /\ \A n \in DOMAIN rc.conn :
              /\ rc.conn[n] \in Profile
              /\ rc.conn[n].psk \in Psk \cup {None}
              /\ rc.conn[n].data \in Data
              /\ rc.conn[n].on \in BOOLEAN
BY DEF TypeOK, Config, Conns, Profile

LEMMA HappensType ==
  ASSUME TypeOK, NEW kind \in FaultKinds, Happens(kind)
  PROVE  faults' \in Seq(FaultKinds)
<1>1. faults \in Seq(FaultKinds)
  BY DEF TypeOK
<1>2. QED
  BY <1>1, AppendProperties DEF Happens

-----------------------------------------------------------------------------
(* Reads. *)

Reads(t) ==
  \/ Load(t) \/ Verify(t) \/ Gone(t) \/ Answer(t) \/ ReadFails(t) \/ Recover(t)

LEMMA ReadsAreActive ==
  ASSUME NEW t \in Task, Reads(t)
  PROVE  Active(t)
BY DEF Reads, Load, LoadForCreate, LoadForUpdate, ReadPsk, LoadForState, StatusForState,
       LoadForDelete, LoadForRename, StatusForRename, Verify, Gone, Answer, ReadFails,
       Recover, Active, At

LEMMA SaveOrReportPhase ==
  ASSUME NEW t \in Task
  PROVE  /\ SaveOrReport(t) \in Phases \ {"idle"}
         /\ SaveOrReport(t) = "save" => job[t].call.save
BY DEF SaveOrReport, Phases

\* The read after the write goes on with what it found, or raises.
LEMMA VerifyFields ==
  ASSUME TypeOK, NEW t \in Task, Verify(t)
  PROVE  \/ /\ Fail(t)
            /\ \/ job[t].call.name \notin DOMAIN rc.conn
               \/ /\ job[t].call.op # "rename"
                  /\ rc.conn[job[t].call.name].data # job[t].data
         \/ \E pc \in {"save", "report", "enable"} :
              /\ pc = IF job[t].call.enable = "keep" /\ job[t].call.op = "update"
                      THEN SaveOrReport(t) ELSE "enable"
              /\ job[t].call.name \in DOMAIN rc.conn
              /\ job[t].call.op # "rename" =>
                   /\ rc.conn[job[t].call.name].data = job[t].data
                   /\ rc.conn[job[t].call.name].psk = None => job'[t].warned
              /\ job' = [job EXCEPT ![t] = job'[t]] /\ job'[t] \in Job /\ report' = report
              /\ job'[t].pc = pc /\ job'[t].call = job[t].call /\ job'[t].psk = job[t].psk
              /\ job'[t].data = job[t].data /\ job'[t].on = job[t].on
              /\ job'[t].created = job[t].created /\ job'[t].alone = job[t].alone
<1> DEFINE c == job[t].call
           w == c.op # "rename" /\ rc.conn[c.name].psk = None
           pc == IF c.enable = "keep" /\ c.op = "update" THEN SaveOrReport(t) ELSE "enable"
           j == [job[t] EXCEPT !.pc = pc, !.warned = w]
           bad == \/ c.name \notin DOMAIN rc.conn
                  \/ c.op # "rename" /\ rc.conn[c.name].data # job[t].data
<1>1. job[t] \in Job /\ job \in [Task -> Job]
  BY DEF TypeOK
<1>2. CASE bad
  BY <1>2 DEF Verify
<1>3. CASE ~bad
  <2>1. job' = [job EXCEPT ![t] = j] /\ report' = report
    BY <1>3 DEF Verify
  <2>2. pc \in {"save", "report", "enable"} /\ pc \in Phases
    BY DEF SaveOrReport, Phases
  <2>3. w \in BOOLEAN
    OBVIOUS
  <2>4. job'[t] = j
    BY <1>1, <2>1
  <2> HIDE DEF w
  <2>5. /\ j \in Job /\ j.pc = pc /\ j.call = c /\ j.psk = job[t].psk
        /\ j.data = job[t].data /\ j.on = job[t].on /\ j.created = job[t].created
        /\ j.alone = job[t].alone /\ j.warned = w
    BY <1>1, <2>2, <2>3 DEF Job
  <2> HIDE DEF j
  <2>6. c.op # "rename" /\ rc.conn[c.name].psk = None => job'[t].warned
    BY <2>4, <2>5 DEF w
  <2>7. job' = [job EXCEPT ![t] = job'[t]]
    BY <2>1, <2>4
  <2>8. QED
    BY <1>3, <2>1, <2>2, <2>4, <2>5, <2>6, <2>7
<1>4. QED
  BY <1>2, <1>3

LEMMA CreateMoves ==
  ASSUME TypeOK, NEW t \in Task, LoadForCreate(t)
  PROVE  Moves(t)
<1> DEFINE c == job[t].call
<1>1. Active(t)
  BY DEF LoadForCreate, Active, At
<1>2. CASE End(t, Says("error"))
  BY <1>2, EndMoves, SaysType DEF Moves
<1>3. CASE c.op = "create" /\ c.from = None /\ Send(t, c.psk, c.data, c.enable = "on")
  BY <1>1, <1>3, ActiveCall, SendMoves
<1>4. CASE /\ c.from \in DOMAIN rc.conn
           /\ Send(t, Given(c.psk, rc.conn[c.from].psk),
                      Given(c.data, rc.conn[c.from].data), c.enable = "on")
  <2>1. /\ Given(c.psk, rc.conn[c.from].psk) \in Psk \cup {None}
        /\ Given(c.data, rc.conn[c.from].data) \in Data
    BY <1>1, <1>4, ActiveCall, ConnType DEF Given
  <2>2. QED
    BY <1>4, <2>1, SendMoves
<1>5. QED
  BY <1>2, <1>3, <1>4 DEF LoadForCreate

LEMMA UpdateMoves ==
  ASSUME TypeOK, NEW t \in Task, LoadForUpdate(t)
  PROVE  Moves(t)
<1> DEFINE c == job[t].call
           d == Given(c.data, rc.conn[c.name].data)
           j == [job[t] EXCEPT !.pc = "psk", !.data = d]
<1>1. Active(t)
  BY DEF LoadForUpdate, Active, At
<1>2. CASE End(t, Says("error"))
  BY <1>2, EndMoves, SaysType DEF Moves
<1>3. ASSUME c.name \in DOMAIN rc.conn
      PROVE  d \in Data
  BY <1>1, <1>3, ActiveCall, ConnType DEF Given
<1>4. CASE c.name \in DOMAIN rc.conn /\ Send(t, c.psk, d, c.enable = "on")
  BY <1>1, <1>3, <1>4, ActiveCall, SendMoves
<1>5. CASE /\ c.name \in DOMAIN rc.conn
           /\ job' = [job EXCEPT ![t] = j] /\ report' = report
  <2>1. job[t] \in Job /\ "psk" \in Phases
    BY DEF TypeOK, Phases
  <2>2. j \in Job /\ j.pc = "psk" /\ j.call = job[t].call /\ j.alone = job[t].alone
    BY <1>3, <1>5, <2>1 DEF Job
  <2>3. QED
    BY <1>5, <2>2 DEF GoesOn, Moves
<1>6. job \in [Task -> Job]
  BY DEF TypeOK
<1>7. QED
  BY <1>2, <1>4, <1>5, <1>6 DEF LoadForUpdate

LEMMA PskMoves ==
  ASSUME TypeOK, NEW t \in Task, ReadPsk(t)
  PROVE  Moves(t)
<1> DEFINE c == job[t].call
           k == IF c.name \in DOMAIN rc.conn THEN rc.conn[c.name].psk ELSE None
<1>1. k \in Psk \cup {None} /\ job[t].data \in Data
  BY ConnType DEF TypeOK, Job
<1>2. QED
  BY <1>1, SendMoves DEF ReadPsk

LEMMA StateMoves ==
  ASSUME TypeOK, NEW t \in Task, LoadForState(t) \/ StatusForState(t)
  PROVE  Moves(t)
<1> DEFINE pc == IF job[t].call.name \in DOMAIN rc.conn THEN "enable" ELSE "status"
           j == [job[t] EXCEPT !.on = (job[t].call.enable = "on"), !.pc = pc]
<1>1. job[t] \in Job /\ job \in [Task -> Job]
      /\ pc \in Phases \ {"idle", "save"}
  BY DEF TypeOK, Phases
<1>2. CASE LoadForState(t)
  <2>1. j \in Job /\ j.pc = pc /\ j.call = job[t].call /\ j.alone = job[t].alone
    BY <1>1 DEF Job
  <2>2. job' = [job EXCEPT ![t] = j] /\ report' = report
    BY <1>1, <1>2 DEF LoadForState
  <2>3. QED
    BY <1>1, <2>1, <2>2 DEF GoesOn, Moves
<1>3. CASE StatusForState(t)
  <2>1. "enable" \in Phases \ {"idle"}
    BY DEF Phases
  <2>2. QED
    BY <1>3, <2>1, GoMoves, EndMoves, SaysType DEF StatusForState, Moves
<1>4. QED
  BY <1>2, <1>3

LEMMA DeleteMoves ==
  ASSUME TypeOK, NEW t \in Task, LoadForDelete(t)
  PROVE  Moves(t)
<1>1. "delete" \in Phases \ {"idle"}
  BY DEF Phases
<1>2. QED
  BY <1>1, GoMoves, EndMoves, SaysType DEF LoadForDelete, Moves

LEMMA RenameMoves ==
  ASSUME TypeOK, NEW t \in Task, LoadForRename(t) \/ StatusForRename(t)
  PROVE  Moves(t)
<1> DEFINE old == job[t].call.from
           j == [job[t] EXCEPT !.pc = "status", !.psk = rc.conn[old].psk,
                               !.data = rc.conn[old].data]
<1>1. job[t] \in Job /\ job \in [Task -> Job] /\ "status" \in Phases \ {"idle"}
  BY DEF TypeOK, Phases
<1>2. CASE LoadForRename(t)
  <2>1. CASE End(t, Says("error"))
    BY <2>1, EndMoves, SaysType DEF Moves
  <2>2. CASE old \in DOMAIN rc.conn /\ job' = [job EXCEPT ![t] = j] /\ report' = report
    <3>1. j \in Job /\ j.pc = "status" /\ j.call = job[t].call /\ j.alone = job[t].alone
      BY <1>1, <2>2, ConnType DEF Job
    <3>2. QED
      BY <2>2, <3>1 DEF GoesOn, Moves
  <2>3. QED
    BY <1>1, <1>2, <2>1, <2>2 DEF LoadForRename
<1>3. CASE StatusForRename(t)
  <2>1. job[t].psk \in Psk \cup {None} /\ job[t].data \in Data
    BY <1>1 DEF Job
  <2>2. (old \in DOMAIN rc.conn => rc.conn[old].on) \in BOOLEAN
    OBVIOUS
  <2>3. QED
    BY <1>3, <2>1, <2>2, SendMoves DEF StatusForRename
<1>4. QED
  BY <1>2, <1>3

LEMMA ReadsMove ==
  ASSUME TypeOK, NEW t \in Task, Reads(t)
  PROVE  Moves(t) /\ UNCHANGED <<rc, sc, calls, kept>> /\ faults' \in Seq(FaultKinds)
<1>1. /\ UNCHANGED <<rc, sc, calls, kept>>
      /\ faults' = faults \/ Happens("read")
  BY DEF Reads, Load, LoadForCreate, LoadForUpdate, ReadPsk, LoadForState, StatusForState,
         LoadForDelete, LoadForRename, StatusForRename, Verify, Gone, Answer, ReadFails,
         Recover
<1>2. faults' \in Seq(FaultKinds)
  BY <1>1, HappensType DEF TypeOK, FaultKinds
<1>3. ASSUME Load(t) PROVE Moves(t)
  BY <1>3, CreateMoves, UpdateMoves, PskMoves, StateMoves, DeleteMoves, RenameMoves
  DEF Load
<1>4. "enable" \in Phases \ {"idle"} /\ "drop" \in Phases \ {"idle"}
  BY DEF Phases
<1>5. ASSUME Gone(t) \/ ReadFails(t) PROVE Moves(t)
  BY <1>4, <1>5, FailMoves, GoMoves, SaveOrReportPhase DEF Gone, ReadFails, Moves
<1>6. ASSUME Verify(t) PROVE Moves(t)
  <2>1. CASE Fail(t)
    BY <2>1, FailMoves
  <2>2. CASE ~Fail(t)
    <3>1. /\ job' = [job EXCEPT ![t] = job'[t]] /\ job'[t] \in Job /\ report' = report
          /\ job'[t].call = job[t].call /\ job'[t].pc # "idle"
          /\ job'[t].alone = job[t].alone
          /\ job'[t].pc = "save" => job[t].call.save
      BY <1>6, <2>2, VerifyFields, SaveOrReportPhase
    <3>2. QED
      BY <3>1 DEF GoesOn, Moves
  <2>3. QED
    BY <2>1, <2>2
<1>7. ASSUME Answer(t) PROVE Moves(t)
  <2> DEFINE w == \/ job[t].warned
                  \/ /\ job[t].call.op = "create" /\ job[t].call.save
                     /\ job[t].call.name \notin DOMAIN sc.conn
             r == [Says("ok") EXCEPT !.warned = w]
  <2>1. Active(t)
    BY <1>7, ReadsAreActive DEF Reads
  <2>2. w \in BOOLEAN
    BY <2>1, ActiveCall DEF Job, Call
  <2>3. End(t, Says("error")) \/ End(t, r)
    BY <1>7 DEF Answer
  <2> HIDE DEF w
  <2>4. r \in Report
    BY <2>2 DEF Says, Report
  <2> HIDE DEF r
  <2>5. QED
    BY <2>3, <2>4, EndMoves, SaysType DEF Moves
<1>8. ASSUME Recover(t) PROVE Moves(t)
  BY <1>4, <1>8, PartialType, GoMoves, EndMoves DEF Recover, Partial, Moves
<1>9. QED
  BY <1>1, <1>2, <1>3, <1>5, <1>6, <1>7, <1>8 DEF Reads

-----------------------------------------------------------------------------
(* Writes. *)

Writes(t) ==
  \/ Apply(t) \/ Enable(t) \/ Service(t) \/ Delete(t) \/ Save(t) \/ Drop(t)

OneSlot(c, d) == SC!DifferInOne(Slots(c), Slots(d))

LEMMA SameSlots == \A c : Name # {} => OneSlot(c, c)
BY DEF OneSlot, SC!DifferInOne

LEMMA ConnDiffers ==
  ASSUME NEW c, NEW d, NEW n \in Name, c.service = d.service,
         DOMAIN c.conn \subseteq Name, DOMAIN d.conn \subseteq Name,
         DOMAIN c.conn \ {n} = DOMAIN d.conn \ {n},
         \A m \in DOMAIN c.conn \ {n} : c.conn[m] = d.conn[m]
  PROVE  OneSlot(c, d)
<1>1. DOMAIN Slots(c) \ {n} = DOMAIN Slots(d) \ {n}
  BY DEF Slots
<1>2. \A m \in DOMAIN Slots(c) \ {n} : Slots(c)[m] = Slots(d)[m]
  BY DEF Slots
<1>3. QED
  BY <1>1, <1>2 DEF OneSlot, SC!DifferInOne

LEMMA ServiceDiffers ==
  ASSUME TypeOK, rc' = [rc EXCEPT !.service = TRUE]
  PROVE  rc' \in Config /\ OneSlot(rc, rc')
<1>1. rc' \in Config /\ rc'.conn = rc.conn
  BY DEF TypeOK, Config
<1>2. DOMAIN Slots(rc) \ {None} = DOMAIN Slots(rc') \ {None}
  BY <1>1, ConnType, S2SAssumption DEF Slots
<1>3. \A m \in DOMAIN Slots(rc) \ {None} : Slots(rc)[m] = Slots(rc')[m]
  BY <1>1 DEF Slots
<1>4. QED
  BY <1>1, <1>2, <1>3 DEF OneSlot, SC!DifferInOne

LEMMA AppliedDiffers ==
  ASSUME TypeOK, NEW n \in Name, NEW k \in Psk \cup {None}, NEW d \in Data,
         NEW c \in Applied(rc, n, k, d)
  PROVE  c \in Config /\ OneSlot(rc, c)
<1>1. PICK on \in BOOLEAN :
        c = [rc EXCEPT !.conn = [m \in DOMAIN rc.conn \cup {n} |->
               IF m = n THEN [psk |-> k, data |-> d, on |-> on] ELSE rc.conn[m]]]
  BY ConnType DEF Applied
<1>2. [psk |-> k, data |-> d, on |-> on] \in Profile
  BY DEF Profile
<1>3. rc = [conn |-> rc.conn, service |-> rc.service] /\ rc.service \in BOOLEAN
  BY DEF TypeOK, Config
<1>4. /\ c.service = rc.service
      /\ c.conn = [m \in DOMAIN rc.conn \cup {n} |->
           IF m = n THEN [psk |-> k, data |-> d, on |-> on] ELSE rc.conn[m]]
      /\ c = [conn |-> c.conn, service |-> c.service]
  BY <1>1, <1>3
<1>5. DOMAIN c.conn = DOMAIN rc.conn \cup {n} /\ DOMAIN c.conn \subseteq Name
  BY <1>4, ConnType
<1>6. c.conn \in [DOMAIN c.conn -> Profile]
  BY <1>2, <1>4, <1>5, ConnType
<1>7. c \in Config
  BY <1>3, <1>4, <1>5, <1>6 DEF Config, Conns
<1>8. QED
  BY <1>4, <1>5, <1>7, ConnType, ConnDiffers

LEMMA RemovedDiffers ==
  ASSUME TypeOK, NEW n \in Name
  PROVE  Removed(rc, n) \in Config /\ OneSlot(rc, Removed(rc, n))
<1> DEFINE c == Removed(rc, n)
<1>1. rc = [conn |-> rc.conn, service |-> rc.service] /\ rc.service \in BOOLEAN
  BY DEF TypeOK, Config
<1>2. /\ c.service = rc.service
      /\ c.conn = [m \in DOMAIN rc.conn \ {n} |-> rc.conn[m]]
      /\ c = [conn |-> c.conn, service |-> c.service]
  BY <1>1 DEF Removed
<1>3. DOMAIN c.conn = DOMAIN rc.conn \ {n} /\ DOMAIN c.conn \subseteq Name
  BY <1>2, ConnType
<1>4. c.conn \in [DOMAIN c.conn -> Profile]
  BY <1>2, <1>3, ConnType
<1>5. c \in Config
  BY <1>1, <1>2, <1>3, <1>4 DEF Config, Conns
<1> HIDE DEF c
<1>6. OneSlot(rc, c)
  BY <1>2, <1>3, ConnType, ConnDiffers
<1>7. QED
  BY <1>5, <1>6 DEF c

LEMMA SwitchedDiffers ==
  ASSUME TypeOK, NEW n \in DOMAIN rc.conn, NEW on \in BOOLEAN
  PROVE  Switched(rc, n, on) \in Config /\ OneSlot(rc, Switched(rc, n, on))
<1> DEFINE c == Switched(rc, n, on)
           p == [rc.conn[n] EXCEPT !.on = on]
<1>1. rc = [conn |-> rc.conn, service |-> rc.service] /\ rc.service \in BOOLEAN
  BY DEF TypeOK, Config
<1>2. p \in Profile
  BY ConnType DEF Profile
<1>3. /\ c.service = rc.service
      /\ c.conn = [rc.conn EXCEPT ![n] = p]
      /\ c = [conn |-> c.conn, service |-> c.service]
  BY <1>1 DEF Switched
<1>4. DOMAIN c.conn = DOMAIN rc.conn /\ DOMAIN c.conn \subseteq Name
  BY <1>3, ConnType
<1>5. c.conn \in [DOMAIN c.conn -> Profile]
  BY <1>2, <1>3, <1>4, ConnType
<1>6. c \in Config
  BY <1>1, <1>3, <1>4, <1>5 DEF Config, Conns
<1>7. n \in Name /\ \A m \in DOMAIN rc.conn \ {n} : rc.conn[m] = c.conn[m]
  BY <1>3, ConnType
<1> HIDE DEF c
<1>8. OneSlot(rc, c)
  BY <1>3, <1>4, <1>7, ConnType, ConnDiffers
<1>9. QED
  BY <1>6, <1>8 DEF c

\* What a write does to everything but its task and the failures so far.
WritesOnce(t) ==
  /\ rc' \in Config /\ OneSlot(rc, rc')
  /\ sc' = sc \/ (job[t].call.save /\ sc' = rc' /\ rc' = rc)
  /\ calls' = calls
  /\ kept' \subseteq Psk

LEMMA RequestMoves ==
  ASSUME TypeOK, NEW t \in Task, NEW results, NEW pc \in Phases \ {"idle"},
         pc = "save" => job[t].call.save, Request(t, results, pc)
  PROVE  Moves(t) /\ rc' \in results \cup {rc} /\ faults' \in Seq(FaultKinds)
<1>1. "refuse" \in FaultKinds /\ "lost" \in FaultKinds
  BY DEF FaultKinds
<1>2. QED
  BY <1>1, GoMoves, FailMoves, HappensType DEF Request, Moves, TypeOK

LEMMA ApplyWrites ==
  ASSUME TypeOK, NEW t \in Task, Apply(t)
  PROVE  Moves(t) /\ WritesOnce(t) /\ faults' \in Seq(FaultKinds)
<1> DEFINE c == job[t].call
           j == [job[t] EXCEPT !.pc = "verify", !.created = TRUE]
<1>1. Active(t)
  BY DEF Apply, Active, At
<1>2. job[t].psk \in Psk \cup {None} /\ job[t].data \in Data /\ job[t] \in Job
      /\ c.name \in Name /\ c.psk \in Psk \cup {None}
  BY <1>1, ActiveCall DEF Job
<1>3. j \in Job /\ j.pc = "verify" /\ j.call = c /\ j.alone = job[t].alone
  BY <1>2 DEF Job, Phases
<1>4. \/ rc' = rc
      \/ \E k \in Psk \cup {None}, d \in Data : rc' \in Applied(rc, c.name, k, d)
  BY <1>2 DEF Apply
<1>5. rc \in Config /\ OneSlot(rc, rc)
  BY SameSlots, S2SAssumption DEF TypeOK
<1>6. rc' \in Config /\ OneSlot(rc, rc')
  BY <1>2, <1>4, <1>5, AppliedDiffers
<1>7. kept' \subseteq Psk
  BY <1>2 DEF Apply, TypeOK
<1>8. WritesOnce(t)
  BY <1>6, <1>7 DEF Apply, WritesOnce
<1>9. \/ job' = [job EXCEPT ![t] = j] /\ report' = report
      \/ Fail(t)
  BY DEF Apply, TypeOK
<1>10. Moves(t)
  BY <1>3, <1>9, FailMoves DEF Moves, GoesOn
<1>11. faults' = faults \/ \E kind \in FaultKinds : Happens(kind)
  BY DEF Apply, FaultKinds
<1>12. faults' \in Seq(FaultKinds)
  BY <1>11, HappensType DEF TypeOK
<1>13. QED
  BY <1>8, <1>10, <1>12

LEMMA EnableWrites ==
  ASSUME TypeOK, NEW t \in Task, Enable(t)
  PROVE  Moves(t) /\ WritesOnce(t) /\ faults' \in Seq(FaultKinds)
<1> DEFINE c == job[t].call
           next == IF job[t].on THEN "service"
                   ELSE IF c.op = "rename" THEN "delete" ELSE SaveOrReport(t)
<1>1. next \in Phases \ {"idle"} /\ (next = "save" => c.save)
  BY SaveOrReportPhase DEF Phases
<1>2. rc \in Config /\ OneSlot(rc, rc) /\ faults \in Seq(FaultKinds)
  BY SameSlots, S2SAssumption DEF TypeOK
<1>3. job[t].on \in BOOLEAN
  BY DEF TypeOK, Job
<1>4. sc' = sc /\ calls' = calls /\ kept' = kept /\ kept \subseteq Psk
  BY DEF Enable, TypeOK
<1> HIDE DEF next
<1>5. CASE c.name \in DOMAIN rc.conn /\ Request(t, {Switched(rc, c.name, job[t].on)}, next)
  <2>1. /\ Moves(t) /\ faults' \in Seq(FaultKinds)
        /\ rc' \in {Switched(rc, c.name, job[t].on)} \cup {rc}
    BY <1>1, <1>5, RequestMoves
  <2>2. rc' \in Config /\ OneSlot(rc, rc')
    BY <1>2, <1>3, <1>5, <2>1, SwitchedDiffers
  <2>3. QED
    BY <1>4, <2>1, <2>2 DEF WritesOnce
<1>6. CASE Fail(t) /\ UNCHANGED <<rc, faults>>
  BY <1>2, <1>4, <1>6, FailMoves DEF WritesOnce
<1>7. QED
  BY <1>5, <1>6 DEF Enable, next

LEMMA ServiceWrites ==
  ASSUME TypeOK, NEW t \in Task, Service(t)
  PROVE  Moves(t) /\ WritesOnce(t) /\ faults' \in Seq(FaultKinds)
<1> DEFINE next == IF job[t].call.op = "rename" THEN "delete" ELSE SaveOrReport(t)
<1>1. next \in Phases \ {"idle"} /\ (next = "save" => job[t].call.save)
  BY SaveOrReportPhase DEF Phases
<1>2. rc \in Config /\ OneSlot(rc, rc)
  BY SameSlots, S2SAssumption DEF TypeOK
<1>3. sc' = sc /\ calls' = calls /\ kept' = kept /\ kept \subseteq Psk
  BY DEF Service, TypeOK
<1> HIDE DEF next
<1>4. /\ Moves(t) /\ faults' \in Seq(FaultKinds)
      /\ rc' \in {[rc EXCEPT !.service = TRUE]} \cup {rc}
  BY <1>1, RequestMoves DEF Service, next
<1>5. rc' \in Config /\ OneSlot(rc, rc')
  BY <1>2, <1>4, ServiceDiffers
<1>6. QED
  BY <1>3, <1>4, <1>5 DEF WritesOnce

LEMMA DeleteWrites ==
  ASSUME TypeOK, NEW t \in Task, Delete(t)
  PROVE  Moves(t) /\ WritesOnce(t) /\ faults' \in Seq(FaultKinds)
<1> DEFINE c == job[t].call
           old == IF c.op = "rename" THEN c.from ELSE c.name
<1>1. old \in Name
  <2>1. Active(t)
    BY DEF Delete, Active, At
  <2>2. QED
    BY <2>1, ActiveCall
<1>2. rc \in Config /\ OneSlot(rc, rc) /\ faults \in Seq(FaultKinds)
  BY SameSlots, S2SAssumption DEF TypeOK
<1>3. sc' = sc /\ calls' = calls /\ kept' \subseteq Psk
  BY DEF Delete, TypeOK
<1>4. Request(t, {Removed(rc, old)}, "gone") \/ (Fail(t) /\ UNCHANGED <<rc, faults>>)
  BY DEF Delete
<1> HIDE DEF old
<1>5. CASE Request(t, {Removed(rc, old)}, "gone")
  <2>1. "gone" \in Phases \ {"idle"}
    BY DEF Phases
  <2>2. /\ Moves(t) /\ faults' \in Seq(FaultKinds)
        /\ rc' \in {Removed(rc, old)} \cup {rc}
    BY <1>5, <2>1, RequestMoves
  <2>3. rc' \in Config /\ OneSlot(rc, rc')
    BY <1>1, <1>2, <2>2, RemovedDiffers
  <2>4. QED
    BY <1>3, <2>2, <2>3 DEF WritesOnce
<1>6. CASE Fail(t) /\ UNCHANGED <<rc, faults>>
  BY <1>2, <1>3, <1>6, FailMoves DEF WritesOnce
<1>7. QED
  BY <1>4, <1>5, <1>6

\* Only a call that asked for it gets to its save.
SaveAsked == \A t \in Task : At(t, "save") => job[t].call.save

LEMMA SaveWrites ==
  ASSUME TypeOK, SaveAsked, NEW t \in Task, Save(t)
  PROVE  Moves(t) /\ WritesOnce(t) /\ faults' \in Seq(FaultKinds)
<1>1. rc' = rc /\ (sc' = sc \/ sc' = rc) /\ calls' = calls /\ kept' = kept
  BY DEF Save
<1>2. job[t].call.save
  BY DEF Save, SaveAsked
<1>3. rc \in Config /\ OneSlot(rc, rc) /\ kept \subseteq Psk
  BY SameSlots, S2SAssumption DEF TypeOK
<1>4. WritesOnce(t)
  BY <1>1, <1>2, <1>3 DEF WritesOnce
<1>5. "report" \in Phases \ {"idle"} /\ {"refuse", "lost", "nosave"} \subseteq FaultKinds
  BY DEF Phases, FaultKinds
<1>6. Moves(t)
  BY <1>5, GoMoves, FailMoves DEF Save, Moves
<1>7. faults' \in Seq(FaultKinds)
  BY <1>5, HappensType DEF Save, TypeOK
<1>8. QED
  BY <1>4, <1>6, <1>7

LEMMA DropWrites ==
  ASSUME TypeOK, NEW t \in Task, Drop(t)
  PROVE  Moves(t) /\ WritesOnce(t) /\ faults' \in Seq(FaultKinds)
<1> DEFINE new == job[t].call.name
<1>1. new \in Name
  <2>1. Active(t)
    BY DEF Drop, Active, At
  <2>2. QED
    BY <2>1, ActiveCall
<1>2. rc \in Config /\ OneSlot(rc, rc) /\ kept \subseteq Psk
  BY SameSlots, S2SAssumption DEF TypeOK
<1>3. /\ rc' = rc \/ rc' = Removed(rc, new)
      /\ sc' = sc /\ calls' = calls /\ kept' = kept
  BY DEF Drop
<1>4. WritesOnce(t)
  BY <1>1, <1>2, <1>3, RemovedDiffers DEF WritesOnce
<1>6. Moves(t)
  BY PartialType, EndMoves DEF Drop, Partial, Moves
<1>7. {"refuse", "lost"} \subseteq FaultKinds
  BY DEF FaultKinds
<1>8. faults' \in Seq(FaultKinds)
  BY <1>7, HappensType DEF Drop, TypeOK
<1>9. QED
  BY <1>4, <1>6, <1>8

LEMMA StepCases ==
  ASSUME NEW t \in Task, Step(t)
  PROVE  Reads(t) \/ Writes(t)
BY DEF Step, Reads, Writes

LEMMA WritesMove ==
  ASSUME TypeOK, SaveAsked, NEW t \in Task, Writes(t)
  PROVE  Moves(t) /\ WritesOnce(t) /\ faults' \in Seq(FaultKinds) /\ Active(t)
<1>1. Active(t)
  BY DEF Writes, Apply, Enable, Service, Delete, Save, Drop, Active, At
<1>2. QED
  BY <1>1, ApplyWrites, EnableWrites, ServiceWrites, DeleteWrites, SaveWrites, DropWrites
  DEF Writes

-----------------------------------------------------------------------------
(* The inductive invariant: types, and that a save was asked for. *)

Inv == TypeOK /\ SaveAsked

\* A step of a call keeps the jobs, reports and calls in flight in order.
LEMMA MovesInv ==
  ASSUME Inv, NEW t \in Task, Active(t), Moves(t),
         rc' \in Config, sc' \in Config, calls' = calls, kept' \subseteq Psk,
         faults' \in Seq(FaultKinds)
  PROVE  Inv'
<1>1. job \in [Task -> Job] /\ report \in [Task -> Report] /\ calls \in Nat
      /\ \A u \in Task : job[u].pc # "idle" => job[u].call \in Call
  BY DEF Inv, TypeOK
<1>2. job[t].call \in Call
  BY <1>1 DEF Active
<1>3. CASE GoesOn(t)
  <2>1. PICK j \in Job : /\ job' = [job EXCEPT ![t] = j] /\ j.call = job[t].call
                         /\ j.pc = "save" => j.call.save
                         /\ report' = report
    BY <1>3 DEF GoesOn
  <2>2. TypeOK'
    BY <1>1, <1>2, <2>1 DEF TypeOK
  <2>3. SaveAsked'
    BY <1>1, <2>1 DEF SaveAsked, At, Inv
  <2>4. QED
    BY <2>2, <2>3 DEF Inv
<1>4. CASE IsOver(t)
  <2>1. PICK r \in Report : /\ job' = [job EXCEPT ![t] = IdleJob]
                            /\ report' = [report EXCEPT ![t] = r]
    BY <1>4 DEF IsOver
  <2>2. TypeOK'
    BY <1>1, <2>1, IdleJobType DEF TypeOK
  <2>3. SaveAsked'
    BY <1>1, <2>1, IdleJobType DEF SaveAsked, At, Inv
  <2>4. QED
    BY <2>2, <2>3 DEF Inv
<1>5. QED
  BY <1>3, <1>4 DEF Moves

\* A call begins with its load; the others are no longer alone.
LEMMA StartJob ==
  ASSUME TypeOK, NEW t \in Task, Start(t)
  PROVE  \E c \in Calls[t] :
           /\ c \in Call /\ ~Active(t)
           /\ job' \in [Task -> Job]
           /\ job'[t].pc = "load" /\ job'[t].call = c /\ ~job'[t].created
           /\ job'[t].alone => \A u \in Task : ~Active(u)
           /\ \A u \in Task \ {t} : /\ job'[u].pc = job[u].pc /\ job'[u].call = job[u].call
                                     /\ ~job'[u].alone
<1> DEFINE a == \A v \in Task : ~Active(v)
<1>1. job \in [Task -> Job] /\ ~Active(t) /\ a \in BOOLEAN
  BY DEF TypeOK, Start
<1> HIDE DEF a
<1>2. PICK c \in Calls[t] :
        job' = [u \in Task |->
                  IF u = t THEN [IdleJob EXCEPT !.pc = "load", !.call = c, !.alone = a]
                  ELSE [job[u] EXCEPT !.alone = FALSE]]
  BY DEF Start, a
<1>3. c \in Call
  BY S2SAssumption
<1> DEFINE j == [IdleJob EXCEPT !.pc = "load", !.call = c, !.alone = a]
<1>4. j \in Job /\ j.pc = "load" /\ j.call = c /\ j.alone = a
  BY <1>1, <1>3, IdleJobType DEF Job, Phases
<1>5. ~j.created
  BY DEF IdleJob
<1>6. \A u \in Task : /\ [job[u] EXCEPT !.alone = FALSE] \in Job
                      /\ [job[u] EXCEPT !.alone = FALSE].pc = job[u].pc
                      /\ [job[u] EXCEPT !.alone = FALSE].call = job[u].call
                      /\ ~[job[u] EXCEPT !.alone = FALSE].alone
  BY <1>1 DEF Job
<1>7. job'[t] = j /\ \A u \in Task \ {t} : job'[u] = [job[u] EXCEPT !.alone = FALSE]
  BY <1>2
<1>8. job' \in [Task -> Job]
  BY <1>2, <1>4, <1>6
<1> HIDE DEF j
<1>9. QED
  BY <1>1, <1>3, <1>4, <1>5, <1>6, <1>7, <1>8 DEF a

LEMMA StartRest ==
  ASSUME NEW t \in Task, Start(t)
  PROVE  /\ ~Active(t) /\ calls' = calls + 1
         /\ report' = [report EXCEPT ![t] = Says("none")]
         /\ rc' = rc /\ sc' = sc /\ faults' = faults /\ kept' = kept
BY ZenonT(30) DEF Start

LEMMA StartInv ==
  ASSUME Inv, NEW t \in Task, Start(t)
  PROVE  Inv'
<1>1. job \in [Task -> Job] /\ report \in [Task -> Report] /\ calls \in Nat
      /\ \A u \in Task : job[u].pc # "idle" => job[u].call \in Call
  BY DEF Inv, TypeOK
<1>2. /\ job' \in [Task -> Job] /\ job'[t].pc = "load" /\ job'[t].call \in Call
      /\ \A u \in Task \ {t} : job'[u].pc = job[u].pc /\ job'[u].call = job[u].call
  <2>1. TypeOK
    BY DEF Inv
  <2>2. QED
    BY <2>1, StartJob
<1>6. report' \in [Task -> Report] /\ calls' \in Nat /\ UNCHANGED <<rc, sc, faults, kept>>
  BY <1>1, SaysType, StartRest
<1>7. TypeOK'
  BY <1>1, <1>2, <1>6 DEF TypeOK, Inv
<1>8. SaveAsked'
  BY <1>2 DEF SaveAsked, At, Inv
<1>9. QED
  BY <1>7, <1>8 DEF Inv

LEMMA RebootInv ==
  ASSUME Inv, Reboot
  PROVE  Inv'
<1>1. faults' \in Seq(FaultKinds)
  BY HappensType DEF Reboot, FaultKinds, Inv
<1>2. TypeOK'
  BY <1>1, IdleJobType, SaysType DEF Reboot, TypeOK, Inv
<1>3. SaveAsked'
  BY IdleJobType DEF Reboot, SaveAsked, At
<1>4. QED
  BY <1>2, <1>3 DEF Inv

LEMMA InitInv == Init => Inv
<1> SUFFICES ASSUME Init PROVE Inv
  OBVIOUS
<1>1. rc \in Config
  BY S2SAssumption DEF Init, Config
<1>2. kept \subseteq Psk
  BY <1>1 DEF Init, Keys, Config, Conns, Profile
<1>3. TypeOK
  BY <1>1, <1>2, IdleJobType, SaysType, EmptySeq DEF Init, TypeOK
<1>4. SaveAsked
  BY IdleJobType DEF Init, SaveAsked, At
<1>5. QED
  BY <1>3, <1>4 DEF Inv

LEMMA StepInv ==
  ASSUME Inv, NEW t \in Task, Step(t)
  PROVE  Inv'
<1>1. CASE Reads(t)
  BY <1>1, ReadsMove, ReadsAreActive, MovesInv DEF Inv, TypeOK
<1>2. CASE Writes(t)
  <2>1. Moves(t) /\ WritesOnce(t) /\ faults' \in Seq(FaultKinds) /\ Active(t)
    BY <1>2, WritesMove DEF Inv
  <2>2. sc' \in Config
    BY <2>1 DEF WritesOnce, Inv, TypeOK
  <2>3. QED
    BY <2>1, <2>2, MovesInv DEF WritesOnce
<1>3. QED
  BY <1>1, <1>2, StepCases

LEMMA NextInv == Inv /\ [Next]_vars => Inv'
<1> SUFFICES ASSUME Inv, [Next]_vars PROVE Inv'
  OBVIOUS
<1>1. CASE UNCHANGED vars
  BY <1>1 DEF vars, Inv, TypeOK, SaveAsked, At
<1>2. QED
  BY <1>1, RebootInv, StartInv, StepInv DEF Next

LEMMA InvAlways == Spec => []Inv
BY InitInv, NextInv, PTL DEF Spec

\* Whatever calls overlap and whatever fails, the configurations stay partial
\* functions from names to complete profiles, and every job stays a phase of
\* one of the calls there may be.
THEOREM TypeCorrect == Spec => []TypeOK
BY InvAlways, PTL DEF Inv

-----------------------------------------------------------------------------
(* Every step does to rc and sc what SavedConfig allows. *)

OpenTasks == {t \in Task : Active(t)}
ConsentTasks == {t \in Task : Active(t) /\ job[t].call.save}

LEMMA SlotsType ==
  ASSUME NEW c \in Config
  PROVE  SC!IsConfig(Slots(c))
<1>1. DOMAIN c.conn \subseteq Name /\ c.conn \in [DOMAIN c.conn -> Profile]
  BY DEF Config, Conns
<1>2. None \notin Name
  BY S2SAssumption
<1>3. DOMAIN Slots(c) \subseteq Name \cup {None}
  BY <1>1 DEF Slots
<1>4. \A s \in DOMAIN Slots(c) : Slots(c)[s] \in Profile \cup {None}
  BY <1>1, <1>2 DEF Slots
<1>5. Slots(c) = [s \in DOMAIN Slots(c) |-> Slots(c)[s]]
  BY DEF Slots
<1>6. QED
  BY <1>3, <1>4, <1>5 DEF SC!IsConfig

\* A step of a call leaves it open with the same consent, or closes it.
LEMMA MovesOpen ==
  ASSUME TypeOK, NEW t \in Task, Active(t), Moves(t)
  PROVE  \/ OpenTasks' = OpenTasks /\ ConsentTasks' = ConsentTasks
         \/ OpenTasks' = OpenTasks \ {t} /\ ConsentTasks' = ConsentTasks \ {t}
<1>1. job \in [Task -> Job]
  BY DEF TypeOK
<1>2. CASE GoesOn(t)
  <2>1. PICK j \in Job : /\ job' = [job EXCEPT ![t] = j]
                         /\ j.pc # "idle" /\ j.call = job[t].call
    BY <1>2 DEF GoesOn
  <2>2. \A u \in Task : Active(u)' = Active(u) /\ job'[u].call = job[u].call
    BY <1>1, <2>1 DEF Active
  <2>3. QED
    BY <2>2 DEF OpenTasks, ConsentTasks
<1>3. CASE IsOver(t)
  <2>1. job' = [job EXCEPT ![t] = IdleJob]
    BY <1>3 DEF IsOver
  <2>2. ~Active(t)' /\ \A u \in Task \ {t} : job'[u] = job[u] /\ Active(u)' = Active(u)
    BY <1>1, <2>1, IdleJobType DEF Active
  <2>3. QED
    BY <2>2 DEF OpenTasks, ConsentTasks
<1>4. QED
  BY <1>2, <1>3 DEF Moves

LEMMA ReadsAreInvisible ==
  ASSUME Inv, NEW t \in Task, Reads(t)
  PROVE  SC!Close(t) \/ UNCHANGED SC!scVars
<1>1. Active(t) /\ Moves(t) /\ UNCHANGED <<rc, sc>>
  BY ReadsMove, ReadsAreActive DEF Inv
<1>2. \/ OpenTasks' = OpenTasks /\ ConsentTasks' = ConsentTasks
      \/ OpenTasks' = OpenTasks \ {t} /\ ConsentTasks' = ConsentTasks \ {t}
  BY <1>1, MovesOpen DEF Inv
<1>3. t \in OpenTasks /\ Slots(rc)' = Slots(rc) /\ Slots(sc)' = Slots(sc)
  BY <1>1 DEF OpenTasks, Slots
<1>4. QED
  BY <1>2, <1>3 DEF SC!Close, SC!scVars, OpenTasks, ConsentTasks

LEMMA WritesAreRequests ==
  ASSUME Inv, NEW t \in Task, Writes(t)
  PROVE  SC!Request(t)
<1>1. Active(t) /\ Moves(t) /\ WritesOnce(t)
  BY WritesMove DEF Inv
<1>2. \/ OpenTasks' = OpenTasks /\ ConsentTasks' = ConsentTasks
      \/ OpenTasks' = OpenTasks \ {t} /\ ConsentTasks' = ConsentTasks \ {t}
  BY <1>1, MovesOpen DEF Inv
<1>3. /\ SC!IsConfig(Slots(rc')) /\ OneSlot(rc, rc')
      /\ sc' = sc \/ (job[t].call.save /\ sc' = rc')
  BY <1>1, SlotsType DEF WritesOnce
<1>4. t \in OpenTasks /\ (job[t].call.save => t \in ConsentTasks)
  BY <1>1 DEF OpenTasks, ConsentTasks
<1>5. Slots(rc)' = Slots(rc') /\ Slots(sc)' = Slots(sc')
  BY DEF Slots
<1>6. Slots(sc)' = Slots(sc) \/ (t \in ConsentTasks /\ Slots(sc)' = Slots(rc)')
  BY <1>3, <1>4, <1>5
<1>7. QED
  BY <1>2, <1>3, <1>4, <1>5, <1>6 DEF SC!Request, OneSlot, OpenTasks, ConsentTasks

LEMMA StartOpens ==
  ASSUME Inv, NEW t \in Task, Start(t)
  PROVE  SC!Open(t)
<1>4. /\ job'[t].pc = "load"
      /\ \A u \in Task \ {t} : job'[u].pc = job[u].pc /\ job'[u].call = job[u].call
  BY StartJob DEF Inv
<1>5. Active(t)' /\ ~Active(t) /\ \A u \in Task \ {t} : Active(u)' = Active(u)
  BY <1>4 DEF Active, Start
<1>6. OpenTasks' = OpenTasks \cup {t} /\ t \notin OpenTasks
  BY <1>5 DEF OpenTasks
<1>7. ConsentTasks' = ConsentTasks \/ ConsentTasks' = ConsentTasks \cup {t}
  BY <1>4, <1>5 DEF ConsentTasks
<1>8. Slots(rc)' = Slots(rc) /\ Slots(sc)' = Slots(sc)
  BY DEF Start, Slots
<1>9. QED
  BY <1>6, <1>7, <1>8 DEF SC!Open, OpenTasks, ConsentTasks

LEMMA RebootIsReboot ==
  ASSUME Inv, Reboot
  PROVE  SC!Reboot
<1>1. \A t \in Task : ~Active(t)'
  BY IdleJobType DEF Reboot, Active
<1>2. OpenTasks' = {} /\ ConsentTasks' = {}
  BY <1>1 DEF OpenTasks, ConsentTasks
<1>3. Slots(rc)' = Slots(sc) /\ Slots(sc)' = Slots(sc)
  BY DEF Reboot, Slots
<1>4. QED
  BY <1>2, <1>3 DEF SC!Reboot, OpenTasks, ConsentTasks

LEMMA InitRefines == Init => SC!SCInit
<1> SUFFICES ASSUME Init PROVE SC!SCInit
  OBVIOUS
<1>1. rc \in Config /\ sc = rc
  BY InitInv DEF Init, Inv, TypeOK
<1>2. \A t \in Task : ~Active(t)
  BY IdleJobType DEF Init, Active
<1>3. QED
  BY <1>1, <1>2, SlotsType DEF SC!SCInit

LEMMA NextRefines == Inv /\ [Next]_vars => [SC!SCNext]_SC!scVars
<1> SUFFICES ASSUME Inv, [Next]_vars PROVE [SC!SCNext]_SC!scVars
  OBVIOUS
<1>1. CASE Reboot
  BY <1>1, RebootIsReboot DEF SC!SCNext
<1>2. ASSUME NEW t \in Task, Start(t) PROVE SC!SCNext
  BY <1>2, StartOpens DEF SC!SCNext
<1>3. ASSUME NEW t \in Task, Step(t) PROVE [SC!SCNext]_SC!scVars
  BY <1>3, StepCases, ReadsAreInvisible, WritesAreRequests DEF SC!SCNext
<1>4. CASE UNCHANGED vars
  BY <1>4 DEF vars, SC!scVars, Slots, Active
<1>5. QED
  BY <1>1, <1>2, <1>3, <1>4 DEF Next

\* Whatever calls overlap and whatever fails, a request of an IPsec tool changes
\* one profile or the service, and sc changes only for a call in flight that
\* asked for a save, and then becomes rc.
THEOREM SavedOnlyOnRequest == Spec => ImplementsSavedConfig
<1>1. Init => SC!SCInit
  BY InitRefines
<1>2. Inv /\ [Next]_vars => [SC!SCNext]_SC!scVars
  BY NextRefines
<1>3. QED
  BY <1>1, <1>2, InvAlways, PTL DEF Spec, ImplementsSavedConfig, SC!SCSpec

-----------------------------------------------------------------------------
(* A single task loses no key. *)

Alone == \A s, u \in Task : s = u

\* Two configurations with the same keys under the same names.
SameKeys(c, d) ==
  /\ DOMAIN c.conn = DOMAIN d.conn
  /\ \A n \in DOMAIN c.conn : c.conn[n].psk = d.conn[n].psk

AfterApply == {"verify", "enable", "service", "delete", "gone", "save", "report", "drop"}

\* Where the key of a rename is: under the old name as long as that is there,
\* and under the new one from the answered write on, unless the router left it
\* out, and then it is a key given up; the handler only drops the new profile
\* beside the old one.
RenameHolds(t) ==
  LET j == job[t]
      c == j.call
  IN  /\ j.pc = "load" => ~j.created
      /\ j.pc # "load" /\ c.from \in DOMAIN rc.conn => rc.conn[c.from].psk = j.psk
      /\ j.created => /\ c.name \in DOMAIN rc.conn
                      /\ rc.conn[c.name].psk \in {j.psk, None}
                      /\ rc.conn[c.name].psk = None => j.psk \notin kept
      /\ j.pc \in {"status", "apply"} => c.name \notin DOMAIN rc.conn
      /\ j.pc \in AfterApply => j.created
      /\ j.pc = "drop" => c.from \in DOMAIN rc.conn

\* What a create or update is about to write: the key it was given, or the one
\* the profile has.
WriteHolds(t) ==
  LET j == job[t]
      c == j.call
  IN  /\ c.psk # None => j.psk = c.psk
      /\ c.op = "update" /\ c.psk = None =>
           c.name \in DOMAIN rc.conn /\ rc.conn[c.name].psk = j.psk

\* The phases only some of the tools go through.
PhaseOfTool(t) ==
  LET j == job[t]
      c == j.call
  IN  /\ j.pc = "psk" => c.op = "update" /\ c.psk = None
      /\ j.pc = "delete" => c.op \in {"delete", "rename"}
      /\ j.pc \in {"recover", "drop"} => c.op = "rename"

Held(t) ==
  /\ PhaseOfTool(t)
  /\ Active(t) /\ job[t].call.op = "rename" => RenameHolds(t)
  /\ At(t, "apply") /\ job[t].call.op # "rename" => WriteHolds(t)

KeyInv == KeyKept /\ \A t \in Task : Held(t)

LEMMA SameKeysSame == \A c, d : SameKeys(c, d) => Keys(c) = Keys(d)
BY DEF SameKeys, Keys

LEMMA SameKeysSelf == SameKeys(rc, rc)
BY DEF SameKeys

LEMMA EndHeld ==
  ASSUME TypeOK, NEW t \in Task, NEW r, End(t, r)
  PROVE  Held(t)'
<1>1. job'[t] = IdleJob
  BY DEF End, TypeOK
<1>2. QED
  BY <1>1, IdleJobType DEF Held, PhaseOfTool, Active, At

LEMMA OnHeld ==
  ASSUME TypeOK, NEW t \in Task, Active(t), Held(t), SameKeys(rc, rc'), kept' = kept, NEW pc,
         job'[t].pc = pc, job'[t].call = job[t].call,
         job'[t].psk = job[t].psk, job'[t].created = job[t].created,
         pc \notin {"load", "apply", "psk", "status"},
         pc = "delete" => job[t].call.op \in {"delete", "rename"},
         pc \in {"recover", "drop"} => job[t].call.op = "rename",
         job[t].pc = "load" => job[t].call.op # "rename",
         pc \in AfterApply /\ job[t].call.op = "rename" => job[t].created,
         pc = "drop" => job[t].call.from \in DOMAIN rc.conn
  PROVE  Held(t)'
BY DEF Held, PhaseOfTool, RenameHolds, Active, At, SameKeys, AfterApply

LEMMA GoHeld ==
  ASSUME TypeOK, NEW t \in Task, Active(t), Held(t), SameKeys(rc, rc'), kept' = kept, NEW pc,
         Go(t, pc), pc \notin {"load", "apply", "psk", "status"},
         pc = "delete" => job[t].call.op \in {"delete", "rename"},
         pc \in {"recover", "drop"} => job[t].call.op = "rename",
         job[t].pc = "load" => job[t].call.op # "rename",
         pc \in AfterApply /\ job[t].call.op = "rename" => job[t].created,
         pc = "drop" => job[t].call.from \in DOMAIN rc.conn
  PROVE  Held(t)'
<1>1. job[t] \in Job
  BY DEF TypeOK
<1>2. job'[t] = [job[t] EXCEPT !.pc = pc]
  BY DEF Go, TypeOK
<1>3. /\ job'[t].pc = pc /\ job'[t].call = job[t].call
      /\ job'[t].psk = job[t].psk /\ job'[t].created = job[t].created
  BY <1>1, <1>2 DEF Job
<1>4. QED
  BY <1>3, OnHeld

LEMMA FailHeld ==
  ASSUME TypeOK, NEW t \in Task, Active(t), Held(t), SameKeys(rc, rc'), kept' = kept, Fail(t)
  PROVE  Held(t)'
<1>1. CASE End(t, Says("error"))
  BY <1>1, EndHeld
<1>2. CASE Go(t, "recover") /\ job[t].pc # "load" /\ job[t].call.op = "rename"
  BY <1>2, GoHeld DEF AfterApply
<1>3. QED
  BY <1>1, <1>2 DEF Fail

\* Send, when rc stays what it is.
LEMMA SendHeld ==
  ASSUME TypeOK, NEW t \in Task, NEW k, NEW d, NEW b, Active(t), Held(t), rc' = rc, kept' = kept,
         Send(t, k, d, b),
         job[t].call.op = "rename" =>
           job[t].pc = "status" /\ k = job[t].psk,
         job[t].call.op # "rename" /\ job[t].call.psk # None => k = job[t].call.psk,
         job[t].call.op = "update" /\ job[t].call.psk = None /\ k # None =>
           /\ job[t].call.name \in DOMAIN rc.conn
           /\ rc.conn[job[t].call.name].psk = k
  PROVE  Held(t)'
<1>1. CASE End(t, Says("error"))
  BY <1>1, EndHeld
<1>2. CASE k # None /\ job' = [job EXCEPT ![t] = [@ EXCEPT !.pc = "apply", !.psk = k,
                                                         !.data = d, !.on = b]]
  <2>1. job[t] \in Job
    BY DEF TypeOK
  <2>2. job'[t] = [job[t] EXCEPT !.pc = "apply", !.psk = k, !.data = d, !.on = b]
    BY <1>2 DEF TypeOK
  <2>3. /\ job'[t].pc = "apply" /\ job'[t].call = job[t].call
        /\ job'[t].psk = k /\ job'[t].created = job[t].created
    BY <2>1, <2>2 DEF Job
  <2>4. QED
    BY <1>2, <2>3 DEF Held, PhaseOfTool, RenameHolds, WriteHolds, Active, At, AfterApply
<1>3. QED
  BY <1>1, <1>2 DEF Send

\* Reads leave the configuration alone.
LEMMA LoadsHeld ==
  ASSUME TypeOK, NEW t \in Task, Held(t), Load(t)
  PROVE  Held(t)'
<1> DEFINE c == job[t].call
<1>1. Active(t) /\ rc' = rc /\ kept' = kept /\ SameKeys(rc, rc')
  BY SameKeysSelf DEF Load, LoadForCreate, LoadForUpdate, ReadPsk, LoadForState,
     StatusForState, LoadForDelete, LoadForRename, StatusForRename, Active, At, SameKeys
<1>2. job[t] \in Job
  BY DEF TypeOK
<1>3. CASE LoadForCreate(t)
  BY <1>1, <1>3, EndHeld, SendHeld DEF LoadForCreate, Given
<1>4. CASE LoadForUpdate(t)
  <2>1. CASE /\ c.psk = None
             /\ job' = [job EXCEPT ![t] = [@ EXCEPT !.pc = "psk",
                          !.data = Given(c.data, rc.conn[c.name].data)]]
    <3>1. job'[t] = [job[t] EXCEPT !.pc = "psk",
                       !.data = Given(c.data, rc.conn[c.name].data)]
      BY <2>1 DEF TypeOK
    <3>2. job'[t].pc = "psk" /\ job'[t].call = c
      BY <1>2, <3>1 DEF Job
    <3>3. QED
      BY <1>4, <2>1, <3>2 DEF LoadForUpdate, Held, PhaseOfTool, Active, At
  <2>2. CASE End(t, Says("error"))
    BY <2>2, EndHeld
  <2>3. CASE c.psk # None
             /\ Send(t, c.psk, Given(c.data, rc.conn[c.name].data), c.enable = "on")
    BY <1>1, <1>4, <2>3, SendHeld DEF LoadForUpdate
  <2>4. QED
    BY <1>4, <2>1, <2>2, <2>3 DEF LoadForUpdate
<1>5. CASE ReadPsk(t)
  <2>1. c.op = "update" /\ c.psk = None
    BY <1>5 DEF ReadPsk, Held, PhaseOfTool, At
  <2>2. QED
    BY <1>1, <1>5, <2>1, SendHeld DEF ReadPsk
<1>6. CASE LoadForState(t)
  <2>1. job'[t].call = c /\ job'[t].pc \in {"enable", "status"}
    BY <1>2, <1>6 DEF LoadForState, TypeOK, Job
  <2>2. QED
    BY <1>6, <2>1 DEF LoadForState, Held, PhaseOfTool, Active, At
<1>7. CASE StatusForState(t)
  BY <1>1, <1>7, EndHeld, GoHeld DEF StatusForState, At
<1>8. CASE LoadForDelete(t)
  BY <1>1, <1>8, EndHeld, GoHeld DEF LoadForDelete, At
<1>9. CASE LoadForRename(t)
  <2>1. CASE job' = [job EXCEPT ![t] = [@ EXCEPT !.pc = "status",
                       !.psk = rc.conn[c.from].psk, !.data = rc.conn[c.from].data]]
    <3>1. job'[t] = [job[t] EXCEPT !.pc = "status",
                       !.psk = rc.conn[c.from].psk, !.data = rc.conn[c.from].data]
      BY <2>1 DEF TypeOK
    <3>2. /\ job'[t].pc = "status" /\ job'[t].call = c
          /\ job'[t].psk = rc.conn[c.from].psk /\ job'[t].created = job[t].created
      BY <1>2, <3>1 DEF Job
    <3>3. ~job[t].created
      BY <1>1, <1>9 DEF LoadForRename, Held, RenameHolds, At
    <3>4. c.from \in DOMAIN rc.conn /\ c.name \notin DOMAIN rc.conn /\ c.op = "rename"
      <4>1. ~(c.from \in DOMAIN rc.conn /\ c.name \notin DOMAIN rc.conn
              /\ rc.conn[c.from].psk # None) => job'[t].pc = "idle"
        BY <1>9, IdleJobType DEF LoadForRename, End, TypeOK
      <4>2. QED
        BY <1>9, <3>2, <4>1 DEF LoadForRename
    <3>5. PhaseOfTool(t)' /\ RenameHolds(t)'
      BY <1>1, <3>2, <3>3, <3>4 DEF PhaseOfTool, RenameHolds, AfterApply
    <3>6. QED
      BY <3>2, <3>5 DEF Held, At
  <2>2. CASE End(t, Says("error"))
    BY <2>2, EndHeld
  <2>3. QED
    BY <1>9, <2>1, <2>2 DEF LoadForRename
<1>10. CASE StatusForRename(t)
  BY <1>1, <1>10, SendHeld DEF StatusForRename, At
<1>11. QED
  BY <1>3, <1>4, <1>5, <1>6, <1>7, <1>8, <1>9, <1>10 DEF Load

LEMMA ReadsHeld ==
  ASSUME TypeOK, NEW t \in Task, Held(t), Reads(t)
  PROVE  Held(t)'
<1> DEFINE c == job[t].call
<1>1. Active(t) /\ rc' = rc /\ kept' = kept /\ SameKeys(rc, rc')
  BY ReadsMove, ReadsAreActive, SameKeysSelf DEF SameKeys
<1>2. c.op \in Ops
  BY <1>1, ActiveCall
<1>3. CASE Load(t)
  BY <1>3, LoadsHeld
<1>4. SaveOrReport(t) \in {"save", "report"}
  BY DEF SaveOrReport
<1>5. CASE Verify(t)
  <2>1. CASE Fail(t)
    BY <1>1, <2>1, FailHeld
  <2>2. CASE ~Fail(t)
    <3>1. /\ job[t].pc = "verify" /\ job'[t].pc \in {"save", "report", "enable"}
          /\ job'[t].call = c /\ job'[t].psk = job[t].psk /\ job'[t].created = job[t].created
      BY <1>5, <2>2, VerifyFields DEF Verify, At
    <3>2. c.op = "rename" => job[t].created
      BY <1>1, <3>1 DEF Held, RenameHolds, AfterApply
    <3>3. QED
      BY <1>1, <3>1, <3>2, OnHeld
  <2>3. QED
    BY <2>1, <2>2
<1>6. CASE Gone(t)
  BY <1>1, <1>4, <1>6, FailHeld, GoHeld
  DEF Gone, Held, RenameHolds, At, AfterApply
<1>7. CASE Answer(t)
  BY <1>7, EndHeld DEF Answer
<1>8. CASE ReadFails(t)
  BY <1>1, <1>8, FailHeld DEF ReadFails
<1>9. CASE Recover(t)
  BY <1>1, <1>9, EndHeld, GoHeld DEF Recover, Partial, Held, PhaseOfTool, At
<1>10. QED
  BY <1>3, <1>5, <1>6, <1>7, <1>8, <1>9 DEF Reads

\* Writes that leave every key where it is.
LEMMA OtherWritesHeld ==
  ASSUME TypeOK, NEW t \in Task, Held(t), Enable(t) \/ Service(t) \/ Save(t)
  PROVE  Held(t)' /\ SameKeys(rc, rc') /\ kept' = kept
<1> DEFINE c == job[t].call
<1>1. Active(t) /\ kept' = kept
  BY DEF Enable, Service, Save, Active, At
<1>2. SaveOrReport(t) \in {"save", "report"}
  BY DEF SaveOrReport
<1>3. \A n \in DOMAIN rc.conn : SameKeys(rc, Switched(rc, n, job[t].on))
  <2> TAKE n \in DOMAIN rc.conn
  <2>1. rc \in Config /\ rc.conn[n] \in Profile
    BY ConnType DEF TypeOK
  <2> DEFINE s == Switched(rc, n, job[t].on)
  <2>2. s.conn = [rc.conn EXCEPT ![n] = [rc.conn[n] EXCEPT !.on = job[t].on]]
    BY <2>1 DEF Switched, Config
  <2>3. [rc.conn[n] EXCEPT !.on = job[t].on].psk = rc.conn[n].psk
    BY <2>1 DEF Profile
  <2>4. rc.conn \in [DOMAIN rc.conn -> Profile]
    BY ConnType
  <2> HIDE DEF s
  <2>5. DOMAIN s.conn = DOMAIN rc.conn /\ \A m \in DOMAIN rc.conn : s.conn[m].psk = rc.conn[m].psk
    BY <2>2, <2>3, <2>4
  <2>6. QED
    BY <2>5 DEF SameKeys, s
<1>4. SameKeys(rc, [rc EXCEPT !.service = TRUE])
  <2>1. [rc EXCEPT !.service = TRUE].conn = rc.conn
    BY DEF TypeOK, Config
  <2>2. QED
    BY <2>1 DEF SameKeys
<1>5. SameKeys(rc, rc')
  BY <1>3, <1>4, SameKeysSelf DEF Enable, Service, Save, Request, SameKeys
<1>6. CASE Enable(t)
  BY <1>1, <1>2, <1>5, <1>6, FailHeld, GoHeld
  DEF Enable, Request, Held, RenameHolds, At, AfterApply
<1>7. CASE Service(t)
  BY <1>1, <1>2, <1>5, <1>7, FailHeld, GoHeld
  DEF Service, Request, Held, RenameHolds, At, AfterApply
<1>8. CASE Save(t)
  BY <1>1, <1>5, <1>8, FailHeld, GoHeld
  DEF Save, Held, RenameHolds, At, AfterApply
<1>9. QED
  BY <1>1, <1>5, <1>6, <1>7, <1>8

\* What a write of a profile leaves behind.
LEMMA AppliedKeys ==
  ASSUME TypeOK, NEW n, NEW k, NEW d, NEW c \in Applied(rc, n, k, d)
  PROVE  /\ DOMAIN c.conn = DOMAIN rc.conn \cup {n}
         /\ c.conn[n].psk = k
         /\ \A m \in DOMAIN rc.conn \ {n} : c.conn[m] = rc.conn[m]
<1>1. PICK on : c = [rc EXCEPT !.conn = [m \in DOMAIN rc.conn \cup {n} |->
               IF m = n THEN [psk |-> k, data |-> d, on |-> on] ELSE rc.conn[m]]]
  BY DEF Applied
<1>2. c.conn = [m \in DOMAIN rc.conn \cup {n} |->
               IF m = n THEN [psk |-> k, data |-> d, on |-> on] ELSE rc.conn[m]]
  BY <1>1 DEF TypeOK, Config
<1>3. QED
  BY <1>2

LEMMA RemovedKeys ==
  ASSUME TypeOK, NEW n
  PROVE  /\ DOMAIN Removed(rc, n).conn = DOMAIN rc.conn \ {n}
         /\ \A m \in DOMAIN rc.conn \ {n} : Removed(rc, n).conn[m] = rc.conn[m]
<1>1. Removed(rc, n).conn = [m \in DOMAIN rc.conn \ {n} |-> rc.conn[m]]
  BY DEF Removed, TypeOK, Config
<1>2. QED
  BY <1>1

\* The write: a key it replaces was asked away, unless it is written again.
LEMMA ApplyKeeps ==
  ASSUME TypeOK, NEW t \in Task, Held(t), KeyKept, Apply(t)
  PROVE  KeyKept'
<1> DEFINE c == job[t].call
<1>1. Active(t) /\ At(t, "apply")
  BY DEF Apply, Active, At
<1>2. CASE rc' = rc
  BY <1>2 DEF Apply, KeyKept, Keys
<1>3. CASE rc' # rc
  <2>1. PICK p \in {job[t].psk, None}, d \in Data : rc' \in Applied(rc, c.name, p, d)
    BY <1>3 DEF Apply, TypeOK, Job
  <2>2. /\ DOMAIN rc'.conn = DOMAIN rc.conn \cup {c.name}
        /\ rc'.conn[c.name].psk = p
        /\ \A m \in DOMAIN rc.conn \ {c.name} : rc'.conn[m] = rc.conn[m]
    BY <2>1, AppliedKeys
  <2>3. SUFFICES ASSUME NEW k \in kept'
                 PROVE  k \in Keys(rc')
    BY DEF KeyKept
  <2>4. c.psk # None => c.op # "rename"
    BY <1>1, ActiveCall DEF Call
  <2>5. CASE k = c.psk /\ c.psk # None /\ p # None
    BY <1>1, <2>2, <2>4, <2>5 DEF Held, WriteHolds, Keys
  <2>6. CASE k \in kept /\ ~(c.name \in DOMAIN rc.conn /\ rc.conn[c.name].psk = k)
    BY <2>2, <2>6 DEF KeyKept, Keys
  <2>7. CASE k \in kept /\ c.op = "update" /\ c.psk = None /\ (p = None => k # job[t].psk)
    <3>1. rc.conn[c.name].psk = job[t].psk
      BY <1>1, <2>7 DEF Held, WriteHolds
    <3>2. QED
      BY <2>2, <2>6, <2>7, <3>1 DEF KeyKept, Keys
  <2> DEFINE replaced == IF c.name \in DOMAIN rc.conn /\ ~(c.op = "update" /\ c.psk = None)
                         THEN {rc.conn[c.name].psk} ELSE {}
  <2>8. kept' = IF p # None THEN (kept \ replaced) \cup ({c.psk} \ {None})
                ELSE kept \ (replaced \cup {job[t].psk})
    BY <1>3, <2>2 DEF Apply
  <2>9. CASE p # None
    BY <2>3, <2>5, <2>6, <2>7, <2>8, <2>9
  <2>10. CASE p = None
    BY <2>3, <2>6, <2>7, <2>8, <2>10
  <2>11. QED
    BY <2>9, <2>10
<1>4. QED
  BY <1>2, <1>3

LEMMA ApplyHeld ==
  ASSUME TypeOK, NEW t \in Task, Held(t), Apply(t)
  PROVE  Held(t)'
<1> DEFINE c == job[t].call
<1>1. Active(t) /\ At(t, "apply") /\ job[t] \in Job
  BY DEF Apply, Active, At, TypeOK
<1>2. CASE c.op = "rename"
  <2>1. c.from # c.name
    BY <1>1, <1>2, ActiveCall
  <2>2. \/ rc' = rc /\ kept' = kept
        \/ /\ DOMAIN rc'.conn = DOMAIN rc.conn \cup {c.name}
           /\ rc'.conn[c.name].psk \in {job[t].psk, None}
           /\ rc'.conn[c.name].psk = None => job[t].psk \notin kept'
           /\ \A m \in DOMAIN rc.conn \ {c.name} : rc'.conn[m] = rc.conn[m]
    <3>1. CASE rc' = rc
      BY <3>1 DEF Apply
    <3>2. CASE rc' # rc
      <4>1. PICK p \in {job[t].psk, None}, d \in Data : rc' \in Applied(rc, c.name, p, d)
        BY <3>2 DEF Apply, TypeOK, Job
      <4>2. /\ DOMAIN rc'.conn = DOMAIN rc.conn \cup {c.name}
            /\ rc'.conn[c.name].psk = p
            /\ \A m \in DOMAIN rc.conn \ {c.name} : rc'.conn[m] = rc.conn[m]
        BY <4>1, AppliedKeys
      <4>3. p = None => job[t].psk \notin kept'
        BY <3>2, <4>2 DEF Apply
      <4>4. QED
        BY <4>2, <4>3
    <3>3. QED
      BY <3>1, <3>2
  <2>3. /\ c.from \in DOMAIN rc'.conn => rc'.conn[c.from].psk = job[t].psk
        /\ job[t].created => /\ c.name \in DOMAIN rc'.conn
                             /\ rc'.conn[c.name].psk \in {job[t].psk, None}
                             /\ rc'.conn[c.name].psk = None => job[t].psk \notin kept'
    BY <1>1, <1>2, <2>1, <2>2 DEF Held, RenameHolds, Active, At
  <2>4. CASE job' = [job EXCEPT ![t].pc = "verify", ![t].created = TRUE]
    <3>1. job' = [job EXCEPT ![t] = [job[t] EXCEPT !.pc = "verify", !.created = TRUE]]
      BY <1>1, <2>4 DEF TypeOK
    <3>2. job'[t] = [job[t] EXCEPT !.pc = "verify", !.created = TRUE]
      BY <3>1 DEF TypeOK
    <3>3. /\ job'[t].pc = "verify" /\ job'[t].call = c
          /\ job'[t].psk = job[t].psk /\ job'[t].created
      BY <1>1, <3>2 DEF Job
    <3>4. /\ c.name \in DOMAIN rc'.conn /\ rc'.conn[c.name].psk \in {job[t].psk, None}
          /\ rc'.conn[c.name].psk = None => job[t].psk \notin kept'
      <4>1. CASE ~(\E p \in {job[t].psk, None}, d \in Data : rc' \in Applied(rc, c.name, p, d))
        <5>1. Fail(t)
          BY <4>1 DEF Apply, TypeOK, Job
        <5>2. job'[t].pc \in {"recover", "idle"}
          BY <5>1 DEF Fail, Go, End, IdleJob, TypeOK, Job
        <5>3. QED
          BY <3>3, <5>2
      <4>2. CASE \E p \in {job[t].psk, None}, d \in Data : rc' \in Applied(rc, c.name, p, d)
        <5>1. c.name \notin DOMAIN rc.conn
          BY <1>1, <1>2 DEF Held, RenameHolds, Active, At
        <5>2. rc' # rc
          BY <4>2, <5>1, AppliedKeys
        <5>3. QED
          BY <2>2, <5>2
      <4>3. QED
        BY <4>1, <4>2
    <3>5. QED
      BY <1>2, <2>3, <3>3, <3>4 DEF Held, PhaseOfTool, RenameHolds, Active, At
  <2>5. CASE Go(t, "recover")
    <3>1. job'[t] = [job[t] EXCEPT !.pc = "recover"]
      BY <1>1, <2>5 DEF Go, TypeOK
    <3>2. /\ job'[t].pc = "recover" /\ job'[t].call = c
          /\ job'[t].psk = job[t].psk /\ job'[t].created = job[t].created
      BY <1>1, <3>1 DEF Job
    <3>3. QED
      BY <1>2, <2>3, <3>2 DEF Held, PhaseOfTool, RenameHolds, Active, At, AfterApply
  <2>6. CASE End(t, Says("error"))
    BY <2>6, EndHeld
  <2>7. QED
    BY <2>4, <2>5, <2>6 DEF Apply, Fail
<1>3. CASE c.op # "rename"
  <2>1. CASE job' = [job EXCEPT ![t].pc = "verify", ![t].created = TRUE]
    <3>1. job' = [job EXCEPT ![t] = [job[t] EXCEPT !.pc = "verify", !.created = TRUE]]
      BY <1>1, <2>1 DEF TypeOK
    <3>2. job'[t] = [job[t] EXCEPT !.pc = "verify", !.created = TRUE]
      BY <3>1 DEF TypeOK
    <3>3. job'[t].pc = "verify" /\ job'[t].call = c
      BY <1>1, <3>2 DEF Job
    <3>4. QED
      BY <1>3, <3>3 DEF Held, PhaseOfTool, Active, At
  <2>2. CASE End(t, Says("error"))
    BY <2>2, EndHeld
  <2>3. QED
    BY <1>3, <2>1, <2>2 DEF Apply, Fail
<1>4. QED
  BY <1>2, <1>3

\* A rename deletes the old profile when its key is under the new name as well;
\* its handler drops the new one when the old one still has the key.
LEMMA RemovalsKeep ==
  ASSUME TypeOK, NEW t \in Task, Held(t), KeyKept, Delete(t) \/ Drop(t)
  PROVE  KeyKept' /\ Held(t)'
<1> DEFINE c == job[t].call
           old == IF c.op = "rename" THEN c.from ELSE c.name
           gone == IF At(t, "drop") THEN c.name ELSE old
<1>1. /\ Active(t) /\ job[t] \in Job /\ job[t].pc \in {"delete", "drop"}
      /\ job[t].pc = "delete" <=> Delete(t)
      /\ job[t].pc = "drop" <=> Drop(t)
  BY DEF Delete, Drop, Active, At, TypeOK
<1>2. rc' = rc \/ rc' = Removed(rc, gone)
  BY <1>1 DEF Delete, Drop, Request, At
<1>3. \/ rc' = rc
      \/ /\ DOMAIN rc'.conn = DOMAIN rc.conn \ {gone}
         /\ \A m \in DOMAIN rc.conn \ {gone} : rc'.conn[m] = rc.conn[m]
  BY <1>2, RemovedKeys
<1>4. c.op = "rename" => /\ c.from # c.name
                         /\ RenameHolds(t)
                         /\ c.name \in DOMAIN rc.conn
                         /\ rc.conn[c.name].psk \in {job[t].psk, None}
                         /\ rc.conn[c.name].psk = None => job[t].psk \notin kept
  BY <1>1, ActiveCall DEF Held, RenameHolds, AfterApply
<1>5. KeyKept'
  <2>1. CASE rc' = rc
    BY <1>1, <2>1 DEF Delete, Drop, KeyKept, Keys
  <2>2. SUFFICES ASSUME rc' # rc, NEW k \in kept'
                 PROVE  k \in Keys(rc')
    BY <2>1 DEF KeyKept
  <2>3. k \in kept
    BY <1>1, <2>2 DEF Delete, Drop
  <2>4. PICK m \in DOMAIN rc.conn : rc.conn[m].psk = k /\ k # None
    BY <2>3 DEF KeyKept, Keys
  <2>5. CASE m # gone
    BY <1>3, <2>2, <2>4, <2>5 DEF Keys
  <2>6. CASE m = gone /\ Delete(t) /\ c.op = "delete"
    BY <1>1, <2>2, <2>4, <2>6 DEF Delete, At
  <2>7. CASE m = gone /\ Delete(t) /\ c.op = "rename"
    <3>1. job[t].psk = k /\ gone = c.from
      BY <1>1, <1>4, <2>4, <2>7 DEF RenameHolds, At
    <3>2. rc.conn[c.name].psk = k /\ c.name \in DOMAIN rc.conn \ {gone}
      BY <1>4, <2>3, <2>7, <3>1
    <3>3. QED
      BY <1>3, <2>2, <2>4, <3>2 DEF Keys
  <2>8. CASE m = gone /\ Drop(t)
    <3>1. c.op = "rename"
      BY <1>1, <2>8 DEF Held, PhaseOfTool
    <3>2. rc.conn[c.from].psk = k /\ c.from \in DOMAIN rc.conn \ {gone}
      BY <1>1, <1>4, <2>4, <2>8, <3>1 DEF RenameHolds, At
    <3>3. QED
      BY <1>3, <2>2, <2>4, <3>2 DEF Keys
  <2>9. QED
    BY <1>1, <2>5, <2>6, <2>7, <2>8 DEF Held, PhaseOfTool
<1>6. Held(t)'
  <2>1. ASSUME NEW pc \in {"gone", "recover"}, Go(t, pc), Delete(t), pc = "recover" => c.op = "rename"
        PROVE  Held(t)'
    <3>1. job'[t] = [job[t] EXCEPT !.pc = pc]
      BY <1>1, <2>1 DEF Go, TypeOK
    <3>2. /\ job'[t].pc = pc /\ job'[t].call = c
          /\ job'[t].psk = job[t].psk /\ job'[t].created = job[t].created
      BY <1>1, <3>1 DEF Job
    <3>3. c.op = "rename" =>
            /\ c.from \in DOMAIN rc'.conn => rc'.conn[c.from].psk = job[t].psk
            /\ c.name \in DOMAIN rc'.conn
            /\ rc'.conn[c.name].psk \in {job[t].psk, None}
            /\ rc'.conn[c.name].psk = None => job[t].psk \notin kept'
            /\ job[t].created
      BY <1>1, <1>3, <1>4, <2>1 DEF RenameHolds, At, AfterApply, Delete
    <3>4. QED
      BY <2>1, <3>2, <3>3 DEF Held, PhaseOfTool, RenameHolds, Active, At, AfterApply
  <2>2. ASSUME NEW r, End(t, r)
        PROVE  Held(t)'
    BY <2>2, EndHeld
  <2>3. CASE Drop(t)
    BY <2>2, <2>3 DEF Drop, Partial
  <2>4. CASE Delete(t)
    BY <1>1, <2>1, <2>2, <2>4 DEF Delete, Request, Fail
  <2>5. QED
    BY <1>1, <2>3, <2>4
<1>7. QED
  BY <1>5, <1>6

LEMMA NextKeys ==
  ASSUME Alone, Inv, KeyInv, [Next]_vars
  PROVE  KeyInv'
<1> USE DEF Inv
<1>1. CASE UNCHANGED vars
  BY <1>1 DEF vars, KeyInv, KeyKept, Keys, Held, PhaseOfTool, RenameHolds, WriteHolds, Active, At
<1>2. CASE Reboot
  <2>1. rc' = sc /\ kept' \subseteq Keys(sc)
    BY <1>2 DEF Reboot
  <2>2. \A t \in Task : Held(t)'
    BY <1>2, IdleJobType DEF Reboot, Held, PhaseOfTool, Active, At
  <2>3. QED
    BY <2>1, <2>2 DEF KeyInv, KeyKept, Keys
<1>3. ASSUME NEW t \in Task, Start(t)
      PROVE  KeyInv'
  <2>3. job'[t].pc = "load" /\ ~job'[t].created
    BY <1>3, StartJob
  <2>4. Held(t)'
    BY <2>3 DEF Held, PhaseOfTool, RenameHolds, Active, At, AfterApply
  <2>5. KeyKept'
    BY <1>3, StartRest DEF KeyInv, KeyKept, Keys
  <2>6. QED
    BY <2>4, <2>5 DEF Alone, KeyInv
<1>4. ASSUME NEW t \in Task, Step(t)
      PROVE  KeyInv'
  <2>1. Held(t) /\ KeyKept
    BY DEF KeyInv
  <2>2. CASE Reads(t)
    BY <2>1, <2>2, ReadsHeld, ReadsMove DEF Alone, KeyInv, KeyKept, Keys
  <2>3. CASE Enable(t) \/ Service(t) \/ Save(t)
    <3>1. Held(t)' /\ SameKeys(rc, rc') /\ kept' = kept
      BY <2>1, <2>3, OtherWritesHeld
    <3>2. Keys(rc') = Keys(rc)
      BY <3>1, SameKeysSame
    <3>3. KeyKept'
      BY <2>1, <3>1, <3>2 DEF KeyKept, Keys
    <3>4. QED
      BY <3>1, <3>3 DEF Alone, KeyInv
  <2>4. CASE Apply(t)
    BY <2>1, <2>4, ApplyHeld, ApplyKeeps DEF Alone, KeyInv
  <2>5. CASE Delete(t) \/ Drop(t)
    BY <2>1, <2>5, RemovalsKeep DEF Alone, KeyInv
  <2>6. QED
    BY <1>4, <2>2, <2>3, <2>4, <2>5 DEF Step, Reads
<1>5. QED
  BY <1>1, <1>2, <1>3, <1>4 DEF Next

LEMMA InitKeys == Init => KeyInv
<1> SUFFICES ASSUME Init PROVE KeyInv
  OBVIOUS
<1>1. \A t \in Task : job[t] = IdleJob
  BY DEF Init
<1>2. QED
  BY <1>1, IdleJobType DEF Init, KeyInv, KeyKept, Held, PhaseOfTool, Active, At

\* With one call at a time no pre-shared key gets lost, whatever fails and
\* whenever the router restarts, unless the router stored a profile without the
\* key it was sent: the promise behind the order of requests in rename_ipsec and
\* behind the guard of its handler.
THEOREM KeyNeverLost ==
  ASSUME Alone
  PROVE  Spec => []KeyKept
<1>1. Init => KeyInv
  BY InitKeys
<1>2. Inv /\ KeyInv /\ [Next]_vars => KeyInv'
  BY NextKeys
<1>3. KeyInv => KeyKept
  BY DEF KeyInv
<1>4. QED
  BY <1>1, <1>2, <1>3, InvAlways, PTL DEF Spec

-----------------------------------------------------------------------------
(* What a call knows, phase by phase, when no other is in flight. *)

\* The phases each tool goes through.
CourseOf(j) ==
  LET op == j.call.op
      wants == ~(op = "update" /\ j.call.enable = "keep")
  IN
  /\ j.pc = "psk" => op = "update"
  /\ j.pc = "status" => op \in {"state", "rename"}
  /\ j.pc \in {"apply", "verify"} => op \in {"create", "update", "rename"}
  /\ j.pc \in {"enable", "service"} => op \in {"create", "update", "rename", "state"} /\ wants
  /\ j.pc \in {"delete", "gone"} => op \in {"delete", "rename"}
  /\ j.pc \in {"recover", "drop"} => op = "rename"

\* One failure at most, and not a lost write; nor a profile stored otherwise.
Mild(fs) == Len(fs) <= 1 /\ fs # <<"lost">>
Clean(fs) == Mild(fs) /\ fs # <<"mangle">>

\* Profile n is in r with the key of the call; the one it wrote may lack the key
\* when the router left it out.
Under(j, r, n) == n \in DOMAIN r.conn /\ r.conn[n].psk = j.psk
Written(j, r) ==
  j.call.name \in DOMAIN r.conn /\ r.conn[j.call.name].psk \in {j.psk, None}
New(j, r, fs) ==
  /\ j.call.name \in DOMAIN r.conn
  /\ Clean(fs) => r.conn[j.call.name].psk = j.psk

\* Name's crypto map is as the call wants it, and the service runs if it must.
IsSet(j, r) == r.conn[j.call.name].on = j.on /\ (j.on => r.service)

\* create, update and set_ipsec_state: what was written is there, what was
\* verified is as it was sent, and the map is as asked once the tool is past it.
Made(j, r) ==
  LET c == j.call IN
  /\ c.op \in {"create", "update"} =>
       /\ j.pc \in {"verify", "enable", "service", "save", "report"} => Written(j, r)
       /\ j.pc \in {"enable", "service", "save", "report"} =>
            /\ r.conn[c.name].data = j.data
            /\ r.conn[c.name].psk = None => j.warned
  /\ c.op = "state" /\ j.pc \in {"enable", "service", "save", "report"} =>
       c.name \in DOMAIN r.conn
  /\ c.op \in {"create", "update", "state"} /\ j.pc \in {"save", "report"}
       /\ ~(c.op = "update" /\ c.enable = "keep") => IsSet(j, r)
  /\ j.pc = "service" => j.on /\ r.conn[c.name].on

\* delete: the profile is there until it is deleted, and gone from then on.
Deleted(j, r) ==
  j.call.op = "delete" =>
    /\ j.pc = "delete" => j.call.name \in DOMAIN r.conn
    /\ j.pc \in {"gone", "save", "report"} => j.call.name \notin DOMAIN r.conn

\* rename_ipsec: under which names the connection is.
Renamed(j, r, fs) ==
  LET c == j.call IN
  c.op = "rename" =>
    /\ j.pc \in {"load", "status", "apply"} => ~j.created
    /\ j.pc \in {"status", "apply"} => Under(j, r, c.from) /\ c.name \notin DOMAIN r.conn
    /\ j.pc \in {"verify", "enable", "service", "delete"} =>
         j.created /\ New(j, r, fs) /\ Under(j, r, c.from)
    /\ j.pc \in {"gone", "save", "report"} =>
         j.created /\ New(j, r, fs) /\ c.from \notin DOMAIN r.conn
    /\ j.pc \in {"delete", "gone", "save", "report"} => IsSet(j, r)
    /\ j.pc = "recover" =>
         /\ Len(fs) >= 1
         /\ Mild(fs) =>
              IF j.created
              THEN New(j, r, fs) /\ (c.from \in DOMAIN r.conn => Under(j, r, c.from))
              ELSE Under(j, r, c.from) /\ c.name \notin DOMAIN r.conn
    /\ j.pc = "drop" =>
         /\ Len(fs) >= 1 /\ {c.name, c.from} \subseteq DOMAIN r.conn
         /\ Mild(fs) => Under(j, r, c.from)

\* A call that asked for it is saved when it makes its last reads, unless the
\* router answered a save it did not make.
SavedFor(j, r, s, fs) ==
  j.pc = "report" /\ j.call.save => s = r \/ "nosave" \in Range(fs)

Course(j, r, s, fs) ==
  /\ CourseOf(j) /\ Made(j, r) /\ Deleted(j, r) /\ Renamed(j, r, fs)
  /\ SavedFor(j, r, s, fs)

CourseInv ==
  /\ Inv
  /\ \A t \in Task : Active(t) /\ job[t].alone =>
       /\ Course(job[t], rc, sc, faults)
       /\ \A u \in Task : Active(u) => u = t

LEMMA GoFields ==
  ASSUME TypeOK, NEW t \in Task, NEW pc, Go(t, pc)
  PROVE  /\ job'[t].pc = pc /\ job'[t].call = job[t].call /\ job'[t].psk = job[t].psk
         /\ job'[t].data = job[t].data /\ job'[t].on = job[t].on
         /\ job'[t].created = job[t].created /\ job'[t].warned = job[t].warned
<1>1. job[t] \in Job
  BY DEF TypeOK
<1>2. job'[t] = [job[t] EXCEPT !.pc = pc]
  BY DEF Go, TypeOK
<1>3. QED
  BY <1>1, <1>2 DEF Job

\* The first failure is the only one so far.
LEMMA HappensFacts ==
  ASSUME TypeOK, NEW kind, Happens(kind)
  PROVE  /\ Len(faults') >= 1
         /\ Mild(faults') => kind # "lost"
         /\ Clean(faults') => kind # "mangle" /\ Clean(faults)
         /\ kind \in Range(faults')
<1>1. faults' = Append(faults, kind) /\ faults \in Seq(FaultKinds)
  BY DEF Happens, TypeOK
<1>2. Len(faults) \in Nat
  BY <1>1
<1>3. Len(faults') = Len(faults) + 1
  BY <1>1
<1>4. ASSUME Mild(faults'), kind = "lost"
      PROVE  FALSE
  <2>1. Len(faults) = 0
    BY <1>2, <1>3, <1>4 DEF Mild
  <2>2. faults = << >>
    BY <1>1, <2>1
  <2>3. faults' = <<"lost">>
    BY <1>1, <1>4, <2>2
  <2>4. QED
    BY <1>4, <2>3 DEF Mild
<1>5. ASSUME Clean(faults')
      PROVE  kind # "mangle" /\ Clean(faults)
  <2>1. Len(faults) = 0
    BY <1>2, <1>3, <1>5 DEF Clean, Mild
  <2>2. faults = << >>
    BY <1>1, <2>1
  <2>3. faults' = <<kind>>
    BY <1>1, <2>2
  <2>4. Len(<< >>) = 0 /\ << >> # <<"lost">> /\ << >> # <<"mangle">>
    OBVIOUS
  <2>5. QED
    BY <1>5, <2>2, <2>3, <2>4 DEF Clean, Mild
<1>6. kind \in Range(faults')
  <2>1. Len(faults') \in DOMAIN faults' /\ faults'[Len(faults')] = kind
    BY <1>1, <1>2, <1>3
  <2>2. QED
    BY <2>1 DEF Range
<1>7. QED
  BY <1>2, <1>3, <1>4, <1>5, <1>6

LEMMA SwitchedFields ==
  ASSUME TypeOK, NEW n \in DOMAIN rc.conn, NEW on
  PROVE  LET c == Switched(rc, n, on) IN
         /\ DOMAIN c.conn = DOMAIN rc.conn /\ c.service = rc.service
         /\ c.conn[n].on = on
         /\ \A m \in DOMAIN rc.conn :
              c.conn[m].psk = rc.conn[m].psk /\ c.conn[m].data = rc.conn[m].data
<1> DEFINE c == Switched(rc, n, on)
           v == [rc.conn[n] EXCEPT !.on = on]
<1>1. rc \in Config /\ rc.conn[n] \in Profile /\ rc.conn \in [DOMAIN rc.conn -> Profile]
  BY ConnType DEF TypeOK
<1>2. v.on = on /\ v.psk = rc.conn[n].psk /\ v.data = rc.conn[n].data
  BY <1>1 DEF Profile
<1>3. c.conn = [rc.conn EXCEPT ![n] = v] /\ c.service = rc.service
  BY <1>1 DEF Switched, Config
<1> HIDE DEF c, v
<1>4. DOMAIN c.conn = DOMAIN rc.conn /\ c.conn[n] = v
      /\ \A m \in DOMAIN rc.conn : m # n => c.conn[m] = rc.conn[m]
  BY <1>1, <1>3
<1>5. QED
  BY <1>2, <1>3, <1>4 DEF c

LEMMA AppliedFields ==
  ASSUME TypeOK, NEW n, NEW k, NEW d, NEW c \in Applied(rc, n, k, d)
  PROVE  /\ c.conn[n].psk = k /\ c.conn[n].data = d
         /\ DOMAIN c.conn = DOMAIN rc.conn \cup {n}
         /\ \A m \in DOMAIN rc.conn \ {n} : c.conn[m] = rc.conn[m]
<1>1. PICK on : c = [rc EXCEPT !.conn = [m \in DOMAIN rc.conn \cup {n} |->
               IF m = n THEN [psk |-> k, data |-> d, on |-> on] ELSE rc.conn[m]]]
  BY DEF Applied
<1>2. c.conn = [m \in DOMAIN rc.conn \cup {n} |->
               IF m = n THEN [psk |-> k, data |-> d, on |-> on] ELSE rc.conn[m]]
  BY <1>1 DEF TypeOK, Config
<1>3. QED
  BY <1>2

LEMMA RemovedFields ==
  ASSUME TypeOK, NEW n
  PROVE  LET c == Removed(rc, n) IN
         /\ DOMAIN c.conn = DOMAIN rc.conn \ {n} /\ c.service = rc.service
         /\ \A m \in DOMAIN rc.conn \ {n} : c.conn[m] = rc.conn[m]
BY DEF Removed, TypeOK, Config

\* A call that ends knows nothing any more.
LEMMA EndCourse ==
  ASSUME TypeOK, NEW t \in Task, NEW r, End(t, r)
  PROVE  ~Active(t)'
BY IdleJobType DEF End, Active, TypeOK

Keeps(t) == Active(t)' => Course(job[t], rc, sc, faults)'

\* An exception: the call ends, or its handler knows what is there, since rc is
\* what it was unless a write was lost.
LEMMA FailCourse ==
  ASSUME TypeOK, NEW t \in Task, Active(t), Course(job[t], rc, sc, faults),
         job[t].pc \notin {"recover", "drop"}, NEW kind, Happens(kind), Fail(t),
         rc' = rc \/ kind = "lost"
  PROVE  Keeps(t)
<1> DEFINE c == job[t].call
<1>1. CASE End(t, Says("error"))
  BY <1>1, EndCourse DEF Keeps
<1>2. CASE Go(t, "recover") /\ c.op = "rename" /\ job[t].pc \notin {"load", "status"}
  <2>1. /\ job'[t].pc = "recover" /\ job'[t].call = c /\ job'[t].psk = job[t].psk
        /\ job'[t].created = job[t].created
    BY <1>2, GoFields
  <2>2. /\ Len(faults') >= 1 /\ (Mild(faults') => rc' = rc)
        /\ Clean(faults') => Clean(faults)
    BY HappensFacts
  <2>3. job[t] \in Job /\ c.op \in Ops
    BY ActiveCall
  <2>4. job[t].pc \in {"apply", "verify", "enable", "service", "delete", "gone", "save", "report"}
    BY <1>2, <2>3 DEF Job, Phases, Active, Course, CourseOf
  <2>5. IF job[t].created
        THEN New(job[t], rc, faults)
             /\ (c.from \in DOMAIN rc.conn => Under(job[t], rc, c.from))
        ELSE Under(job[t], rc, c.from) /\ c.name \notin DOMAIN rc.conn
    BY <1>2, <2>4 DEF Course, Renamed
  <2>6. Renamed(job'[t], rc', faults')
    BY <2>1, <2>2, <2>5 DEF Renamed, Under, New
  <2>7. CourseOf(job'[t]) /\ Made(job'[t], rc') /\ Deleted(job'[t], rc')
        /\ SavedFor(job'[t], rc', sc', faults')
    BY <1>2, <2>1 DEF CourseOf, Made, Deleted, SavedFor
  <2>8. QED
    BY <2>6, <2>7 DEF Keeps, Course
<1>3. QED
  BY <1>1, <1>2 DEF Fail

\* A call that goes on to write has its payload, and has written nothing.
LEMMA SendCourse ==
  ASSUME TypeOK, NEW t \in Task, NEW k, NEW d, NEW b, Send(t, k, d, b), rc' = rc,
         job[t].call.op \in {"create", "update", "rename"},
         job[t].call.op = "rename" =>
           /\ ~job[t].created /\ k = job[t].psk
           /\ Under(job[t], rc, job[t].call.from) /\ job[t].call.name \notin DOMAIN rc.conn
  PROVE  Keeps(t)
<1>1. CASE End(t, Says("error"))
  BY <1>1, EndCourse DEF Keeps
<1>2. CASE job' = [job EXCEPT ![t] = [@ EXCEPT !.pc = "apply", !.psk = k,
                                               !.data = d, !.on = b]]
  <2>1. job[t] \in Job
    BY DEF TypeOK
  <2>2. job'[t] = [job[t] EXCEPT !.pc = "apply", !.psk = k, !.data = d, !.on = b]
    BY <1>2 DEF TypeOK
  <2>3. /\ job'[t].pc = "apply" /\ job'[t].call = job[t].call
        /\ job'[t].psk = k /\ job'[t].created = job[t].created
    BY <2>1, <2>2 DEF Job
  <2>4. QED
    BY <2>3 DEF Keeps, Course, CourseOf, Made, Deleted, Renamed, SavedFor, Under
<1>3. QED
  BY <1>1, <1>2 DEF Send

LEMMA LoadsCourse ==
  ASSUME TypeOK, NEW t \in Task, Active(t), Course(job[t], rc, sc, faults), Load(t)
  PROVE  Keeps(t)
<1> DEFINE c == job[t].call
<1>1. rc' = rc
  BY DEF Load, LoadForCreate, LoadForUpdate, ReadPsk, LoadForState,
     StatusForState, LoadForDelete, LoadForRename, StatusForRename
<1>2. job[t] \in Job
  BY DEF TypeOK
<1>3. CASE LoadForCreate(t)
  BY <1>1, <1>3, EndCourse, SendCourse DEF LoadForCreate, Keeps
<1>4. CASE LoadForUpdate(t)
  <2>1. CASE job' = [job EXCEPT ![t] = [@ EXCEPT !.pc = "psk",
                          !.data = Given(c.data, rc.conn[c.name].data)]]
    <3>1. job'[t] = [job[t] EXCEPT !.pc = "psk",
                       !.data = Given(c.data, rc.conn[c.name].data)]
      BY <2>1 DEF TypeOK
    <3>2. job'[t].pc = "psk" /\ job'[t].call = c
      BY <1>2, <3>1 DEF Job
    <3>3. QED
      BY <1>4, <3>2
      DEF LoadForUpdate, Keeps, Course, CourseOf, Made, Deleted, Renamed, SavedFor
  <2>2. CASE End(t, Says("error"))
    BY <2>2, EndCourse DEF Keeps
  <2>3. CASE Send(t, c.psk, Given(c.data, rc.conn[c.name].data), c.enable = "on")
    BY <1>1, <1>4, <2>3, SendCourse DEF LoadForUpdate
  <2>4. QED
    BY <1>4, <2>1, <2>2, <2>3 DEF LoadForUpdate
<1>5. CASE ReadPsk(t)
  <2>1. c.op = "update"
    BY <1>5 DEF ReadPsk, Course, CourseOf, At
  <2>2. QED
    BY <1>1, <1>5, <2>1, SendCourse DEF ReadPsk
<1>6. CASE LoadForState(t)
  <2>1. /\ job'[t].call = c
        /\ job'[t].pc = IF c.name \in DOMAIN rc.conn THEN "enable" ELSE "status"
    BY <1>2, <1>6 DEF LoadForState, TypeOK, Job
  <2>2. QED
    BY <1>1, <1>6, <2>1
    DEF LoadForState, Keeps, Course, CourseOf, Made, Deleted, Renamed, SavedFor
<1>7. CASE StatusForState(t)
  <2>1. CASE End(t, Says("error"))
    BY <2>1, EndCourse DEF Keeps
  <2>2. CASE Go(t, "enable") /\ c.name \in DOMAIN rc.conn
    <3>1. job'[t].pc = "enable" /\ job'[t].call = c
      BY <2>2, GoFields
    <3>2. QED
      BY <1>1, <1>7, <2>2, <3>1
      DEF StatusForState, Keeps, Course, CourseOf, Made, Deleted, Renamed, SavedFor
  <2>3. QED
    BY <1>7, <2>1, <2>2 DEF StatusForState
<1>8. CASE LoadForDelete(t)
  <2>1. CASE End(t, Says("error"))
    BY <2>1, EndCourse DEF Keeps
  <2>2. CASE Go(t, "delete") /\ c.name \in DOMAIN rc.conn
    <3>1. job'[t].pc = "delete" /\ job'[t].call = c
      BY <2>2, GoFields
    <3>2. QED
      BY <1>1, <1>8, <2>2, <3>1
      DEF LoadForDelete, Keeps, Course, CourseOf, Made, Deleted, Renamed, SavedFor
  <2>3. QED
    BY <1>8, <2>1, <2>2 DEF LoadForDelete
<1>9. CASE LoadForRename(t)
  <2>1. CASE /\ c.from \in DOMAIN rc.conn /\ c.name \notin DOMAIN rc.conn
             /\ job' = [job EXCEPT ![t] = [@ EXCEPT !.pc = "status",
                          !.psk = rc.conn[c.from].psk, !.data = rc.conn[c.from].data]]
    <3>1. job'[t] = [job[t] EXCEPT !.pc = "status",
                       !.psk = rc.conn[c.from].psk, !.data = rc.conn[c.from].data]
      BY <2>1 DEF TypeOK
    <3>2. /\ job'[t].pc = "status" /\ job'[t].call = c
          /\ job'[t].psk = rc.conn[c.from].psk /\ job'[t].created = job[t].created
      BY <1>2, <3>1 DEF Job
    <3>3. c.op = "rename" /\ ~job[t].created
      BY <1>9 DEF LoadForRename, Course, Renamed, At
    <3>4. QED
      BY <1>1, <2>1, <3>2, <3>3
      DEF Keeps, Course, CourseOf, Made, Deleted, Renamed, SavedFor, Under
  <2>2. CASE End(t, Says("error"))
    BY <2>2, EndCourse DEF Keeps
  <2>3. QED
    BY <1>9, <2>1, <2>2 DEF LoadForRename
<1>10. CASE StatusForRename(t)
  <2>1. /\ c.op = "rename" /\ ~job[t].created
        /\ Under(job[t], rc, c.from) /\ c.name \notin DOMAIN rc.conn
    BY <1>10 DEF StatusForRename, Course, Renamed, At
  <2>2. QED
    BY <1>1, <1>10, <2>1, SendCourse DEF StatusForRename
<1>11. QED
  BY <1>3, <1>4, <1>5, <1>6, <1>7, <1>8, <1>9, <1>10 DEF Load

LEMMA ReadsCourse ==
  ASSUME TypeOK, NEW t \in Task, Course(job[t], rc, sc, faults), Reads(t)
  PROVE  Keeps(t)
<1> DEFINE c == job[t].call
           j == job[t]
<1>1. Active(t) /\ rc' = rc
  BY ReadsMove, ReadsAreActive
<1>2. SaveOrReport(t) \in {"save", "report"} /\ (SaveOrReport(t) = "report" => ~c.save)
  BY <1>1, ActiveCall DEF SaveOrReport, Call
<1>3. CASE Load(t)
  BY <1>1, <1>3, LoadsCourse
<1>4. CASE Verify(t)
  <2>1. /\ c.op \in {"create", "update", "rename"} /\ c.name \in DOMAIN rc.conn
        /\ c.op # "rename" => Written(j, rc)
        /\ c.op = "rename" => j.created /\ New(j, rc, faults) /\ Under(j, rc, c.from)
        /\ faults' = faults
    BY <1>4 DEF Verify, At, Course, CourseOf, Made, Renamed, Written, New
  <2>2. CASE Fail(t) /\ c.op # "rename"
    BY <2>2, EndCourse DEF Fail, Keeps
  <2>3. CASE ~(Fail(t) /\ c.op # "rename")
    <3>1. PICK pc \in {"save", "report", "enable"} :
            /\ pc = IF c.enable = "keep" /\ c.op = "update" THEN SaveOrReport(t) ELSE "enable"
            /\ c.op # "rename" => /\ rc.conn[c.name].data = j.data
                                  /\ rc.conn[c.name].psk = None => job'[t].warned
            /\ job'[t].pc = pc /\ job'[t].call = c /\ job'[t].psk = j.psk
            /\ job'[t].data = j.data /\ job'[t].on = j.on /\ job'[t].created = j.created
      BY <1>4, <2>1, <2>3, VerifyFields
    <3>2. CASE c.op = "rename"
      <4>1. pc = "enable"
        BY <3>1, <3>2
      <4>2. Renamed(job'[t], rc, faults)
        BY <2>1, <3>1, <3>2, <4>1 DEF Renamed, New, Under
      <4>3. QED
        BY <1>1, <2>1, <3>1, <3>2, <4>1, <4>2
        DEF Keeps, Course, CourseOf, Made, Deleted, SavedFor
    <3>3. CASE c.op \in {"create", "update"}
      <4>1. Made(job'[t], rc)
        BY <2>1, <3>1, <3>3 DEF Made, Written
      <4>2. QED
        BY <1>1, <1>2, <2>1, <3>1, <3>3, <4>1
        DEF Keeps, Course, CourseOf, Deleted, Renamed, SavedFor
    <3>4. QED
      BY <2>1, <3>2, <3>3
  <2>4. QED
    BY <2>2, <2>3
<1>5. CASE Gone(t)
  <2>1. /\ c.op \in {"delete", "rename"}
        /\ c.op = "delete" => c.name \notin DOMAIN rc.conn
        /\ c.op = "rename" => /\ c.from \notin DOMAIN rc.conn /\ New(j, rc, faults)
                              /\ j.created /\ IsSet(j, rc)
        /\ faults' = faults
    BY <1>5 DEF Gone, At, Course, CourseOf, Deleted, Renamed
  <2>2. Go(t, SaveOrReport(t))
    BY <1>5, <2>1 DEF Gone, New
  <2>3. /\ job'[t].pc = SaveOrReport(t) /\ job'[t].call = c /\ job'[t].psk = j.psk
        /\ job'[t].data = j.data /\ job'[t].on = j.on /\ job'[t].created = j.created
    BY <2>2, GoFields
  <2>4. QED
    BY <1>1, <1>2, <2>1, <2>3
    DEF Keeps, Course, CourseOf, Made, Deleted, Renamed, SavedFor, New, IsSet
<1>6. CASE Answer(t)
  BY <1>6, EndCourse DEF Answer, Keeps
<1>7. CASE ReadFails(t)
  <2>1. j.pc \notin {"recover", "drop"} /\ Happens("read") /\ Fail(t)
    BY <1>7 DEF ReadFails, At
  <2>2. QED
    BY <1>1, <2>1, FailCourse
<1>8. CASE Recover(t)
  <2>1. CASE Partial(t, FALSE)
    BY <2>1, EndCourse DEF Partial, Keeps
  <2>2. CASE Go(t, "drop") /\ j.created /\ {c.name, c.from} \subseteq DOMAIN rc.conn
             /\ faults' = faults
    <3>1. /\ job'[t].pc = "drop" /\ job'[t].call = c /\ job'[t].psk = j.psk
          /\ job'[t].created = j.created
      BY <2>2, GoFields
    <3>2. c.op = "rename" /\ Len(faults) >= 1 /\ (Mild(faults) => Under(j, rc, c.from))
      BY <1>8, <2>2 DEF Recover, At, Course, CourseOf, Renamed
    <3>3. QED
      BY <1>1, <2>2, <3>1, <3>2
      DEF Keeps, Course, CourseOf, Made, Deleted, Renamed, SavedFor, Under
  <2>3. QED
    BY <1>8, <2>1, <2>2 DEF Recover
<1>9. QED
  BY <1>3, <1>4, <1>5, <1>6, <1>7, <1>8 DEF Reads

\* A write is answered, or it fails.
LEMMA RequestCourse ==
  ASSUME TypeOK, NEW t \in Task, Active(t), Course(job[t], rc, sc, faults),
         job[t].pc \notin {"recover", "drop"}, NEW results, NEW pc, Request(t, results, pc)
  PROVE  \/ rc' \in results /\ Go(t, pc) /\ faults' = faults
         \/ Keeps(t)
BY FailCourse DEF Request

LEMMA ApplyCourse ==
  ASSUME TypeOK, NEW t \in Task, Course(job[t], rc, sc, faults), Apply(t)
  PROVE  Keeps(t)
<1> DEFINE c == job[t].call
           j == job[t]
<1>1. Active(t) /\ j.pc = "apply" /\ j \in Job
  BY DEF Apply, Active, At, TypeOK
<1>2. c.op \in {"create", "update", "rename"}
  BY <1>1 DEF Course, CourseOf
<1>3. ASSUME NEW p \in {j.psk, None}, NEW d, rc' \in Applied(rc, c.name, p, d),
             job' = [job EXCEPT ![t].pc = "verify", ![t].created = TRUE],
             Clean(faults') => p = j.psk
      PROVE  Keeps(t)
  <2>1. job' = [job EXCEPT ![t] = [j EXCEPT !.pc = "verify", !.created = TRUE]]
    BY <1>1, <1>3 DEF TypeOK
  <2>2. job'[t] = [j EXCEPT !.pc = "verify", !.created = TRUE]
    BY <2>1 DEF TypeOK
  <2>3. job'[t].pc = "verify" /\ job'[t].call = c /\ job'[t].psk = j.psk /\ job'[t].created
    BY <1>1, <2>2 DEF Job
  <2>4. /\ rc'.conn[c.name].psk = p
        /\ DOMAIN rc'.conn = DOMAIN rc.conn \cup {c.name}
        /\ \A m \in DOMAIN rc.conn \ {c.name} : rc'.conn[m] = rc.conn[m]
    BY <1>3, AppliedFields
  <2>5. c.op = "rename" => Under(j, rc, c.from) /\ c.from # c.name
    BY <1>1, ActiveCall DEF Course, Renamed
  <2>6. /\ Written(job'[t], rc') /\ New(job'[t], rc', faults')
        /\ c.op = "rename" => Under(job'[t], rc', c.from)
    BY <1>3, <2>3, <2>4, <2>5 DEF Under, Written, New
  <2>7. QED
    BY <1>2, <2>3, <2>6 DEF Keeps, Course, CourseOf, Made, Deleted, Renamed, SavedFor
<1>4. CASE rc' = rc /\ Happens("refuse") /\ Fail(t)
  BY <1>1, <1>4, FailCourse
<1>5. CASE Happens("lost") /\ Fail(t)
  BY <1>1, <1>5, FailCourse
<1>6. Happens("mangle") => ~Clean(faults')
  BY HappensFacts
<1>7. QED
  BY <1>3, <1>4, <1>5, <1>6 DEF Apply

LEMMA EnableCourse ==
  ASSUME TypeOK, NEW t \in Task, Course(job[t], rc, sc, faults), Enable(t)
  PROVE  Keeps(t)
<1> DEFINE c == job[t].call
           j == job[t]
           next == IF j.on THEN "service"
                   ELSE IF c.op = "rename" THEN "delete" ELSE SaveOrReport(t)
<1>1. Active(t) /\ j.pc = "enable"
  BY DEF Enable, Active, At
<1>2. /\ c.op \in {"create", "update", "rename", "state"}
      /\ ~(c.op = "update" /\ c.enable = "keep")
      /\ c.name \in DOMAIN rc.conn
      /\ c.op \in {"create", "update"} => /\ Written(j, rc) /\ rc.conn[c.name].data = j.data
                                          /\ rc.conn[c.name].psk = None => j.warned
      /\ c.op = "rename" => j.created /\ New(j, rc, faults) /\ Under(j, rc, c.from)
  BY <1>1 DEF Course, CourseOf, Made, Renamed, Written, New
<1>3. SaveOrReport(t) \in {"save", "report"} /\ (SaveOrReport(t) = "report" => ~c.save)
  BY <1>1, ActiveCall DEF SaveOrReport, Call
<1>4. Request(t, {Switched(rc, c.name, j.on)}, next)
  BY <1>2 DEF Enable
<1>5. CASE rc' = Switched(rc, c.name, j.on) /\ Go(t, next) /\ faults' = faults
  <2>1. /\ job'[t].pc = next /\ job'[t].call = c /\ job'[t].psk = j.psk
        /\ job'[t].data = j.data /\ job'[t].on = j.on /\ job'[t].created = j.created
        /\ job'[t].warned = j.warned
    BY <1>5, GoFields
  <2>2. /\ DOMAIN rc'.conn = DOMAIN rc.conn /\ rc'.conn[c.name].on = j.on
        /\ \A m \in DOMAIN rc.conn :
             rc'.conn[m].psk = rc.conn[m].psk /\ rc'.conn[m].data = rc.conn[m].data
    BY <1>2, <1>5, SwitchedFields
  <2>3. /\ c.op \in {"create", "update"} =>
             /\ Written(job'[t], rc') /\ rc'.conn[c.name].data = job'[t].data
             /\ rc'.conn[c.name].psk = None => job'[t].warned
        /\ c.op = "rename" => /\ job'[t].created /\ New(job'[t], rc', faults')
                              /\ Under(job'[t], rc', c.from)
        /\ c.name \in DOMAIN rc'.conn
        /\ ~j.on => IsSet(job'[t], rc')
    BY <1>2, <1>5, <2>1, <2>2 DEF Under, Written, New, IsSet
  <2>4. CASE j.on
    BY <1>2, <2>1, <2>2, <2>3, <2>4
    DEF Keeps, Course, CourseOf, Made, Deleted, Renamed, SavedFor
  <2>5. CASE ~j.on
    BY <1>2, <1>3, <2>1, <2>3, <2>5
    DEF Keeps, Course, CourseOf, Made, Deleted, Renamed, SavedFor
  <2>6. QED
    BY <2>4, <2>5
<1>6. QED
  BY <1>1, <1>4, <1>5, RequestCourse

LEMMA ServiceCourse ==
  ASSUME TypeOK, NEW t \in Task, Course(job[t], rc, sc, faults), Service(t)
  PROVE  Keeps(t)
<1> DEFINE c == job[t].call
           j == job[t]
           next == IF c.op = "rename" THEN "delete" ELSE SaveOrReport(t)
<1>1. Active(t) /\ j.pc = "service" /\ Request(t, {[rc EXCEPT !.service = TRUE]}, next)
  BY DEF Service, Active, At
<1>2. /\ c.op \in {"create", "update", "rename", "state"}
      /\ ~(c.op = "update" /\ c.enable = "keep")
      /\ c.op = "state" => c.name \in DOMAIN rc.conn
      /\ c.op \in {"create", "update"} => /\ Written(j, rc) /\ rc.conn[c.name].data = j.data
                                          /\ rc.conn[c.name].psk = None => j.warned
      /\ c.op = "rename" => j.created /\ New(j, rc, faults) /\ Under(j, rc, c.from)
      /\ j.on /\ rc.conn[c.name].on
  BY <1>1 DEF Course, CourseOf, Made, Renamed
<1>3. SaveOrReport(t) \in {"save", "report"} /\ (SaveOrReport(t) = "report" => ~c.save)
  BY <1>1, ActiveCall DEF SaveOrReport, Call
<1>4. CASE rc' = [rc EXCEPT !.service = TRUE] /\ Go(t, next) /\ faults' = faults
  <2>1. /\ job'[t].pc = next /\ job'[t].call = c /\ job'[t].psk = j.psk
        /\ job'[t].data = j.data /\ job'[t].on = j.on /\ job'[t].created = j.created
        /\ job'[t].warned = j.warned
    BY <1>4, GoFields
  <2>2. rc'.conn = rc.conn /\ rc'.service /\ j.on \in BOOLEAN /\ rc.conn[c.name].on \in BOOLEAN
    <3>1. c.name \in DOMAIN rc.conn
      <4>1. CASE c.op \in {"create", "update"}
        BY <1>2, <4>1 DEF Written
      <4>2. CASE c.op = "rename"
        BY <1>2, <4>2 DEF New
      <4>3. QED
        BY <1>2, <4>1, <4>2
    <3>2. QED
      BY <1>4, <3>1, ConnType DEF TypeOK, Config, Job
  <2>3. /\ c.op \in {"create", "update"} =>
             /\ Written(job'[t], rc') /\ rc'.conn[c.name].data = job'[t].data
             /\ rc'.conn[c.name].psk = None => job'[t].warned
        /\ c.op = "rename" => /\ job'[t].created /\ New(job'[t], rc', faults')
                              /\ Under(job'[t], rc', c.from)
        /\ c.op = "state" => c.name \in DOMAIN rc'.conn
        /\ IsSet(job'[t], rc')
    BY <1>2, <1>4, <2>1, <2>2 DEF Under, Written, New, IsSet
  <2>4. QED
    BY <1>2, <1>3, <2>1, <2>3
    DEF Keeps, Course, CourseOf, Made, Deleted, Renamed, SavedFor
<1>5. QED
  BY <1>1, <1>4, RequestCourse

LEMMA DeleteCourse ==
  ASSUME TypeOK, NEW t \in Task, Course(job[t], rc, sc, faults), Delete(t)
  PROVE  Keeps(t)
<1> DEFINE c == job[t].call
           j == job[t]
           old == IF c.op = "rename" THEN c.from ELSE c.name
<1>1. Active(t) /\ j.pc = "delete"
  BY DEF Delete, Active, At
<1>2. /\ c.op \in {"delete", "rename"}
      /\ c.op = "delete" => c.name \in DOMAIN rc.conn
      /\ c.op = "rename" => /\ j.created /\ New(j, rc, faults) /\ Under(j, rc, c.from)
                            /\ IsSet(j, rc) /\ c.from # c.name
  BY <1>1, ActiveCall DEF Course, CourseOf, Deleted, Renamed
<1>3. Request(t, {Removed(rc, old)}, "gone")
  BY <1>2 DEF Delete, Under
<1>4. CASE rc' = Removed(rc, old) /\ Go(t, "gone") /\ faults' = faults
  <2>1. /\ job'[t].pc = "gone" /\ job'[t].call = c /\ job'[t].psk = j.psk
        /\ job'[t].on = j.on /\ job'[t].created = j.created
        /\ job'[t].warned = j.warned
    BY <1>4, GoFields
  <2>2. /\ DOMAIN rc'.conn = DOMAIN rc.conn \ {old} /\ rc'.service = rc.service
        /\ \A m \in DOMAIN rc.conn \ {old} : rc'.conn[m] = rc.conn[m]
    BY <1>4, RemovedFields
  <2>3. /\ c.op = "rename" => /\ New(job'[t], rc', faults') /\ c.from \notin DOMAIN rc'.conn
                              /\ IsSet(job'[t], rc')
        /\ c.op = "delete" => c.name \notin DOMAIN rc'.conn
    BY <1>2, <1>4, <2>1, <2>2 DEF Under, Written, New, IsSet
  <2>4. QED
    BY <1>2, <2>1, <2>3 DEF Keeps, Course, CourseOf, Made, Deleted, Renamed, SavedFor
<1>5. QED
  BY <1>1, <1>3, <1>4, RequestCourse

LEMMA SaveCourse ==
  ASSUME TypeOK, NEW t \in Task, Course(job[t], rc, sc, faults), Save(t)
  PROVE  Keeps(t)
<1> DEFINE j == job[t]
<1>1. Active(t) /\ j.pc = "save" /\ rc' = rc
  BY DEF Save, Active, At
<1>2. CASE /\ Go(t, "report")
           /\ \/ sc' = rc /\ faults' = faults
              \/ Happens("nosave")
  <2>1. /\ job'[t].pc = "report" /\ job'[t].call = j.call /\ job'[t].psk = j.psk
        /\ job'[t].data = j.data /\ job'[t].on = j.on /\ job'[t].created = j.created
        /\ job'[t].warned = j.warned
    BY <1>2, GoFields
  <2>2. /\ Clean(faults') => Clean(faults)
        /\ sc' = rc \/ "nosave" \in Range(faults')
    BY <1>2, HappensFacts
  <2>3. CourseOf(job'[t]) /\ Made(job'[t], rc') /\ Deleted(job'[t], rc')
        /\ SavedFor(job'[t], rc', sc', faults')
    BY <1>1, <2>1, <2>2 DEF Course, CourseOf, Made, Deleted, SavedFor, Written, IsSet
  <2>4. Renamed(job'[t], rc', faults')
    BY <1>1, <2>1, <2>2 DEF Course, Renamed, New, IsSet
  <2>5. QED
    BY <2>3, <2>4 DEF Keeps, Course
<1>3. CASE Happens("refuse") /\ Fail(t)
  BY <1>1, <1>3, FailCourse
<1>4. CASE Happens("lost") /\ Fail(t)
  BY <1>1, <1>4, FailCourse
<1>5. QED
  BY <1>2, <1>3, <1>4 DEF Save

LEMMA DropCourse ==
  ASSUME TypeOK, NEW t \in Task, Drop(t)
  PROVE  Keeps(t)
BY EndCourse DEF Drop, Partial, Keeps

LEMMA StepCourse ==
  ASSUME Inv, NEW t \in Task, Course(job[t], rc, sc, faults), Step(t)
  PROVE  Keeps(t)
<1>1. TypeOK
  BY DEF Inv
<1>2. CASE Reads(t)
  BY <1>1, <1>2, ReadsCourse
<1>3. CASE ~Reads(t)
  <2>1. Apply(t) \/ Enable(t) \/ Service(t) \/ Delete(t) \/ Save(t) \/ Drop(t)
    BY <1>3 DEF Step, Reads
  <2>2. QED
    BY <1>1, <2>1, ApplyCourse, EnableCourse, ServiceCourse, DeleteCourse, SaveCourse, DropCourse
<1>4. QED
  BY <1>2, <1>3

LEMMA StepMoves ==
  ASSUME Inv, NEW t \in Task, Step(t)
  PROVE  Active(t) /\ Moves(t)
BY StepCases, ReadsMove, ReadsAreActive, WritesMove DEF Inv

\* A step leaves the other jobs as they are, and its own no more alone than it was.
LEMMA MovesAlone ==
  ASSUME TypeOK, NEW t \in Task, Moves(t)
  PROVE  /\ \A u \in Task \ {t} : job'[u] = job[u]
         /\ Active(t)' /\ job'[t].alone => job[t].alone
<1>1. job \in [Task -> Job]
  BY DEF TypeOK
<1>2. CASE GoesOn(t)
  BY <1>1, <1>2 DEF GoesOn
<1>3. CASE IsOver(t)
  BY <1>1, <1>3, IdleJobType DEF IsOver, Active
<1>4. QED
  BY <1>2, <1>3 DEF Moves

LEMMA NextCourse == CourseInv /\ [Next]_vars => CourseInv'
<1> DEFINE Knows(t) == Active(t) /\ job[t].alone =>
                         /\ Course(job[t], rc, sc, faults)
                         /\ \A u \in Task : Active(u) => u = t
<1> SUFFICES ASSUME CourseInv, [Next]_vars
             PROVE  (\A t \in Task : Knows(t))'
  BY NextInv DEF CourseInv
<1>0. Inv /\ TypeOK /\ \A t \in Task : Knows(t)
  BY DEF CourseInv, Inv
<1>1. CASE UNCHANGED vars
  <2>1. rc' = rc /\ sc' = sc /\ job' = job /\ faults' = faults
    BY <1>1 DEF vars
  <2>2. QED
    BY <1>0, <2>1 DEF Active
<1>2. CASE Reboot
  BY <1>2, IdleJobType DEF Reboot, Active
<1>3. ASSUME NEW t \in Task, Start(t)
      PROVE  (\A u \in Task : Knows(u))'
  <2>1. /\ job'[t].pc = "load" /\ ~job'[t].created
        /\ job'[t].alone => \A u \in Task : ~Active(u)
        /\ \A u \in Task \ {t} : job'[u].pc = job[u].pc /\ ~job'[u].alone
    BY <1>0, <1>3, StartJob
  <2>2. Course(job[t], rc, sc, faults)'
    BY <2>1 DEF Course, CourseOf, Made, Deleted, Renamed, SavedFor
  <2>3. Knows(t)'
    BY <2>1, <2>2 DEF Active
  <2>4. \A u \in Task \ {t} : Knows(u)'
    BY <2>1
  <2>5. QED
    BY <2>3, <2>4
<1>4. ASSUME NEW t \in Task, Step(t)
      PROVE  (\A u \in Task : Knows(u))'
  <2>1. Active(t) /\ Moves(t)
    BY <1>0, <1>4, StepMoves
  <2>2. /\ \A u \in Task \ {t} : job'[u] = job[u]
        /\ Active(t)' /\ job'[t].alone => job[t].alone
    BY <1>0, <2>1, MovesAlone
  <2>3. ASSUME Active(t)', job'[t].alone
        PROVE  Knows(t)'
    <3>1. job[t].alone
      BY <2>2, <2>3
    <3>2. Course(job[t], rc, sc, faults) /\ \A u \in Task : Active(u) => u = t
      BY <1>0, <2>1, <3>1
    <3>3. Course(job[t], rc, sc, faults)'
      BY <1>0, <1>4, <2>3, <3>2, StepCourse DEF Keeps
    <3>4. (\A u \in Task : Active(u) => u = t)'
      BY <2>2, <3>2 DEF Active
    <3>5. QED
      BY <3>3, <3>4
  <2>4. \A u \in Task \ {t} : Active(u) => ~job[u].alone
    BY <1>0, <2>1
  <2>5. \A u \in Task \ {t} : Knows(u)'
    BY <2>2, <2>4 DEF Active
  <2>6. QED
    BY <2>3, <2>5
<1>5. QED
  BY <1>1, <1>2, <1>3, <1>4 DEF Next

LEMMA CourseAlways == Spec => []CourseInv
<1>1. Init => CourseInv
  <2>1. Init => \A t \in Task : ~Active(t)
    BY IdleJobType DEF Init, Active
  <2>2. QED
    BY <2>1, InitInv DEF CourseInv
<1>2. CourseInv /\ [Next]_vars => CourseInv'
  BY NextCourse
<1>3. QED
  BY <1>1, <1>2, PTL DEF Spec

-----------------------------------------------------------------------------
(* How calls end. *)

\* A step that ends a call is its answer, the end of its handler, or an
\* exception that does not run the handler.
LEMMA StepEnds ==
  ASSUME TypeOK, NEW t \in Task, Step(t), job'[t].pc = "idle"
  PROVE  \/ Answer(t) \/ Recover(t) \/ Drop(t)
         \/ /\ report'[t].end = "error"
            /\ job[t].call.op # "rename" \/ job[t].pc \in {"load", "status", "psk"}
<1> DEFINE Raised == /\ report'[t].end = "error"
                     /\ job[t].call.op # "rename" \/ job[t].pc \in {"load", "status", "psk"}
<1>1. ASSUME End(t, Says("error")) PROVE report'[t].end = "error"
  BY <1>1 DEF End, Says, TypeOK
<1>2. ASSUME NEW pc, pc # "idle" PROVE ~Go(t, pc)
  BY <1>2, GoFields
<1>3. ASSUME Fail(t) PROVE Raised
  BY <1>1, <1>2, <1>3 DEF Fail
<1>4. ASSUME NEW results, NEW pc, pc # "idle", Request(t, results, pc) PROVE Raised
  BY <1>2, <1>3, <1>4 DEF Request
<1>5. SaveOrReport(t) # "idle"
  BY DEF SaveOrReport
<1>6. CASE Load(t)
  <2>1. job[t].pc \in {"load", "status", "psk"}
    BY <1>6 DEF Load, LoadForCreate, LoadForUpdate, ReadPsk, LoadForState,
       StatusForState, LoadForDelete, LoadForRename, StatusForRename, At
  <2>2. job[t] \in Job /\ job \in [Task -> Job]
    BY DEF TypeOK
  <2>3. ASSUME NEW k, NEW d, NEW b, Send(t, k, d, b) PROVE End(t, Says("error"))
    <3>1. CASE job' = [job EXCEPT ![t] = [@ EXCEPT !.pc = "apply", !.psk = k,
                                                   !.data = d, !.on = b]]
      <4>1. job'[t] = [job[t] EXCEPT !.pc = "apply", !.psk = k, !.data = d, !.on = b]
        BY <2>2, <3>1
      <4>2. job'[t].pc = "apply"
        BY <2>2, <4>1 DEF Job
      <4>3. QED
        BY <4>2
    <3>2. QED
      BY <2>3, <3>1 DEF Send
  <2>4. ASSUME NEW d, job' = [job EXCEPT ![t] = [@ EXCEPT !.pc = "psk", !.data = d]]
        PROVE  FALSE
    <3>1. job'[t].pc = "psk"
      BY <2>2, <2>4 DEF Job
    <3>2. QED
      BY <3>1
  <2>5. ASSUME NEW k, NEW d,
               job' = [job EXCEPT ![t] = [@ EXCEPT !.pc = "status", !.psk = k, !.data = d]]
        PROVE  FALSE
    <3>1. job'[t].pc = "status"
      BY <2>2, <2>5 DEF Job
    <3>2. QED
      BY <3>1
  <2>6. ~LoadForState(t)
    <3>1. ASSUME NEW o, NEW pc, pc # "idle",
                 job' = [job EXCEPT ![t] = [@ EXCEPT !.on = o, !.pc = pc]]
          PROVE  FALSE
      <4>1. job'[t].pc = pc
        BY <2>2, <3>1 DEF Job
      <4>2. QED
        BY <3>1, <4>1
    <3> DEFINE pc == IF job[t].call.name \in DOMAIN rc.conn THEN "enable" ELSE "status"
               o == job[t].call.enable = "on"
    <3>2. pc # "idle"
      OBVIOUS
    <3>3. LoadForState(t) => job' = [job EXCEPT ![t] = [@ EXCEPT !.on = o, !.pc = pc]]
      BY DEF LoadForState
    <3> HIDE DEF pc, o
    <3>4. QED
      BY <3>1, <3>2, <3>3
  <2>7. End(t, Says("error"))
    BY <1>2, <1>6, <2>3, <2>4, <2>5, <2>6
    DEF Load, LoadForCreate, LoadForUpdate, ReadPsk, StatusForState, LoadForDelete,
        LoadForRename, StatusForRename
  <2>8. QED
    BY <1>1, <2>1, <2>7
<1>7. CASE Apply(t)
  <2>1. job[t] \in Job /\ job \in [Task -> Job]
    BY DEF TypeOK
  <2>2. ASSUME job' = [job EXCEPT ![t].pc = "verify", ![t].created = TRUE] PROVE FALSE
    <3>1. job'[t].pc = "verify"
      BY <2>1, <2>2 DEF Job
    <3>2. QED
      BY <3>1
  <2>3. Fail(t)
    BY <1>7, <2>2 DEF Apply
  <2>4. QED
    BY <1>3, <2>3
<1>8. CASE Verify(t) \/ Gone(t) \/ ReadFails(t) \/ Save(t)
  <2>1. CASE Verify(t)
    <3>1. Fail(t)
      BY <2>1, VerifyFields
    <3>2. QED
      BY <1>3, <3>1
  <2>2. CASE Gone(t) \/ ReadFails(t) \/ Save(t)
    BY <1>2, <1>3, <1>5, <2>2 DEF Gone, ReadFails, Save
  <2>3. QED
    BY <1>8, <2>1, <2>2
<1>9. CASE Enable(t) \/ Service(t) \/ Delete(t)
  BY <1>3, <1>4, <1>5, <1>9 DEF Enable, Service, Delete
<1>10. QED
  BY <1>6, <1>7, <1>8, <1>9 DEF Step

\* A rename that gave up answers `partial', which is no answer that it is done.
LEMMA PartialFields ==
  ASSUME TypeOK, NEW t \in Task, NEW d, Partial(t, d)
  PROVE  report'[t].end = "partial"
<1>1. report'[t] = [Says("partial") EXCEPT !.created = job[t].created, !.dropped = d]
  BY DEF Partial, End, TypeOK
<1>2. QED
  BY <1>1 DEF Says

\* The answer: the work is done, or a saved delete is still in sc.
LEMMA AnswerFields ==
  ASSUME TypeOK, NEW t \in Task, Answer(t), report'[t].end = "ok"
  PROVE  LET c == job[t].call IN
         /\ rc' = rc /\ sc' = sc /\ faults' = faults
         /\ c.op = "delete" /\ c.save => c.name \notin DOMAIN sc.conn
         /\ report'[t].warned =
              (job[t].warned \/ (c.op = "create" /\ c.save /\ c.name \notin DOMAIN sc.conn))
<1> DEFINE c == job[t].call
           w == \/ job[t].warned
                \/ c.op = "create" /\ c.save /\ c.name \notin DOMAIN sc.conn
           r == [Says("ok") EXCEPT !.warned = w]
<1>1. r.warned = w
  BY DEF Says
<1>2. ~End(t, Says("error"))
  BY DEF End, Says, TypeOK
<1>3. End(t, r) /\ ~(c.op = "delete" /\ c.save /\ c.name \in DOMAIN sc.conn)
  BY <1>2 DEF Answer
<1> HIDE DEF w
<1>4. report'[t] = r
  BY <1>3 DEF End, TypeOK
<1> HIDE DEF r
<1>5. report'[t].warned = w
  BY <1>1, <1>4
<1>6. QED
  BY <1>3, <1>5 DEF Answer, w

\* Only its own step ends a call, and that says the work is done only when it is
\* the answer.
LEMMA WhoEnds ==
  ASSUME Inv, Next, NEW t \in Task, Ends(t)
  PROVE  /\ \/ Answer(t) \/ Recover(t) \/ Drop(t)
            \/ /\ report'[t].end = "error"
               /\ job[t].call.op # "rename" \/ job[t].pc \in {"load", "status", "psk"}
         /\ report'[t].end = "ok" => Answer(t)
<1>1. Active(t) /\ job'[t].pc = "idle" /\ report'[t].end # "none"
  BY DEF Ends
<1>2. ~Reboot
  <2>1. Reboot => report'[t] = Says("none")
    BY <1>1 DEF Reboot
  <2>2. QED
    BY <1>1, <2>1 DEF Says
<1>0. TypeOK
  BY DEF Inv
<1>3. ASSUME NEW u \in Task, Start(u) PROVE FALSE
  BY <1>0, <1>1, <1>3, StartJob DEF Active
<1>4. ASSUME NEW u \in Task \ {t}, Step(u) PROVE FALSE
  <2>1. job'[t] = job[t]
    BY <1>0, <1>4, StepMoves, MovesAlone
  <2>2. QED
    BY <1>1, <2>1 DEF Active
<1>5. Step(t)
  BY <1>2, <1>3, <1>4 DEF Next
<1>6. \/ Answer(t) \/ Recover(t) \/ Drop(t)
      \/ /\ report'[t].end = "error"
         /\ job[t].call.op # "rename" \/ job[t].pc \in {"load", "status", "psk"}
  BY <1>0, <1>1, <1>5, StepEnds
<1>7. CASE Recover(t) \/ Drop(t)
  <2>1. ~Go(t, "drop")
    BY <1>0, <1>1, GoFields
  <2>2. report'[t].end = "partial"
    BY <1>0, <1>7, <2>1, PartialFields DEF Recover, Drop
  <2>3. QED
    BY <1>6, <2>2
<1>8. QED
  BY <1>6, <1>7

\* What an answer of create, update, set_ipsec_state, delete or rename says is
\* so when it is given and no other call was in flight since it began: the reads
\* and writes before it leave nothing it claims untrue, whatever failed in this
\* call or in earlier ones.  A profile without a key, and a created one that is
\* not in sc, come with a warning; a save that was answered and not made may go
\* unseen by the others, but not by a delete.
THEOREM AnswersTrue == Spec => AnswersHold
<1> DEFINE IsSo(t) ==
      LET c == job[t].call
          warned == report'[t].warned
      IN
      /\ (c.op = "delete") = (c.name \notin DOMAIN rc.conn)
      /\ c.op = "rename" => c.from \notin DOMAIN rc.conn
      /\ c.op # "delete" /\ ~(c.op = "update" /\ c.enable = "keep")
           => rc.conn[c.name].on = job[t].on /\ (job[t].on => rc.service)
      /\ c.op \in {"create", "update"} /\ rc.conn[c.name].psk = None => warned
      /\ c.save => \/ sc = rc
                   \/ "nosave" \in Range(faults)
      /\ c.save /\ c.op = "delete" => c.name \notin DOMAIN sc.conn
      /\ c.save /\ c.op = "create" => c.name \in DOMAIN sc.conn \/ warned
<1>1. ASSUME CourseInv, Next, NEW t \in Task, Ends(t), report'[t].end = "ok", job[t].alone
      PROVE  IsSo(t)
  <2> DEFINE c == job[t].call
             j == job[t]
  <2>1. Inv /\ TypeOK /\ Active(t) /\ Course(job[t], rc, sc, faults)
    BY <1>1 DEF CourseInv, Inv, Ends
  <2>2. Answer(t) /\ j.pc = "report"
    BY <1>1, <2>1, WhoEnds DEF Answer, At
  <2>3. c \in Call /\ c.op \in Ops
    BY <2>1, ActiveCall
  <2>4. /\ c.op = "delete" /\ c.save => c.name \notin DOMAIN sc.conn
        /\ report'[t].warned =
             (j.warned \/ (c.op = "create" /\ c.save /\ c.name \notin DOMAIN sc.conn))
    BY <1>1, <2>1, <2>2, AnswerFields
  <2>5. c.save => sc = rc \/ "nosave" \in Range(faults)
    BY <2>1, <2>2 DEF Course, SavedFor
  <2>6. CASE c.op = "delete"
    BY <2>1, <2>2, <2>4, <2>5, <2>6 DEF Course, Deleted
  <2>7. CASE c.op = "rename"
    BY <2>1, <2>2, <2>4, <2>5, <2>7 DEF Course, Renamed, New, IsSet
  <2>8. CASE c.op \in {"create", "update", "state"}
    <3>1. /\ c.name \in DOMAIN rc.conn
          /\ ~(c.op = "update" /\ c.enable = "keep") => IsSet(j, rc)
          /\ c.op \in {"create", "update"} => (rc.conn[c.name].psk = None => j.warned)
      BY <2>1, <2>2, <2>8 DEF Course, Made, Written
    <3>2. QED
      BY <2>4, <2>5, <2>8, <3>1 DEF IsSet
  <2>9. QED
    BY <2>3, <2>6, <2>7, <2>8 DEF Ops
<1>2. CourseInv /\ [Next]_vars =>
        [\A t \in Task :
           Ends(t) /\ report'[t].end = "ok" /\ job[t].alone => IsSo(t)]_vars
  BY <1>1
<1>3. QED
  BY <1>2, CourseAlways, PTL DEF Spec, AnswersHold

\* create and update save a profile only with the data that were sent, with its
\* crypto map set, and with the key that was sent or with none and a warning,
\* when no other call was in flight since they began: the save comes after the
\* read that compares them and after the request that sets the map.
THEOREM SavesAsAsked == Spec => SavedAsAsked
<1> DEFINE Asked(t) ==
      LET c == job[t].call
          stored == sc'.conn[c.name]
      IN  /\ c.name \in DOMAIN sc'.conn
          /\ stored.data = job[t].data
          /\ stored.psk = job[t].psk \/ (stored.psk = None /\ job[t].warned)
          /\ c.enable # "keep" => stored.on = job[t].on
<1>1. ASSUME CourseInv, Next, NEW t \in Task,
             At(t, "save"), sc' # sc, job[t].alone, job[t].call.op \in {"create", "update"}
      PROVE  Asked(t)
  <2>1. TypeOK /\ Active(t) /\ Course(job[t], rc, sc, faults)
        /\ \A u \in Task : Active(u) => u = t
    BY <1>1 DEF CourseInv, Inv, At, Active
  <2>2. PICK u \in Task : Save(u)
    <3>1. \A u \in Task : ~Start(u)
      BY <1>1, StartRest
    <3>2. PICK u \in Task : Step(u)
      BY <1>1, <3>1 DEF Next, Reboot
    <3>3. Save(u)
      BY <1>1, <3>2
      DEF Step, Load, LoadForCreate, LoadForUpdate, ReadPsk,
       LoadForState, StatusForState, LoadForDelete, LoadForRename, StatusForRename,
       Apply, Verify, Enable, Service, Delete, Gone, Answer, ReadFails, Recover, Drop
    <3>4. QED
      BY <3>3
  <2>3. u = t
    BY <2>1, <2>2 DEF Save, Active, At
  <2>4. sc' = rc
    BY <1>1, <2>2 DEF Save
  <2>5. /\ Written(job[t], rc)
        /\ rc.conn[job[t].call.name].data = job[t].data
        /\ rc.conn[job[t].call.name].psk = None => job[t].warned
        /\ job[t].call.enable # "keep" => IsSet(job[t], rc)
    BY <1>1, <2>1 DEF Course, Made, At
  <2>6. QED
    BY <2>4, <2>5 DEF Written, IsSet
<1>2. CourseInv /\ [Next]_vars =>
        [\A t \in Task :
           /\ At(t, "save") /\ sc' # sc /\ job[t].alone
           /\ job[t].call.op \in {"create", "update"}
           => Asked(t)]_vars
  BY <1>1
<1>3. QED
  BY <1>2, CourseAlways, PTL DEF Spec, SavedAsAsked

\* A second failure is no longer mild.
LEMMA NotMild ==
  ASSUME TypeOK, NEW kind, Happens(kind), Len(faults) >= 1
  PROVE  ~Mild(faults')
<1>1. faults' = Append(faults, kind) /\ faults \in Seq(FaultKinds)
  BY DEF Happens, TypeOK
<1>2. Len(faults) \in Nat /\ Len(faults') = Len(faults) + 1
  BY <1>1
<1>3. QED
  BY <1>2 DEF Mild

\* A rename that began to write leaves the connection under exactly one name,
\* with the key it was renamed with: the new one when it is answered, one of
\* the two when it gives up.  When no other call was in flight since it began, as
\* long as at most one thing went wrong and that was not a lost write; the key
\* may be gone when the router stored the new profile without it, which
\* rename_ipsec does not look for.
THEOREM RenameWhole == Spec => RenameAllOrNothing
<1> DEFINE Began(t) ==
             /\ Ends(t) /\ job[t].alone
             /\ job[t].call.op = "rename" /\ job[t].pc \notin {"load", "status"}
             /\ Len(faults') <= 1 /\ faults' # <<"lost">>
           Whole(t) ==
             LET c == job[t].call IN
             \E n \in Name :
               /\ {c.name, c.from} \cap DOMAIN rc'.conn = {n}
               /\ report'[t].end = "ok" => n = c.name
               /\ faults' # <<"mangle">> => rc'.conn[n].psk = job[t].psk
<1>1. ASSUME CourseInv, Next, NEW t \in Task, Began(t)
      PROVE  Whole(t)
  <2> DEFINE c == job[t].call
             Bears(n) == Clean(faults') => rc'.conn[n].psk = job[t].psk
  <2>1. /\ Inv /\ TypeOK /\ Active(t) /\ Course(job[t], rc, sc, faults)
        /\ c.op = "rename" /\ Mild(faults')
    BY <1>1 DEF CourseInv, Inv, Ends, Mild
  <2>2. c.name \in Name /\ c.from \in Name /\ c.name # c.from
    BY <2>1, ActiveCall DEF Call
  <2>3. ASSUME NEW n \in {c.name, c.from}, Bears(n),
               {c.name, c.from} \cap DOMAIN rc'.conn = {n},
               report'[t].end = "ok" => n = c.name
        PROVE  Whole(t)
    BY <2>1, <2>2, <2>3 DEF Clean
  <2>4. report'[t].end = "ok" => Answer(t)
    BY <1>1, <2>1, WhoEnds
  <2>5. Renamed(job[t], rc, faults)
    BY <2>1 DEF Course
  <2>6. CASE Answer(t)
    <3>1. rc' = rc /\ faults' = faults /\ New(job[t], rc, faults) /\ c.from \notin DOMAIN rc.conn
      BY <2>1, <2>5, <2>6 DEF Answer, At, Renamed
    <3>2. {c.name, c.from} \cap DOMAIN rc'.conn = {c.name} /\ Bears(c.name)
      BY <3>1 DEF New
    <3>3. QED
      BY <2>3, <3>2
  <2>7. CASE Recover(t)
    <3>1. report'[t].end # "ok"
      BY <2>4, <2>7 DEF Answer, Recover, At
    <3>2. job[t].pc = "recover" /\ Len(faults) >= 1
      BY <2>1, <2>5, <2>7 DEF Recover, At, Renamed
    <3>3. ~Happens("read")
      BY <2>1, <3>2, NotMild
    <3>4. ~Go(t, "drop")
      BY <1>1, <2>1, GoFields DEF Ends
    <3>5. /\ rc' = rc /\ faults' = faults
          /\ ~(job[t].created /\ {c.name, c.from} \subseteq DOMAIN rc.conn)
      BY <2>7, <3>3, <3>4 DEF Recover
    <3>6. IF job[t].created
          THEN New(job[t], rc, faults)
               /\ (c.from \in DOMAIN rc.conn => Under(job[t], rc, c.from))
          ELSE Under(job[t], rc, c.from) /\ c.name \notin DOMAIN rc.conn
      BY <2>1, <2>5, <3>2, <3>5 DEF Renamed
    <3>7. PICK n \in {c.name, c.from} :
            Bears(n) /\ {c.name, c.from} \cap DOMAIN rc'.conn = {n}
      BY <3>5, <3>6 DEF Under, New
    <3>8. QED
      BY <2>3, <3>1, <3>7
  <2>8. CASE Drop(t)
    <3>1. report'[t].end # "ok"
      BY <2>4, <2>8 DEF Answer, Drop, At
    <3>2. job[t].pc = "drop" /\ Len(faults) >= 1 /\ {c.name, c.from} \subseteq DOMAIN rc.conn
      BY <2>1, <2>5, <2>8 DEF Drop, At, Renamed
    <3>3. ~Happens("refuse") /\ ~Happens("lost")
      BY <2>1, <3>2, NotMild
    <3>4. rc' = Removed(rc, c.name) /\ faults' = faults
      BY <2>8, <3>3 DEF Drop
    <3>5. Under(job[t], rc, c.from)
      BY <2>1, <2>5, <3>2, <3>4 DEF Renamed
    <3>6. DOMAIN rc'.conn = DOMAIN rc.conn \ {c.name} /\ rc'.conn[c.from] = rc.conn[c.from]
      BY <2>1, <2>2, <3>2, <3>4, RemovedFields
    <3>7. Bears(c.from) /\ {c.name, c.from} \cap DOMAIN rc'.conn = {c.from}
      BY <2>2, <3>5, <3>6 DEF Under
    <3>8. QED
      BY <2>3, <3>1, <3>7
  <2>9. Answer(t) \/ Recover(t) \/ Drop(t)
    <3>1. job[t].pc \notin {"load", "status", "psk"}
      BY <1>1, <2>1 DEF Course, CourseOf
    <3>2. QED
      BY <1>1, <2>1, <3>1, WhoEnds
  <2>10. QED
    BY <2>6, <2>7, <2>8, <2>9
<1>2. CourseInv /\ [Next]_vars => [\A t \in Task : Began(t) => Whole(t)]_vars
  BY <1>1
<1>3. QED
  BY <1>2, CourseAlways, PTL DEF Spec, RenameAllOrNothing
=============================================================================
