------------------------- MODULE DomainLists_proofs -------------------------
(***************************************************************************)
(* Proofs about DomainLists for any number of tasks, lists and entries,    *)
(* any set of calls and, unless a theorem excludes some, all faults.       *)
(***************************************************************************)
EXTENDS DomainLists, TLAPS

-----------------------------------------------------------------------------
(* Partial functions from keys to lists. *)

LEMMA StoreIntro ==
  ASSUME NEW f, f = [k \in DOMAIN f |-> f[k]], DOMAIN f \subseteq Key,
         \A k \in DOMAIN f : f[k] \in List
  PROVE  f \in Store
<1>1. f \in [DOMAIN f -> List]
  OBVIOUS
<1>2. QED
  BY <1>1 DEF Store

LEMMA StoreElim ==
  ASSUME NEW f \in Store
  PROVE  /\ f = [k \in DOMAIN f |-> f[k]]
         /\ DOMAIN f \subseteq Key
         /\ \A k \in DOMAIN f : f[k] \in List
<1>1. PICK K \in SUBSET Key : f \in [K -> List]
  BY DEF Store
<1>2. QED
  BY <1>1

LEMMA EmptyStore == Empty \in Store
<1>1. DOMAIN Empty = {}
  BY DEF Empty
<1>2. Empty \in [{} -> List]
  BY DEF Empty
<1>3. QED
  BY <1>2 DEF Store

LEMMA IncludesType ==
  ASSUME NEW f \in Store, NEW k
  PROVE  Includes(f, k) \subseteq Entry
BY StoreElim DEF Includes, List

LEMMA PutStore ==
  ASSUME NEW f \in Store, NEW k \in Key, NEW v \in List
  PROVE  Put(f, k, v) \in Store
<1> DEFINE g == Put(f, k, v)
<1>1. DOMAIN g = DOMAIN f \cup {k} /\ g = [x \in DOMAIN g |-> g[x]]
  BY DEF Put
<1>2. \A x \in DOMAIN g : g[x] \in List
  BY StoreElim DEF Put
<1>3. DOMAIN g \subseteq Key
  BY <1>1, StoreElim
<1> HIDE DEF g
<1>4. g \in Store
  BY <1>1, <1>2, <1>3, StoreIntro
<1>5. QED
  BY <1>4 DEF g

LEMMA DropStore ==
  ASSUME NEW f \in Store, NEW k
  PROVE  Drop(f, k) \in Store
<1> DEFINE g == Drop(f, k)
<1>1. DOMAIN g = DOMAIN f \ {k} /\ g = [x \in DOMAIN g |-> g[x]]
  BY DEF Drop
<1>2. \A x \in DOMAIN g : g[x] \in List
  BY StoreElim DEF Drop
<1>3. DOMAIN g \subseteq Key
  BY <1>1, StoreElim
<1> HIDE DEF g
<1>4. g \in Store
  BY <1>1, <1>2, <1>3, StoreIntro
<1>5. QED
  BY <1>4 DEF g

LEMMA OnlyStore ==
  ASSUME NEW f \in Store, NEW k
  PROVE  Only(f, k) \in Store
<1> DEFINE g == Only(f, k)
<1>1. DOMAIN g = DOMAIN f \cap {k} /\ g = [x \in DOMAIN g |-> g[x]]
  BY DEF Only
<1>2. \A x \in DOMAIN g : g[x] \in List
  BY StoreElim DEF Only
<1>3. DOMAIN g \subseteq Key
  BY <1>1, StoreElim
<1> HIDE DEF g
<1>4. g \in Store
  BY <1>1, <1>2, <1>3, StoreIntro
<1>5. QED
  BY <1>4 DEF g

LEMMA ClearIncludeStore ==
  ASSUME NEW f \in Store, NEW k \in Key
  PROVE  ClearInclude(f, k) \in Store
<1>1. CASE k \in DOMAIN f
  <2>1. [f[k] EXCEPT !.entries = {}] \in List
    BY <1>1, StoreElim DEF List
  <2>2. QED
    BY <1>1, <2>1, PutStore DEF ClearInclude
<1>2. CASE k \notin DOMAIN f
  BY <1>2 DEF ClearInclude
<1>3. QED
  BY <1>1, <1>2

LEMMA MergeListStore ==
  ASSUME NEW f \in Store, NEW k \in Key, NEW n \in Name, NEW es \in SUBSET Entry
  PROVE  MergeList(f, k, n, es) \in Store
<1>1. [name |-> n, entries |-> Includes(f, k) \cup es] \in List
  BY IncludesType DEF List
<1>2. QED
  BY <1>1, PutStore DEF MergeList

-----------------------------------------------------------------------------
(* Type correctness. *)

LEMMA IdleJobType == IdleJob \in Job
<1>1. AnyName \in Name
  BY ListsAssumption DEF AnyName
<1>2. 0 \in Key /\ NoCall \in Call
  BY ListsAssumption DEF Key, NoCall, Call, Ops, Writers, Readers
<1>3. QED
  BY <1>1, <1>2, EmptyStore DEF IdleJob, Job, Phases, Probes

LEMMA NoReportType ==
  /\ NoReport \in Report
  /\ \A op \in Ops : [NoReport EXCEPT !.op = op] \in Report
<1>1. 0 \in Key
  BY ListsAssumption DEF Key
<1>2. QED
  BY <1>1 DEF NoReport, Report

\* A call that raises leaves job and report well typed.
LEMMA RaiseType ==
  ASSUME TypeOK, NEW t \in Task, Raise(t)
  PROVE  job' \in [Task -> Job] /\ report' \in [Task -> Report]
<1>1. job[t].call.op \in Ops
  BY DEF TypeOK, Job, Call
<1>2. [NoReport EXCEPT !.op = job[t].call.op] \in Report
  BY <1>1, NoReportType
<1>3. QED
  BY <1>2, IdleJobType DEF Raise, TypeOK

LEMMA FreshType ==
  ASSUME TypeOK, NEW t \in Task, NEW pc \in Phases
  PROVE  Fresh(t, pc) \in Job
<1> DEFINE j == job[t]
<1>1. j \in Job
  BY DEF TypeOK
<1>2. 1 \in Probes
  BY DEF Probes
<1> HIDE DEF j
<1>3. [j EXCEPT !.pc = pc, !.probe = 1, !.err = FALSE] \in Job
  BY <1>1, <1>2 DEF Job
<1>4. QED
  BY <1>3 DEF Fresh, j

LEMMA ViewType ==
  ASSUME TypeOK, NEW t \in Task
  PROVE  View(t) \in Store
BY DEF TypeOK, View, Shown

LEMMA NewEntriesType ==
  ASSUME NEW c \in Call, NEW old \in SUBSET Entry
  PROVE  NewEntries(c, old) \in SUBSET Entry
BY DEF NewEntries, Call

LEMMA ObserveType ==
  ASSUME TypeOK, Observe
  PROVE  differed' \in [Task -> BOOLEAN]
BY DEF TypeOK, Observe

LEMMA StartType ==
  ASSUME TypeOK, NEW t \in Task, Start(t)
  PROVE  TypeOK'
<1>1. PICK c \in Calls[t] :
        job' = [job EXCEPT ![t] =
                  [IdleJob EXCEPT !.pc = IF c.op = "save" THEN "commit" ELSE "read",
                                  !.call = c]]
  BY DEF Start
<1>2. c \in Call
  BY ListsAssumption
<1>3. (IF c.op = "save" THEN "commit" ELSE "read") \in Phases
  BY DEF Phases
<1>4. [IdleJob EXCEPT !.pc = IF c.op = "save" THEN "commit" ELSE "read",
                      !.call = c] \in Job
  BY <1>2, <1>3, IdleJobType DEF Job
<1>5. job' \in [Task -> Job]
  BY <1>1, <1>4 DEF TypeOK
<1>6. report' \in [Task -> Report]
  BY NoReportType DEF Start, TypeOK
<1>7. calls' \in Nat /\ differed' \in [Task -> BOOLEAN] /\ wrote' \in [Task -> BOOLEAN]
  BY DEF Start, TypeOK
<1>8. QED
  BY <1>5, <1>6, <1>7 DEF Start, TypeOK

LEMMA ProbeNextType ==
  ASSUME TypeOK, NEW t \in Task, ProbeNext(t)
  PROVE  TypeOK'
<1> DEFINE j == job[t]
<1>1. j \in Job
  BY DEF TypeOK
<1>2. j.probe + 1 \in Probes
  BY <1>1 DEF ProbeNext, Job, Probes, LastProbe
<1> HIDE DEF j
<1>3. /\ [j EXCEPT !.probe = j.probe + 1] \in Job
      /\ [j EXCEPT !.probe = j.probe + 1, !.err = TRUE] \in Job
  BY <1>1, <1>2 DEF Job
<1>4. \/ job' = [job EXCEPT ![t] = [j EXCEPT !.probe = j.probe + 1]]
      \/ job' = [job EXCEPT ![t] = [j EXCEPT !.probe = j.probe + 1, !.err = TRUE]]
  BY DEF ProbeNext, j
<1>5. job' \in [Task -> Job]
  BY <1>3, <1>4 DEF TypeOK
<1>6. QED
  BY <1>5, ObserveType DEF ProbeNext, TypeOK

LEMMA ProbeRaiseType ==
  ASSUME TypeOK, NEW t \in Task, ProbeRaise(t)
  PROVE  TypeOK'
BY RaiseType, ObserveType DEF ProbeRaise, TypeOK

LEMMA ReadNamedType ==
  ASSUME TypeOK, NEW t \in Task, ReadNamed(t)
  PROVE  TypeOK'
<1> DEFINE c == job[t].call
           view == View(t)
<1>1. view \in Store
  BY ViewType
<1>2. job' \in [Task -> Job] /\ report' \in [Task -> Report]
  <2>1. CASE Raise(t)
    BY <2>1, RaiseType
  <2>2. ASSUME NEW k \in ResolveListKey(view, c.ref),
               NEW pc \in Phases,
               job' = [job EXCEPT ![t] =
                 [Fresh(t, pc) EXCEPT !.key = k, !.desc = view[k].name,
                                      !.old = view[k].entries, !.mine = Only(view, k)]],
               UNCHANGED report
        PROVE  job' \in [Task -> Job] /\ report' \in [Task -> Report]
    <3>1. k \in DOMAIN view
      BY DEF ResolveListKey
    <3>2. k \in Key /\ view[k].name \in Name /\ view[k].entries \in SUBSET Entry
      BY <1>1, <3>1, StoreElim DEF List
    <3>3. Only(view, k) \in Store
      BY <1>1, OnlyStore
    <3>4. Fresh(t, pc) \in Job
      BY FreshType
    <3>5. [Fresh(t, pc) EXCEPT !.key = k, !.desc = view[k].name,
                               !.old = view[k].entries, !.mine = Only(view, k)] \in Job
      BY <3>2, <3>3, <3>4 DEF Job
    <3>6. QED
      BY <2>2, <3>5 DEF TypeOK
  <2>3. {"saved", "after", "write"} \subseteq Phases
    BY DEF Phases
  <2>4. QED
    BY <2>1, <2>2, <2>3 DEF ReadNamed
<1>3. owed' \in [Key -> SUBSET Entry]
  <2>1. ASSUME NEW k, NEW old
        PROVE  GivenUp(t, k, old) \in [Key -> SUBSET Entry]
    <3>1. owed[k] \cap old \subseteq owed[k]
      OBVIOUS
    <3>2. [owed EXCEPT ![k] = owed[k] \cap old] \in [Key -> SUBSET Entry]
      BY <3>1 DEF TypeOK
    <3>3. QED
      BY <3>2 DEF GivenUp, TypeOK
  <2>2. \/ owed' = owed
        \/ \E k \in ResolveListKey(view, c.ref) : owed' = GivenUp(t, k, view[k].entries)
    BY DEF ReadNamed
  <2>3. QED
    BY <2>1, <2>2 DEF TypeOK
<1>4. QED
  BY <1>2, <1>3, ObserveType DEF ReadNamed, TypeOK

LEMMA ReadForCreateType ==
  ASSUME TypeOK, NEW t \in Task, ReadForCreate(t)
  PROVE  TypeOK'
<1>1. PICK k \in FirstFree(View(t)) :
        job' = [job EXCEPT ![t] = [Fresh(t, "write") EXCEPT !.key = k]]
  BY DEF ReadForCreate
<1>2. Fresh(t, "write") \in Job
  BY FreshType DEF Phases
<1>3. [Fresh(t, "write") EXCEPT !.key = k] \in Job
  BY <1>1, <1>2 DEF Job, FirstFree
<1>4. job' \in [Task -> Job]
  BY <1>1, <1>3 DEF TypeOK
<1>5. QED
  BY <1>4, ObserveType DEF ReadForCreate, TypeOK

LEMMA ReadForDiffType ==
  ASSUME TypeOK, NEW t \in Task, ReadForDiff(t)
  PROVE  TypeOK'
<1>1. Fresh(t, "saved") \in Job
  BY FreshType DEF Phases
<1>2. [Fresh(t, "saved") EXCEPT !.mine = View(t)] \in Job
  BY <1>1, ViewType DEF Job
<1>3. job' \in [Task -> Job]
  BY <1>2 DEF ReadForDiff, TypeOK
<1>4. QED
  BY <1>3, ObserveType DEF ReadForDiff, TypeOK

LEMMA EffectsType ==
  ASSUME TypeOK, NEW t \in Task, job[t].pc = "write"
  PROVE  Effects(job[t]) \subseteq Store
<1> DEFINE j == job[t]
<1>1. j \in Job /\ j.call \in Call /\ j.key \in Key /\ j.desc \in Name
  BY DEF TypeOK, Job
<1>2. j.call.args \in SUBSET Entry /\ NewEntries(j.call, j.old) \in SUBSET Entry
  BY <1>1, NewEntriesType DEF Call, Job
<1>3. rc \in Store /\ ClearInclude(rc, j.key) \in Store /\ Drop(rc, j.key) \in Store
  BY <1>1, ClearIncludeStore, DropStore DEF TypeOK
<1>4. MergeList(ClearInclude(rc, j.key), j.key, j.desc, NewEntries(j.call, j.old))
        \in Store
  BY <1>1, <1>2, <1>3, MergeListStore
<1>5. ASSUME j.call.op = "create"
      PROVE  MergeList(rc, j.key, j.call.ref, j.call.args) \in Store
  <2>1. j.call.ref \in Name
    BY <1>1, <1>5 DEF Call
  <2>2. QED
    BY <1>1, <1>2, <1>3, <2>1, MergeListStore
<1>6. CASE j.call.op \in {"add", "remove", "set"}
  BY <1>3, <1>4, <1>6 DEF Effects
<1>7. CASE j.call.op = "create"
  BY <1>3, <1>5, <1>7 DEF Effects
<1>8. CASE j.call.op = "delete"
  BY <1>3, <1>8 DEF Effects
<1>9. CASE j.call.op \notin {"add", "remove", "set", "create", "delete"}
  BY <1>3, <1>9 DEF Effects
<1>10. QED
  BY <1>6, <1>7, <1>8, <1>9

LEMMA OwingType ==
  ASSUME TypeOK, NEW t \in Task
  PROVE  Owing(job[t]) \in [Key -> SUBSET Entry]
<1>1. job[t].key \in Key /\ job[t].call.args \in SUBSET Entry
  BY DEF TypeOK, Job, Call
<1>2. QED
  BY <1>1 DEF Owing, TypeOK

LEMMA WriteType ==
  ASSUME TypeOK, NEW t \in Task, Write(t)
  PROVE  TypeOK'
<1>1. rc' \in Store /\ sc' \in Store
  <2>1. rc' \in Store
    BY EffectsType DEF Write
  <2>2. QED
    BY <2>1 DEF Write, Saved, TypeOK
<1>2. Fresh(t, "after") \in Job
  BY FreshType DEF Phases
<1>3. [Fresh(t, "after") EXCEPT !.mine = Empty] \in Job
  BY <1>2, EmptyStore DEF Job
<1>4. job' \in [Task -> Job] /\ report' \in [Task -> Report]
  <2>1. CASE Raise(t)
    BY <2>1, RaiseType
  <2>2. CASE job' = [job EXCEPT ![t] = [Fresh(t, "after") EXCEPT !.mine = Empty]]
             /\ UNCHANGED report
    BY <1>3, <2>2 DEF TypeOK
  <2>3. QED
    BY <2>1, <2>2 DEF Write
<1>5. owed' \in [Key -> SUBSET Entry]
  BY OwingType DEF Write
<1>6. wrote' \in [Task -> BOOLEAN] /\ calls' \in Nat
  BY DEF Write, TypeOK
<1>7. QED
  BY <1>1, <1>4, <1>5, <1>6, ObserveType DEF Write, TypeOK

LEMMA CommitType ==
  ASSUME TypeOK, NEW t \in Task, Commit(t)
  PROVE  TypeOK'
<1>1. rc' \in Store /\ sc' \in Store
  BY DEF Commit, Saved, TypeOK
<1>2. Fresh(t, "read") \in Job
  BY FreshType DEF Phases
<1>3. job' \in [Task -> Job] /\ report' \in [Task -> Report]
  <2>1. CASE Raise(t)
    BY <2>1, RaiseType
  <2>2. CASE job' = [job EXCEPT ![t] = Fresh(t, "read")] /\ UNCHANGED report
    BY <1>2, <2>2 DEF TypeOK
  <2>3. QED
    BY <2>1, <2>2 DEF Commit
<1>4. QED
  BY <1>1, <1>3, ObserveType DEF Commit, TypeOK

LEMMA LoseType ==
  ASSUME TypeOK, NEW t \in Task, Lose(t)
  PROVE  TypeOK'
BY RaiseType, ObserveType DEF Lose, TypeOK

LEMMA ReadAfterType ==
  ASSUME TypeOK, NEW t \in Task, ReadAfter(t)
  PROVE  TypeOK'
<1>1. Fresh(t, "saved") \in Job
  BY FreshType DEF Phases
<1>2. Only(View(t), job[t].key) \in Store
  BY ViewType, OnlyStore
<1>3. [Fresh(t, "saved") EXCEPT !.mine = Only(View(t), job[t].key)] \in Job
  BY <1>1, <1>2 DEF Job
<1>4. job' \in [Task -> Job]
  BY <1>3 DEF ReadAfter, TypeOK
<1>5. QED
  BY <1>4, ObserveType DEF ReadAfter, TypeOK

LEMMA AnswerType ==
  ASSUME TypeOK, NEW t \in Task, NEW view \in Store
  PROVE  /\ Answer(job[t], view) \in Report
         /\ Added(job[t]) \in SUBSET Entry
<1> DEFINE j == job[t]
<1>1. j.call.op \in Ops /\ j.key \in Key /\ j.call.args \in SUBSET Entry
  BY DEF TypeOK, Job, Call
<1>2. Added(j) \in SUBSET Entry
  BY <1>1 DEF Added
<1>3. DirtyFlag(j, view) \in BOOLEAN
  BY DEF DirtyFlag, Dirty
<1>4. AsksSave(j.call) \in BOOLEAN
  BY DEF AsksSave, TypeOK, Job, Call
<1> DEFINE hit == \/ j.call.op = "create" /\ j.key \in DOMAIN j.mine
                  \/ j.call.op = "delete" /\ j.key \notin DOMAIN j.mine
           added == Added(j)
           dirty == DirtyFlag(j, view)
           asked == AsksSave(j.call)
<1>5. hit \in BOOLEAN
  OBVIOUS
<1>6. Answer(j, view) = [op |-> j.call.op, ok |-> TRUE, key |-> j.key, hit |-> hit,
                         entries |-> added, dirty |-> dirty, persisted |-> asked]
  BY DEF Answer
<1> HIDE DEF j, hit, added, dirty, asked
<1>7. Answer(j, view) \in Report
  BY <1>1, <1>2, <1>3, <1>4, <1>5, <1>6 DEF Report, added, dirty, asked
<1>8. QED
  BY <1>2, <1>7 DEF j

LEMMA FinishType ==
  ASSUME TypeOK, NEW t \in Task, Finish(t)
  PROVE  TypeOK'
<1>1. /\ Answer(job[t], View(t)) \in Report
      /\ Added(job[t]) \in SUBSET Entry
  BY ViewType, AnswerType
<1>2. job' \in [Task -> Job]
  BY IdleJobType DEF Finish, TypeOK
<1>3. report' \in [Task -> Report]
  BY <1>1 DEF Finish, TypeOK
<1>4. owed' \in [Key -> SUBSET Entry]
  BY <1>1 DEF Finish, TypeOK
<1>5. QED
  BY <1>2, <1>3, <1>4, ObserveType DEF Finish, TypeOK

LEMMA RebootType ==
  ASSUME TypeOK, Reboot
  PROVE  TypeOK'
<1>1. job' \in [Task -> Job]
  BY IdleJobType DEF Reboot
<1>2. \A t \in Task : [NoReport EXCEPT !.op = job[t].call.op] \in Report
  BY NoReportType DEF TypeOK, Job, Call
<1>3. report' \in [Task -> Report]
  BY <1>2 DEF Reboot, TypeOK
<1>4. owed' \in [Key -> SUBSET Entry]
  BY DEF Reboot, TypeOK
<1>5. QED
  BY <1>1, <1>3, <1>4 DEF Reboot, TypeOK

LEMMA InitType == Init => TypeOK
<1>1. \A f \in InitStores : f \in Store
  BY ListsAssumption
<1>2. QED
  BY <1>1, IdleJobType, NoReportType DEF Init, TypeOK

LEMMA NextType == TypeOK /\ [Next]_vars => TypeOK'
<1> SUFFICES ASSUME TypeOK, [Next]_vars PROVE TypeOK'
  OBVIOUS
<1>1. CASE Reboot
  BY <1>1, RebootType
<1>2. ASSUME NEW t \in Task, Start(t) PROVE TypeOK'
  BY <1>2, StartType
<1>3. ASSUME NEW t \in Task, Step(t) PROVE TypeOK'
  BY <1>3, ProbeNextType, ProbeRaiseType, ReadNamedType, ReadForCreateType,
     ReadForDiffType, WriteType, CommitType, LoseType, ReadAfterType, FinishType
  DEF Step
<1>4. CASE UNCHANGED vars
  BY <1>4 DEF vars, TypeOK
<1>5. QED
  BY <1>1, <1>2, <1>3, <1>4 DEF Next

\* In every behaviour the stores stay partial functions from keys to lists, and
\* every job, report and history variable keeps its type, whatever the calls
\* in flight and the faults are.
THEOREM TypeCorrect == Spec => []TypeOK
BY InitType, NextType, PTL DEF Spec

-----------------------------------------------------------------------------
(* Every step does to (rc, sc) what SavedConfig allows. *)

\* f and g differ under key k at most.
SameBut(k, f, g) ==
  /\ DOMAIN f \ {k} = DOMAIN g \ {k}
  /\ \A x \in DOMAIN f \ {k} : f[x] = g[x]

LEMMA PutSameBut ==
  ASSUME NEW f, NEW k, NEW v
  PROVE  SameBut(k, f, Put(f, k, v))
BY DEF SameBut, Put

LEMMA EffectsDifferInOne ==
  ASSUME TypeOK, NEW t \in Task, job[t].pc = "write", rc' \in Effects(job[t])
  PROVE  SC!DifferInOne(rc, rc')
<1> DEFINE j == job[t]
           cleared == ClearInclude(rc, j.key)
<1>1. j.key \in Key
  BY DEF TypeOK, Job
<1>2. SameBut(j.key, rc, rc)
  BY DEF SameBut
<1>3. SameBut(j.key, rc, cleared)
  BY <1>2, PutSameBut DEF ClearInclude
<1>4. \A n, es : SameBut(j.key, rc, MergeList(rc, j.key, n, es))
  BY PutSameBut DEF MergeList
<1>5. \A n, es : SameBut(j.key, rc, MergeList(cleared, j.key, n, es))
  <2> HIDE DEF cleared
  <2>1. \A n, es : SameBut(j.key, cleared, MergeList(cleared, j.key, n, es))
    BY PutSameBut DEF MergeList
  <2>2. QED
    BY <1>3, <2>1 DEF SameBut
<1>6. SameBut(j.key, rc, Drop(rc, j.key))
  BY DEF SameBut, Drop
<1>7. SameBut(j.key, rc, rc')
  <2>1. CASE j.call.op \in {"add", "remove", "set"}
    BY <1>3, <1>5, <2>1 DEF Effects
  <2>2. CASE j.call.op = "create"
    BY <1>2, <1>4, <2>2 DEF Effects
  <2>3. CASE j.call.op = "delete"
    BY <1>2, <1>6, <2>3 DEF Effects
  <2>4. CASE j.call.op \notin {"add", "remove", "set", "create", "delete"}
    BY <1>2, <2>4 DEF Effects
  <2>5. QED
    BY <2>1, <2>2, <2>3, <2>4
<1>8. QED
  BY <1>1, <1>7 DEF SameBut, SC!DifferInOne

\* The state functions the refinement mapping substitutes.
OpenTasks == {t \in Task : Active(t)}
ConsentTasks == {t \in Task : Active(t) /\ AsksSave(job[t].call)}

\* A step that leaves t in flight with the call it had leaves both sets alone;
\* one that ends t's call takes t out of both.
LEMMA KeepsOpen ==
  ASSUME NEW t \in Task, NEW j, job \in [Task -> Job], Active(t),
         job' = [job EXCEPT ![t] = j], j.pc # "idle", j.call = job[t].call
  PROVE  OpenTasks' = OpenTasks /\ ConsentTasks' = ConsentTasks
<1>1. \A u \in Task : Active(u)' = Active(u) /\ job'[u].call = job[u].call
  BY DEF Active
<1>2. QED
  BY <1>1 DEF OpenTasks, ConsentTasks

LEMMA RaiseCloses ==
  ASSUME NEW t \in Task, job \in [Task -> Job], job' = [job EXCEPT ![t] = IdleJob]
  PROVE  OpenTasks' = OpenTasks \ {t} /\ ConsentTasks' = ConsentTasks \ {t}
<1>1. ~Active(t)'
  BY DEF Active, IdleJob
<1>2. \A u \in Task \ {t} : job'[u] = job[u]
  OBVIOUS
<1>3. \A u \in Task \ {t} : Active(u)' = Active(u)
  BY <1>2 DEF Active
<1>4. QED
  BY <1>1, <1>2, <1>3 DEF OpenTasks, ConsentTasks

LEMMA StartOpens ==
  ASSUME TypeOK, NEW t \in Task, Start(t)
  PROVE  SC!Open(t)
<1>1. PICK c \in Calls[t] :
        job' = [job EXCEPT ![t] =
                  [IdleJob EXCEPT !.pc = IF c.op = "save" THEN "commit" ELSE "read",
                                  !.call = c]]
  BY DEF Start
<1>2. job'[t].pc # "idle"
  BY <1>1 DEF TypeOK, IdleJob
<1>3. \A u \in Task \ {t} : job'[u] = job[u]
  BY <1>1 DEF TypeOK
<1>4. ~Active(t) /\ Active(t)' /\ \A u \in Task \ {t} : Active(u)' = Active(u)
  BY <1>2, <1>3 DEF Active, Start
<1>5. OpenTasks' = OpenTasks \cup {t}
  BY <1>4 DEF OpenTasks
<1>6. ConsentTasks' \in {ConsentTasks, ConsentTasks \cup {t}}
  BY <1>3, <1>4 DEF ConsentTasks
<1>7. t \notin OpenTasks
  BY <1>4 DEF OpenTasks
<1>8. rc' = rc /\ sc' = sc
  BY DEF Start
<1>9. QED
  BY <1>5, <1>6, <1>7, <1>8 DEF SC!Open, OpenTasks, ConsentTasks

\* A step of t that only reads is a step SavedConfig does not see, or the end
\* of t's call.
LEMMA ReadingStep ==
  ASSUME TypeOK, NEW t \in Task, Active(t), UNCHANGED <<rc, sc>>,
         \/ job' = [job EXCEPT ![t] = IdleJob]
         \/ \E j : job' = [job EXCEPT ![t] = j] /\ j.pc # "idle"
                   /\ j.call = job[t].call
  PROVE  SC!Close(t) \/ UNCHANGED SC!scVars
<1>1. t \in OpenTasks /\ job \in [Task -> Job]
  BY DEF OpenTasks, TypeOK
<1>2. CASE job' = [job EXCEPT ![t] = IdleJob]
  <2>1. OpenTasks' = OpenTasks \ {t} /\ ConsentTasks' = ConsentTasks \ {t}
    BY <1>1, <1>2, RaiseCloses
  <2>2. QED
    BY <1>1, <2>1 DEF SC!Close, OpenTasks, ConsentTasks
<1>3. ASSUME NEW j, job' = [job EXCEPT ![t] = j], j.pc # "idle", j.call = job[t].call
      PROVE  UNCHANGED SC!scVars
  <2>1. OpenTasks' = OpenTasks /\ ConsentTasks' = ConsentTasks
    BY <1>1, <1>3, KeepsOpen
  <2>2. QED
    BY <2>1 DEF SC!scVars, OpenTasks, ConsentTasks
<1>4. QED
  BY <1>2, <1>3

\* A step of t that writes or saves is one request of t.
LEMMA WritingStep ==
  ASSUME TypeOK, NEW t \in Task, Active(t), rc' \in Store, SC!DifferInOne(rc, rc'),
         sc' = sc \/ (AsksSave(job[t].call) /\ sc' = rc'),
         \/ job' = [job EXCEPT ![t] = IdleJob]
         \/ \E j : job' = [job EXCEPT ![t] = j] /\ j.pc # "idle"
                   /\ j.call = job[t].call
  PROVE  SC!Request(t)
<1>1. t \in OpenTasks /\ job \in [Task -> Job]
  BY DEF OpenTasks, TypeOK
<1>2. sc' = sc \/ (t \in ConsentTasks /\ sc' = rc')
  BY DEF ConsentTasks
<1>3. \/ OpenTasks' = OpenTasks /\ ConsentTasks' = ConsentTasks
      \/ OpenTasks' = OpenTasks \ {t} /\ ConsentTasks' = ConsentTasks \ {t}
  BY <1>1, KeepsOpen, RaiseCloses
<1>4. SC!IsConfig(rc')
  BY DEF SC!IsConfig, Store
<1>5. QED
  BY <1>1, <1>2, <1>3, <1>4 DEF SC!Request, OpenTasks, ConsentTasks

\* Fresh moves a job to another phase of the same call.
LEMMA FreshFacts ==
  ASSUME TypeOK, NEW t \in Task, NEW pc \in Phases
  PROVE  Fresh(t, pc).pc = pc /\ Fresh(t, pc).call = job[t].call
BY DEF TypeOK, Job, Fresh

LEMMA ReadsAreInvisible ==
  ASSUME TypeOK, NEW t \in Task,
         \/ ProbeNext(t) \/ ProbeRaise(t) \/ ReadNamed(t) \/ ReadForCreate(t)
         \/ ReadForDiff(t) \/ Lose(t) \/ ReadAfter(t) \/ Finish(t)
  PROVE  SC!Close(t) \/ UNCHANGED SC!scVars
<1> DEFINE Ends == job' = [job EXCEPT ![t] = IdleJob]
           GoesOn == \E j : job' = [job EXCEPT ![t] = j] /\ j.pc # "idle"
                            /\ j.call = job[t].call
<1>1. Active(t) /\ UNCHANGED <<rc, sc>>
  BY DEF Active, Reading, ProbeNext, ProbeRaise, ReadNamed, ReadForCreate,
         ReadForDiff, Lose, ReadAfter, Finish
<1>2. job[t] \in Job /\ \A pc \in Phases : Fresh(t, pc) \in Job
  BY FreshType DEF TypeOK
<1>3. ASSUME ProbeNext(t) PROVE GoesOn
  <2> DEFINE j1 == [job[t] EXCEPT !.probe = @ + 1]
             j2 == [job[t] EXCEPT !.probe = @ + 1, !.err = TRUE]
  <2>1. job' = [job EXCEPT ![t] = j1] \/ job' = [job EXCEPT ![t] = j2]
    BY <1>3 DEF ProbeNext
  <2>2. /\ j1.pc = job[t].pc /\ j1.call = job[t].call
        /\ j2.pc = job[t].pc /\ j2.call = job[t].call
    BY <1>2 DEF Job
  <2>3. QED
    BY <1>1, <2>1, <2>2 DEF Active
<1>4. ASSUME ReadNamed(t) PROVE Ends \/ GoesOn
  <2>1. CASE Raise(t)
    BY <2>1 DEF Raise
  <2>2. ASSUME NEW k, NEW view, NEW pc \in {"saved", "after", "write"},
               job' = [job EXCEPT ![t] =
                 [Fresh(t, pc) EXCEPT !.key = k, !.desc = view[k].name,
                                      !.old = view[k].entries, !.mine = Only(view, k)]]
        PROVE  GoesOn
    <3> DEFINE j == [Fresh(t, pc) EXCEPT !.key = k, !.desc = view[k].name,
                                         !.old = view[k].entries, !.mine = Only(view, k)]
    <3>1. pc \in Phases /\ pc # "idle"
      BY DEF Phases
    <3>2. j.pc = pc /\ j.call = job[t].call
      BY <1>2, <3>1, FreshFacts DEF Job
    <3>3. QED
      BY <2>2, <3>1, <3>2
  <2>3. QED
    BY <1>4, <2>1, <2>2 DEF ReadNamed
<1>5. ASSUME ReadForCreate(t) PROVE GoesOn
  <2>1. PICK k : job' = [job EXCEPT ![t] = [Fresh(t, "write") EXCEPT !.key = k]]
    BY <1>5 DEF ReadForCreate
  <2>2. "write" \in Phases
    BY DEF Phases
  <2>3. /\ [Fresh(t, "write") EXCEPT !.key = k].pc = "write"
        /\ [Fresh(t, "write") EXCEPT !.key = k].call = job[t].call
    BY <1>2, <2>2, FreshFacts DEF Job
  <2>4. QED
    BY <2>1, <2>3
<1>6. ASSUME NEW m, job' = [job EXCEPT ![t] = [Fresh(t, "saved") EXCEPT !.mine = m]]
      PROVE  GoesOn
  <2>1. "saved" \in Phases
    BY DEF Phases
  <2>2. /\ [Fresh(t, "saved") EXCEPT !.mine = m].pc = "saved"
        /\ [Fresh(t, "saved") EXCEPT !.mine = m].call = job[t].call
    BY <1>2, <2>1, FreshFacts DEF Job
  <2>3. QED
    BY <1>6, <2>2
<1>7. ASSUME ProbeRaise(t) \/ Lose(t) \/ Finish(t) PROVE Ends
  BY <1>7 DEF ProbeRaise, Lose, Finish, Raise
<1>8. Ends \/ GoesOn
  <2>1. ReadForDiff(t) \/ ReadAfter(t) => GoesOn
    BY <1>6 DEF ReadForDiff, ReadAfter
  <2> HIDE DEF Ends, GoesOn
  <2>2. QED
    BY <1>3, <1>4, <1>5, <1>7, <2>1
<1>9. QED
  BY <1>1, <1>8, ReadingStep

LEMMA WritesAreRequests ==
  ASSUME TypeOK, NEW t \in Task, Write(t) \/ Commit(t)
  PROVE  SC!Request(t)
<1>1. Active(t)
  BY DEF Active, Write, Commit
<1>2. rc' \in Store
  BY WriteType, CommitType DEF TypeOK
<1>3. SC!DifferInOne(rc, rc')
  <2>1. CASE Write(t)
    BY <2>1, EffectsDifferInOne DEF Write
  <2>2. CASE Commit(t)
    <3>1. 0 \in Key /\ rc' = rc
      BY <2>2, ListsAssumption DEF Commit, Key
    <3>2. QED
      BY <3>1 DEF SC!DifferInOne
  <2>3. QED
    BY <2>1, <2>2
<1>4. sc' = sc \/ (AsksSave(job[t].call) /\ sc' = rc')
  BY DEF Write, Commit, Saved
<1>5. \/ job' = [job EXCEPT ![t] = IdleJob]
      \/ \E j : job' = [job EXCEPT ![t] = j] /\ j.pc # "idle"
                /\ j.call = job[t].call
  <2>1. CASE Raise(t)
    BY <2>1 DEF Raise
  <2>2. {"after", "read"} \subseteq Phases
    BY DEF Phases
  <2>3. CASE job' = [job EXCEPT ![t] = [Fresh(t, "after") EXCEPT !.mine = Empty]]
    <3>1. Fresh(t, "after") \in Job
      BY <2>2, FreshType
    <3>2. /\ [Fresh(t, "after") EXCEPT !.mine = Empty].pc = "after"
          /\ [Fresh(t, "after") EXCEPT !.mine = Empty].call = job[t].call
      BY <2>2, <3>1, FreshFacts DEF Job
    <3>3. QED
      BY <2>3, <3>2
  <2>4. CASE job' = [job EXCEPT ![t] = Fresh(t, "read")]
    <3>1. Fresh(t, "read").pc = "read" /\ Fresh(t, "read").call = job[t].call
      BY <2>2, FreshFacts
    <3>2. QED
      BY <2>4, <3>1
  <2>5. QED
    BY <2>1, <2>3, <2>4 DEF Write, Commit
<1>6. QED
  BY <1>1, <1>2, <1>3, <1>4, <1>5, WritingStep

LEMMA RebootIsReboot ==
  ASSUME TypeOK, Reboot
  PROVE  SC!Reboot
<1>1. \A t \in Task : ~Active(t)'
  BY DEF Reboot, Active, IdleJob
<1>2. OpenTasks' = {} /\ ConsentTasks' = {}
  BY <1>1 DEF OpenTasks, ConsentTasks
<1>3. QED
  BY <1>2 DEF Reboot, SC!Reboot, OpenTasks, ConsentTasks

LEMMA InitRefines == Init => SC!SCInit
<1> SUFFICES ASSUME Init PROVE SC!SCInit
  OBVIOUS
<1>1. rc \in Store /\ sc = rc
  BY ListsAssumption DEF Init
<1>2. \A t \in Task : ~Active(t)
  BY DEF Init, Active, IdleJob
<1>3. QED
  BY <1>1, <1>2 DEF SC!SCInit, SC!IsConfig, Store

LEMMA NextRefines == TypeOK /\ [Next]_vars => [SC!SCNext]_SC!scVars
<1> SUFFICES ASSUME TypeOK, [Next]_vars PROVE [SC!SCNext]_SC!scVars
  OBVIOUS
<1>1. CASE Reboot
  BY <1>1, RebootIsReboot DEF SC!SCNext
<1>2. ASSUME NEW t \in Task, Start(t) PROVE SC!SCNext
  BY <1>2, StartOpens DEF SC!SCNext
<1>3. ASSUME NEW t \in Task, Step(t) PROVE [SC!SCNext]_SC!scVars
  BY <1>3, ReadsAreInvisible, WritesAreRequests DEF Step, SC!SCNext
<1>4. CASE UNCHANGED vars
  BY <1>4 DEF vars, SC!scVars, Active, AsksSave
<1>5. QED
  BY <1>1, <1>2, <1>3, <1>4 DEF Next

\* Whatever calls overlap and whatever fails, a request changes one list of rc
\* at most, and sc changes only when a call in flight asked for a save, and
\* then becomes rc: `save=False' really leaves the startup configuration alone.
THEOREM SavedOnlyOnRequest == Spec => ImplementsSavedConfig
<1>1. Init => SC!SCInit
  BY InitRefines
<1>2. TypeOK /\ [Next]_vars => [SC!SCNext]_SC!scVars
  BY NextRefines
<1>3. QED
  BY <1>1, <1>2, TypeCorrect, PTL DEF Spec, ImplementsSavedConfig, SC!SCSpec

-----------------------------------------------------------------------------
(* No rewrite of a list loses what was reported as added, as long as the     *)
(* calls that rewrite lists keep apart.                                      *)

Rewriting == {"add", "remove", "set", "delete"}

\* Calls of two tasks that rewrite or delete a list name it by its key, and
\* never the same one.  (A single task may name its lists as it likes, and
\* create_domain_list is free everywhere.)
KeepApart ==
  \A t, u \in Task : t # u =>
    \A c \in Calls[t], d \in Calls[u] :
      c.op \in Rewriting /\ d.op \in Rewriting =>
        /\ {c.ref, d.ref} \subseteq Key \ Name
        /\ c.ref # d.ref

\* What t's job j knows when o is owed and r is running: it works on the list
\* its call names; what it is about to write holds what is owed; and what it
\* has added is there.
Kept(t, j, o, r) ==
  /\ j.pc # "idle" => j.call \in Calls[t]
  /\ j.pc \in {"write", "after", "saved"} /\ j.call.op \in Rewriting
       /\ j.call.ref \in Key \ Name => j.key = j.call.ref
  /\ j.pc = "write" /\ j.call.op \in {"add", "remove"} => o[j.key] \subseteq j.old
  /\ j.pc \in {"after", "saved"} /\ j.call.op = "add" =>
       j.call.args \ j.old \subseteq Includes(r, j.key)

AllKept == \A t \in Task : Kept(t, job[t], owed, rc)

LostInv == TypeOK /\ NoLostAdd /\ AllKept

LEMMA IncludesPut ==
  ASSUME NEW f, NEW k, NEW v, NEW x
  PROVE  Includes(Put(f, k, v), x) = IF x = k THEN v.entries ELSE Includes(f, x)
BY DEF Includes, Put

LEMMA IncludesMerge ==
  ASSUME NEW f, NEW k, NEW n, NEW es, NEW x
  PROVE  Includes(MergeList(f, k, n, es), x)
           = IF x = k THEN Includes(f, k) \cup es ELSE Includes(f, x)
BY IncludesPut DEF MergeList

LEMMA IncludesClear ==
  ASSUME NEW f \in Store, NEW k, NEW x
  PROVE  Includes(ClearInclude(f, k), x) = IF x = k THEN {} ELSE Includes(f, x)
<1>1. CASE k \in DOMAIN f
  <2> DEFINE v == [f[k] EXCEPT !.entries = {}]
  <2>1. v.entries = {}
    BY <1>1, StoreElim DEF List
  <2>2. ClearInclude(f, k) = Put(f, k, v)
    BY <1>1 DEF ClearInclude
  <2> HIDE DEF v
  <2>3. Includes(Put(f, k, v), x) = IF x = k THEN v.entries ELSE Includes(f, x)
    BY IncludesPut
  <2>4. QED
    BY <2>1, <2>2, <2>3
<1>2. CASE k \notin DOMAIN f
  BY <1>2 DEF ClearInclude, Includes
<1>3. QED
  BY <1>1, <1>2

LEMMA IncludesDrop ==
  ASSUME NEW f, NEW k, NEW x
  PROVE  Includes(Drop(f, k), x) = IF x = k THEN {} ELSE Includes(f, x)
BY DEF Includes, Drop

\* What an answered or lost write of t leaves under each key, when the router
\* refuses nothing.
LEMMA WriteIncludes ==
  ASSUME TypeOK, "reject" \notin Faults, NEW t \in Task, rc' \in Effects(job[t]), NEW x
  PROVE  LET j == job[t] IN
         /\ j.call.op \in {"add", "remove", "set"} =>
              Includes(rc', x) = IF x = j.key THEN NewEntries(j.call, j.old)
                                 ELSE Includes(rc, x)
         /\ j.call.op = "delete" =>
              Includes(rc', x) = IF x = j.key THEN {} ELSE Includes(rc, x)
         /\ j.call.op \notin Rewriting => Includes(rc, x) \subseteq Includes(rc', x)
<1> DEFINE j == job[t]
           cleared == ClearInclude(rc, j.key)
<1>1. rc \in Store
  BY DEF TypeOK
<1>2. ASSUME j.call.op \in {"add", "remove", "set"}
      PROVE  Includes(rc', x) = IF x = j.key THEN NewEntries(j.call, j.old)
                                ELSE Includes(rc, x)
  <2>1. rc' = MergeList(cleared, j.key, j.desc, NewEntries(j.call, j.old))
    BY <1>2 DEF Effects
  <2>2. Includes(cleared, j.key) = {} /\ (x # j.key => Includes(cleared, x) = Includes(rc, x))
    BY <1>1, IncludesClear
  <2> DEFINE k == j.key
             n == j.desc
             es == NewEntries(j.call, j.old)
  <2> HIDE DEF cleared, k, n, es
  <2>3. Includes(MergeList(cleared, k, n, es), x)
          = IF x = k THEN Includes(cleared, k) \cup es ELSE Includes(cleared, x)
    BY IncludesMerge
  <2>4. QED
    BY <2>1, <2>2, <2>3 DEF k, n, es
<1>3. ASSUME j.call.op = "delete"
      PROVE  Includes(rc', x) = IF x = j.key THEN {} ELSE Includes(rc, x)
  <2>1. rc' = Drop(rc, j.key)
    BY <1>3 DEF Effects
  <2>2. QED
    BY <2>1, IncludesDrop
<1>4. ASSUME j.call.op \notin Rewriting
      PROVE  Includes(rc, x) \subseteq Includes(rc', x)
  <2>1. rc' = rc \/ rc' = MergeList(rc, j.key, j.call.ref, j.call.args)
    BY <1>4 DEF Effects, Rewriting
  <2>2. QED
    BY <2>1, IncludesMerge
<1>5. QED
  BY <1>2, <1>3, <1>4

-----------------------------------------------------------------------------
(* One step keeps what calls know. *)

LEMMA IdleKept == \A t, o, r : Kept(t, IdleJob, o, r)
BY DEF Kept, IdleJob

\* A job that goes on with its list, as far as Kept can see.
LEMMA SameKept ==
  ASSUME NEW t, NEW i, NEW j, NEW o, NEW r, Kept(t, i, o, r),
         j.call = i.call, j.key = i.key, j.old = i.old,
         \/ j.pc = i.pc
         \/ i.pc # "idle" /\ j.pc = "read"
         \/ i.pc = "after" /\ j.pc = "saved"
  PROVE  Kept(t, j, o, r)
BY DEF Kept

LEMMA FreshKeeps ==
  ASSUME TypeOK, NEW t \in Task, NEW pc \in Phases
  PROVE  LET j == Fresh(t, pc) IN
         /\ j \in Job
         /\ j.pc = pc /\ j.call = job[t].call /\ j.key = job[t].key /\ j.old = job[t].old
BY FreshType DEF TypeOK, Job, Fresh

LEMMA KeysDiffer ==
  ASSUME KeepApart, NEW t \in Task, NEW u \in Task, t # u, AllKept,
         job[t].pc \in {"write", "after", "saved"}, job[t].call.op \in Rewriting,
         job[u].pc \in {"write", "after", "saved"}, job[u].call.op \in Rewriting
  PROVE  job[t].key # job[u].key
<1>1. Kept(t, job[t], owed, rc) /\ Kept(u, job[u], owed, rc)
  BY DEF AllKept
<1>2. job[t].call \in Calls[t] /\ job[u].call \in Calls[u]
  BY <1>1 DEF Kept
<1>3. /\ job[t].call.ref \in Key \ Name /\ job[u].call.ref \in Key \ Name
      /\ job[t].call.ref # job[u].call.ref
  BY <1>2 DEF KeepApart
<1>4. QED
  BY <1>1, <1>3 DEF Kept

\* A step of t that leaves rc alone and owes no more than before.
LEMMA QuietStep ==
  ASSUME LostInv, NEW t \in Task, NEW j, job' = [job EXCEPT ![t] = j],
         rc' = rc, \A k \in Key : owed'[k] \subseteq owed[k],
         Kept(t, j, owed', rc)
  PROVE  NoLostAdd' /\ AllKept'
<1>1. NoLostAdd'
  BY DEF LostInv, NoLostAdd
<1>2. ASSUME NEW u \in Task PROVE Kept(u, job[u], owed, rc)'
  <2>1. CASE u = t
    <3>1. job'[u] = j
      BY <2>1 DEF LostInv, TypeOK
    <3>2. QED
      BY <2>1, <3>1
  <2>2. CASE u # t
    <3>1. job'[u] = job[u]
      BY <2>2 DEF LostInv, TypeOK
    <3>2. job[u].key \in Key /\ Kept(u, job[u], owed, rc)
      BY DEF LostInv, AllKept, TypeOK, Job
    <3>3. owed'[job[u].key] \subseteq owed[job[u].key]
      BY <3>2
    <3>4. QED
      BY <3>1, <3>2, <3>3 DEF Kept
  <2>3. QED
    BY <2>1, <2>2
<1>3. QED
  BY <1>1, <1>2 DEF AllKept

LEMMA StartLost ==
  ASSUME LostInv, NEW t \in Task, Start(t)
  PROVE  NoLostAdd' /\ AllKept'
<1>1. PICK c \in Calls[t] :
        job' = [job EXCEPT ![t] =
                  [IdleJob EXCEPT !.pc = IF c.op = "save" THEN "commit" ELSE "read",
                                  !.call = c]]
  BY DEF Start
<1> DEFINE j == [IdleJob EXCEPT !.pc = IF c.op = "save" THEN "commit" ELSE "read",
                                !.call = c]
<1>2. j.call = c /\ j.pc \in {"commit", "read"}
  BY DEF IdleJob
<1>3. rc' = rc /\ owed' = owed
  BY DEF Start
<1>4. Kept(t, j, owed', rc)
  BY <1>2 DEF Kept
<1> HIDE DEF j
<1>5. QED
  BY <1>1, <1>3, <1>4, QuietStep DEF j

\* A step of t that ends its call and changes nothing.
LEMMA RaiseLost ==
  ASSUME LostInv, NEW t \in Task, job' = [job EXCEPT ![t] = IdleJob],
         UNCHANGED <<rc, owed>>
  PROVE  NoLostAdd' /\ AllKept'
BY QuietStep, IdleKept

\* A step of t to another phase, with the list it had.
LEMMA MoveLost ==
  ASSUME LostInv, NEW t \in Task, NEW j, job' = [job EXCEPT ![t] = j],
         UNCHANGED <<rc, owed>>,
         j.call = job[t].call, j.key = job[t].key, j.old = job[t].old,
         \/ j.pc = job[t].pc
         \/ job[t].pc # "idle" /\ j.pc = "read"
         \/ job[t].pc = "after" /\ j.pc = "saved"
  PROVE  NoLostAdd' /\ AllKept'
<1>1. Kept(t, job[t], owed, rc)
  BY DEF LostInv, AllKept
<1>2. Kept(t, j, owed, rc)
  BY <1>1, SameKept
<1>3. QED
  BY <1>2, QuietStep

LEMMA ProbeNextLost ==
  ASSUME LostInv, NEW t \in Task, ProbeNext(t)
  PROVE  NoLostAdd' /\ AllKept'
<1> DEFINE i == job[t]
           j1 == [i EXCEPT !.probe = i.probe + 1]
           j2 == [i EXCEPT !.probe = i.probe + 1, !.err = TRUE]
<1>1. i \in Job
  BY DEF LostInv, TypeOK
<1>2. job' = [job EXCEPT ![t] = j1] \/ job' = [job EXCEPT ![t] = j2]
  BY DEF ProbeNext
<1>3. UNCHANGED <<rc, owed>>
  BY DEF ProbeNext
<1>4. /\ j1.call = i.call /\ j1.key = i.key /\ j1.old = i.old /\ j1.pc = i.pc
      /\ j2.call = i.call /\ j2.key = i.key /\ j2.old = i.old /\ j2.pc = i.pc
  BY <1>1 DEF Job
<1> HIDE DEF j1, j2
<1>5. QED
  BY <1>2, <1>3, <1>4, MoveLost

LEMMA CommitLost ==
  ASSUME LostInv, NEW t \in Task, Commit(t)
  PROVE  NoLostAdd' /\ AllKept'
<1>1. UNCHANGED <<rc, owed>>
  BY DEF Commit
<1>2. CASE Raise(t)
  BY <1>1, <1>2, RaiseLost DEF Raise
<1>3. CASE job' = [job EXCEPT ![t] = Fresh(t, "read")]
  <2> DEFINE j == Fresh(t, "read")
  <2>1. j.pc = "read" /\ j.call = job[t].call /\ j.key = job[t].key /\ j.old = job[t].old
    BY FreshKeeps DEF LostInv, Phases
  <2>2. job[t].pc # "idle"
    BY DEF Commit
  <2> HIDE DEF j
  <2>3. QED
    BY <1>1, <1>3, <2>1, <2>2, MoveLost DEF j
<1>4. QED
  BY <1>2, <1>3 DEF Commit

LEMMA ReadAfterLost ==
  ASSUME LostInv, NEW t \in Task, ReadAfter(t)
  PROVE  NoLostAdd' /\ AllKept'
<1> DEFINE i == Fresh(t, "saved")
           j == [i EXCEPT !.mine = Only(View(t), job[t].key)]
<1>1. /\ i \in Job
      /\ i.pc = "saved" /\ i.call = job[t].call /\ i.key = job[t].key /\ i.old = job[t].old
  BY FreshKeeps DEF LostInv, Phases
<1>2. job' = [job EXCEPT ![t] = j] /\ UNCHANGED <<rc, owed>> /\ job[t].pc = "after"
  BY DEF ReadAfter
<1>3. j.pc = i.pc /\ j.call = i.call /\ j.key = i.key /\ j.old = i.old
  BY <1>1 DEF Job
<1> HIDE DEF i, j
<1>4. QED
  BY <1>1, <1>2, <1>3, MoveLost

LEMMA ReadForCreateLost ==
  ASSUME LostInv, NEW t \in Task, ReadForCreate(t)
  PROVE  NoLostAdd' /\ AllKept'
<1>1. PICK k : job' = [job EXCEPT ![t] = [Fresh(t, "write") EXCEPT !.key = k]]
  BY DEF ReadForCreate
<1> DEFINE i == Fresh(t, "write")
           j == [i EXCEPT !.key = k]
<1>2. i \in Job /\ i.pc = "write" /\ i.call = job[t].call
  BY FreshKeeps DEF LostInv, Phases
<1>3. j.pc = "write" /\ j.call = job[t].call
  BY <1>2 DEF Job
<1>4. job[t].call \in Calls[t] /\ job[t].call.op = "create"
  BY DEF LostInv, AllKept, Kept, ReadForCreate
<1>5. UNCHANGED <<rc, owed>>
  BY DEF ReadForCreate
<1> HIDE DEF i, j
<1>6. Kept(t, j, owed, rc)
  BY <1>3, <1>4 DEF Kept, Rewriting
<1>7. QED
  BY <1>1, <1>5, <1>6, QuietStep DEF i, j

LEMMA ReadForDiffLost ==
  ASSUME LostInv, NEW t \in Task, ReadForDiff(t)
  PROVE  NoLostAdd' /\ AllKept'
<1> DEFINE i == Fresh(t, "saved")
           j == [i EXCEPT !.mine = View(t)]
<1>1. job' = [job EXCEPT ![t] = j] /\ UNCHANGED <<rc, owed>>
  BY DEF ReadForDiff
<1>2. i \in Job /\ i.pc = "saved" /\ i.call = job[t].call
  BY FreshKeeps DEF LostInv, Phases
<1>3. j.pc = "saved" /\ j.call = job[t].call
  BY <1>2 DEF Job
<1>4. job[t].call \in Calls[t] /\ job[t].call.op \in {"diff", "save"}
  BY DEF LostInv, AllKept, Kept, ReadForDiff
<1> HIDE DEF i, j
<1>5. Kept(t, j, owed, rc)
  BY <1>3, <1>4 DEF Kept, Rewriting
<1>6. QED
  BY <1>1, <1>5, QuietStep

LEMMA FinishLost ==
  ASSUME LostInv, KeepApart, NEW t \in Task, Finish(t)
  PROVE  NoLostAdd' /\ AllKept'
<1> DEFINE i == job[t]
<1>1. /\ i.pc = "saved" /\ rc' = rc /\ job' = [job EXCEPT ![t] = IdleJob]
      /\ owed' = [owed EXCEPT ![i.key] = @ \cup Added(i)]
  BY DEF Finish
<1>2. i.key \in Key /\ owed \in [Key -> SUBSET Entry] /\ job \in [Task -> Job]
  BY DEF LostInv, TypeOK, Job
<1>3. Added(i) \subseteq Includes(rc, i.key)
  BY <1>1 DEF LostInv, AllKept, Kept, Added
<1>4. NoLostAdd'
  BY <1>1, <1>2, <1>3 DEF LostInv, NoLostAdd
<1>5. ASSUME NEW u \in Task PROVE Kept(u, job[u], owed, rc)'
  <2>1. CASE u = t
    BY <1>1, <1>2, <2>1, IdleKept
  <2>2. CASE u # t
    <3>1. job'[u] = job[u] /\ Kept(u, job[u], owed, rc) /\ job[u].key \in Key
      BY <1>1, <1>2, <2>2 DEF LostInv, AllKept, Job
    <3>2. job[u].pc = "write" /\ job[u].call.op \in {"add", "remove"} =>
            owed'[job[u].key] \subseteq owed[job[u].key]
      <4>1. CASE i.call.op = "add"
        BY <1>1, <1>2, <2>2, <3>1, <4>1, KeysDiffer DEF LostInv, Rewriting
      <4>2. CASE i.call.op # "add"
        BY <1>1, <1>2, <3>1, <4>2 DEF Added
      <4>3. QED
        BY <4>1, <4>2
    <3>3. QED
      BY <1>1, <3>1, <3>2 DEF Kept
  <2>3. QED
    BY <2>1, <2>2
<1>6. QED
  BY <1>4, <1>5 DEF AllKept

LEMMA RebootLost ==
  ASSUME LostInv, Reboot
  PROVE  NoLostAdd' /\ AllKept'
<1>1. NoLostAdd'
  BY DEF Reboot, NoLostAdd
<1>2. AllKept'
  BY IdleKept DEF Reboot, AllKept
<1>3. QED
  BY <1>1, <1>2

LEMMA ReadNamedLost ==
  ASSUME LostInv, NEW t \in Task, ReadNamed(t)
  PROVE  NoLostAdd' /\ AllKept'
<1> DEFINE c == job[t].call
           view == View(t)
<1>1. rc' = rc /\ job[t].pc = "read" /\ c \in Calls[t] /\ view \in Store
  BY ViewType DEF ReadNamed, LostInv, AllKept, Kept
<1>2. CASE Raise(t) /\ UNCHANGED owed
  BY <1>1, <1>2, RaiseLost DEF Raise
<1>3. ASSUME NEW k \in ResolveListKey(view, c.ref), NEW pc \in Phases,
             pc = "after" => NothingToDo(c, view[k].entries),
             pc = "saved" => c.op \in {"get", "getSaved"},
             job' = [job EXCEPT ![t] =
                 [Fresh(t, pc) EXCEPT !.key = k, !.desc = view[k].name,
                                      !.old = view[k].entries, !.mine = Only(view, k)]],
             owed' = GivenUp(t, k, view[k].entries)
      PROVE  NoLostAdd' /\ AllKept'
  <2> DEFINE i == Fresh(t, pc)
             old == view[k].entries
             j == [i EXCEPT !.key = k, !.desc = view[k].name,
                            !.old = view[k].entries, !.mine = Only(view, k)]
  <2>1. i \in Job /\ i.pc = pc /\ i.call = c
    BY FreshKeeps DEF LostInv
  <2>2. j.pc = pc /\ j.call = c /\ j.key = k /\ j.old = old
    BY <2>1 DEF Job
  <2>3. k \in DOMAIN view /\ k \in Key /\ view[k].name \in Name
    BY <1>1, StoreElim DEF ResolveListKey, List
  <2>4. owed \in [Key -> SUBSET Entry] /\ owed[k] \subseteq Includes(rc, k)
    BY <2>3 DEF LostInv, TypeOK, NoLostAdd
  <2>5. \A x \in Key : owed'[x] \subseteq owed[x]
    BY <1>3, <2>4 DEF GivenUp
  <2>6. c.ref \in Key \ Name => k = c.ref
    BY <2>3 DEF ResolveListKey
  <2>7. ASSUME pc = "write", c.op \in {"add", "remove"}
        PROVE  owed'[k] \subseteq old
    <3>1. CASE ProbedRoot("rc", job[t].probe) = "sc"
      BY <1>3, <2>3, <2>4, <2>7, <3>1 DEF GivenUp
    <3>2. CASE ProbedRoot("rc", job[t].probe) # "sc"
      <4>1. Preferred(t) = "rc" /\ ProbedRoot("rc", job[t].probe) = "rc"
        BY <1>1, <2>7, <3>2 DEF Preferred, ProbedRoot, Other
      <4>2. view = rc
        BY <4>1 DEF View, Shown
      <4>3. Includes(rc, k) = old
        BY <2>3, <4>2 DEF Includes
      <4>4. QED
        BY <2>4, <2>5, <2>3, <4>3
    <3>3. QED
      BY <3>1, <3>2
  <2>8. pc = "after" /\ c.op = "add" => c.args \ old = {}
    BY <1>3 DEF NothingToDo, NewEntries
  <2>9. pc = "saved" => c.op # "add"
    BY <1>3
  <2> HIDE DEF i, j, old
  <2>10. Kept(t, j, owed', rc)
    BY <1>1, <2>2, <2>6, <2>7, <2>8, <2>9 DEF Kept
  <2>11. QED
    BY <1>1, <1>3, <2>5, <2>10, QuietStep DEF i, j
<1>4. {"saved", "after", "write"} \subseteq Phases
  BY DEF Phases
<1>5. CASE ~(Raise(t) /\ UNCHANGED owed)
  <2>1. PICK k \in ResolveListKey(view, c.ref) :
          /\ job' = [job EXCEPT ![t] =
               [Fresh(t, CASE c.op \in {"get", "getSaved"} -> "saved"
                           [] NothingToDo(c, view[k].entries) -> "after"
                           [] OTHER -> "write")
                EXCEPT !.key = k, !.desc = view[k].name,
                       !.old = view[k].entries, !.mine = Only(view, k)]]
          /\ owed' = GivenUp(t, k, view[k].entries)
    BY <1>5 DEF ReadNamed
  <2> DEFINE pc == CASE c.op \in {"get", "getSaved"} -> "saved"
                     [] NothingToDo(c, view[k].entries) -> "after"
                     [] OTHER -> "write"
  <2>2. c.op \in {"get", "getSaved"} => ~NothingToDo(c, view[k].entries)
    BY DEF NothingToDo
  <2>3. /\ pc \in Phases
        /\ pc = "after" => NothingToDo(c, view[k].entries)
        /\ pc = "saved" => c.op \in {"get", "getSaved"}
    <3> DEFINE nothing == NothingToDo(c, view[k].entries)
    <3> HIDE DEF nothing
    <3>1. QED
      BY <1>4 DEF nothing
  <2>4. job' = [job EXCEPT ![t] =
                 [Fresh(t, pc) EXCEPT !.key = k, !.desc = view[k].name,
                                      !.old = view[k].entries, !.mine = Only(view, k)]]
    BY <2>1
  <2> HIDE DEF pc
  <2>5. QED
    BY <1>3, <2>1, <2>3, <2>4
<1>6. QED
  BY <1>2, <1>5

LEMMA WriteLost ==
  ASSUME LostInv, KeepApart, "reject" \notin Faults, NEW t \in Task, Write(t)
  PROVE  NoLostAdd' /\ AllKept'
<1> DEFINE i == job[t]
           op == i.call.op
<1>1. /\ i.pc = "write" /\ rc' \in Effects(i) /\ owed' = Owing(i)
      /\ i \in Job /\ i.key \in Key /\ Kept(t, i, owed, rc)
      /\ owed \in [Key -> SUBSET Entry] /\ job \in [Task -> Job]
  BY DEF Write, LostInv, AllKept, TypeOK, Job
<1>2. \A x \in Key : owed'[x] \subseteq owed[x]
  BY <1>1 DEF Owing
<1>3. ASSUME NEW x
      PROVE  /\ op \in {"add", "remove", "set"} =>
                  Includes(rc', x) = IF x = i.key THEN NewEntries(i.call, i.old)
                                     ELSE Includes(rc, x)
             /\ op = "delete" => Includes(rc', x) = IF x = i.key THEN {} ELSE Includes(rc, x)
             /\ op \notin Rewriting => Includes(rc, x) \subseteq Includes(rc', x)
  BY <1>1, WriteIncludes DEF LostInv
<1>4. \A x : x # i.key \/ op \notin Rewriting => Includes(rc, x) \subseteq Includes(rc', x)
  BY <1>3 DEF Rewriting
<1>5. owed'[i.key] \subseteq Includes(rc', i.key)
  <2>1. CASE op = "add"
    <3>1. owed[i.key] \subseteq i.old /\ Includes(rc', i.key) = i.old \cup i.call.args
      BY <1>1, <1>3, <2>1 DEF Kept, NewEntries
    <3>2. QED
      BY <1>1, <1>2, <3>1
  <2>2. CASE op = "remove"
    <3>1. owed[i.key] \subseteq i.old /\ Includes(rc', i.key) = i.old \ i.call.args
      BY <1>1, <1>3, <2>2 DEF Kept, NewEntries
    <3>2. owed'[i.key] = owed[i.key] \ i.call.args
      BY <1>1, <2>2 DEF Owing
    <3>3. QED
      BY <3>1, <3>2
  <2>3. CASE op = "set"
    <3>1. Includes(rc', i.key) = i.call.args
      BY <1>3, <2>3 DEF NewEntries
    <3>2. owed'[i.key] = owed[i.key] \cap i.call.args
      BY <1>1, <2>3 DEF Owing
    <3>3. QED
      BY <3>1, <3>2
  <2>4. CASE op = "delete"
    BY <1>1, <2>4 DEF Owing
  <2>5. CASE op \notin Rewriting
    BY <1>1, <1>2, <1>4, <2>5 DEF LostInv, NoLostAdd
  <2>6. QED
    BY <2>1, <2>2, <2>3, <2>4, <2>5 DEF Rewriting
<1>6. NoLostAdd'
  <2>1. ASSUME NEW x \in Key, x # i.key PROVE owed'[x] \subseteq Includes(rc', x)
    BY <1>2, <1>4, <2>1 DEF LostInv, NoLostAdd
  <2>2. QED
    BY <1>5, <2>1 DEF NoLostAdd
<1>7. Kept(t, job[t], owed, rc)'
  <2>1. CASE Raise(t)
    BY <1>1, <2>1, IdleKept DEF Raise
  <2>2. CASE job' = [job EXCEPT ![t] = [Fresh(t, "after") EXCEPT !.mine = Empty]]
    <3> DEFINE h == Fresh(t, "after")
               j == [h EXCEPT !.mine = Empty]
    <3>1. /\ h \in Job
          /\ h.pc = "after" /\ h.call = i.call /\ h.key = i.key /\ h.old = i.old
      BY FreshKeeps DEF LostInv, Phases
    <3>2. j.pc = "after" /\ j.call = i.call /\ j.key = i.key /\ j.old = i.old
      BY <3>1 DEF Job
    <3>3. op = "add" => i.call.args \ i.old \subseteq Includes(rc', i.key)
      BY <1>3 DEF NewEntries
    <3>4. job'[t] = j
      BY <1>1, <2>2
    <3> HIDE DEF h, j
    <3>5. Kept(t, j, owed', rc')
      BY <1>1, <3>2, <3>3 DEF Kept
    <3>6. QED
      BY <3>4, <3>5
  <2>3. QED
    BY <2>1, <2>2 DEF Write
<1>8. ASSUME NEW u \in Task, u # t PROVE Kept(u, job[u], owed, rc)'
  <2>1. job'[u] = job[u]
    BY <1>1, <1>8 DEF Write, Raise
  <2>2. Kept(u, job[u], owed, rc) /\ job[u].key \in Key
    BY DEF LostInv, AllKept, TypeOK, Job
  <2>3. job[u].pc \in {"after", "saved"} /\ job[u].call.op = "add" =>
          Includes(rc, job[u].key) \subseteq Includes(rc', job[u].key)
    <3>1. CASE op \in Rewriting
      BY <1>1, <1>4, <1>8, <3>1, KeysDiffer DEF LostInv, Rewriting
    <3>2. CASE op \notin Rewriting
      BY <1>4, <3>2
    <3>3. QED
      BY <3>1, <3>2
  <2>4. owed'[job[u].key] \subseteq owed[job[u].key]
    BY <1>2, <2>2
  <2>5. QED
    BY <2>1, <2>2, <2>3, <2>4 DEF Kept
<1>9. QED
  BY <1>6, <1>7, <1>8 DEF AllKept

LEMMA InitLost == Init => LostInv
<1> SUFFICES ASSUME Init PROVE LostInv
  OBVIOUS
<1>1. NoLostAdd
  BY DEF Init, NoLostAdd
<1>2. AllKept
  BY IdleKept DEF Init, AllKept
<1>3. QED
  BY <1>1, <1>2, InitType DEF LostInv

LEMMA NextLost ==
  ASSUME KeepApart, "reject" \notin Faults
  PROVE  LostInv /\ [Next]_vars => LostInv'
<1> SUFFICES ASSUME LostInv, [Next]_vars PROVE NoLostAdd' /\ AllKept'
  BY NextType DEF LostInv
<1>1. CASE Reboot
  BY <1>1, RebootLost
<1>2. ASSUME NEW t \in Task, Start(t) PROVE NoLostAdd' /\ AllKept'
  BY <1>2, StartLost
<1>3. ASSUME NEW t \in Task, Step(t) PROVE NoLostAdd' /\ AllKept'
  <2>1. ASSUME ProbeRaise(t) \/ Lose(t) PROVE NoLostAdd' /\ AllKept'
    <3>1. job' = [job EXCEPT ![t] = IdleJob] /\ UNCHANGED <<rc, owed>>
      BY <2>1 DEF ProbeRaise, Lose, Raise
    <3>2. QED
      BY <3>1, RaiseLost
  <2>2. QED
    BY <1>3, <2>1, ProbeNextLost, ReadNamedLost, ReadForCreateLost, ReadForDiffLost,
       WriteLost, CommitLost, ReadAfterLost, FinishLost DEF Step
<1>4. CASE UNCHANGED vars
  <2>1. rc' = rc /\ owed' = owed /\ job' = job
    BY <1>4 DEF vars
  <2>2. QED
    BY <2>1 DEF LostInv, NoLostAdd, AllKept
<1>5. QED
  BY <1>1, <1>2, <1>3, <1>4 DEF Next

\* While calls that rewrite lists keep apart and the router takes what it is
\* sent, what add_domains reported as added stays in rc until it is asked away,
\* dropped by a restart or given up by a rewrite that could not read rc:
\* whatever other calls create, read or save in between, whichever requests or
\* answers are lost, and however often calls are repeated (dns_routes.py:33-48).
THEOREM AddsStay ==
  ASSUME KeepApart, "reject" \notin Faults
  PROVE  Spec => []NoLostAdd
<1>1. Init => LostInv
  BY InitLost
<1>2. LostInv /\ [Next]_vars => LostInv'
  BY NextLost
<1>3. LostInv => NoLostAdd
  BY DEF LostInv
<1>4. QED
  BY <1>1, <1>2, <1>3, PTL DEF Spec

-----------------------------------------------------------------------------
(* A client of its own: what each phase of a call knows, when no other call  *)
(* is in flight and every request of a read is answered.                     *)

Alone == \A t, u \in Task : t = u

\* What a read that prefers root returns, when rc is r and sc is s throughout.
Seen(root, r, s) ==
  IF DOMAIN Shown(root, r, s) # {} THEN Shown(root, r, s)
  ELSE Shown(Other(root), r, s)

\* The root preferred by the read of j's phase.
Prefers(j) ==
  IF j.pc = "saved" THEN IF j.call.op = "getSaved" THEN "rc" ELSE "sc"
  ELSE IF j.call.op = "getSaved" THEN "sc" ELSE "rc"

\* The requests of the read before the current one have shown nothing, and none
\* has failed.
Probing(j, r, s) ==
  /\ ~j.err
  /\ j.pc \in {"read", "after", "saved"} =>
       \A i \in Probes : i < j.probe => DOMAIN Shown(ProbedRoot(Prefers(j), i), r, s) = {}

\* What j is about to write is about a list as rc shows it, or about none.
Aims(j, r, s) ==
  j.pc = "write" =>
    /\ j.call.op \in Writers
    /\ LET f == Seen("rc", r, s) IN
       IF j.call.op = "create" THEN j.key \notin DOMAIN f
       ELSE /\ j.key \in DOMAIN f
            /\ j.desc = f[j.key].name
            /\ j.old = f[j.key].entries

\* After the write: an add that finds rc empty has nothing of its own in sc, and
\* a create has created the list as asked, or its number is still free.
Landed(j, r, s, w) ==
  /\ j.pc = "after" => j.call.op \in Writers
  /\ j.pc \in {"after", "saved"} /\ j.call.op = "add" /\ DOMAIN r = {} =>
       (j.call.args \ j.old) \cap Includes(s, j.key) = {}
  /\ j.pc \in {"after", "saved"} /\ j.call.op = "create" =>
       \/ j.key \in DOMAIN r /\ w /\ Includes(r, j.key) = j.call.args
       \/ j.key \notin DOMAIN Seen("rc", r, s)

\* What the last read but one has shown.
Holds(j, r, s) ==
  j.pc = "saved" =>
    j.mine = IF j.call.op \in {"diff", "save"} THEN Seen("rc", r, s)
             ELSE Only(Seen(IF j.call.op = "getSaved" THEN "sc" ELSE "rc", r, s), j.key)

Knows(j, r, s, w) ==
  Probing(j, r, s) /\ Aims(j, r, s) /\ Landed(j, r, s, w) /\ Holds(j, r, s)

AloneInv == TypeOK /\ \A t \in Task : Knows(job[t], rc, sc, wrote[t])

LEMMA IdleKnows == \A r, s, w : Knows(IdleJob, r, s, w)
BY DEF Knows, Probing, Aims, Landed, Holds, IdleJob

LEMMA PrefersIs ==
  ASSUME NEW t \in Task
  PROVE  Preferred(t) = Prefers(job[t])
BY DEF Preferred, Prefers

\* A read that returns has found what the preferred root shows, or what stands
\* in for it.
LEMMA ReturnsSeen ==
  ASSUME AloneInv, NEW t \in Task, Returns(t, View(t)), Reading(t)
  PROVE  View(t) = Seen(Prefers(job[t]), rc, sc)
<1> DEFINE j == job[t]
           root == Prefers(j)
<1>1. j.probe \in 1..4 /\ Probing(j, rc, sc) /\ root \in {"rc", "sc"}
  BY DEF AloneInv, Knows, TypeOK, Job, Probes, Prefers
<1>2. View(t) = Shown(ProbedRoot(root, j.probe), rc, sc)
  BY PrefersIs DEF View
<1>3. DOMAIN View(t) # {} \/ j.probe = 4
  BY DEF Returns, LastProbe
<1>4. CASE j.probe <= 2
  <2>1. View(t) = Shown(root, rc, sc) /\ DOMAIN View(t) # {}
    BY <1>1, <1>2, <1>3, <1>4 DEF ProbedRoot
  <2>2. QED
    BY <2>1 DEF Seen
<1>5. CASE ~(j.probe <= 2)
  <2>1. DOMAIN Shown(ProbedRoot(root, 1), rc, sc) = {}
    BY <1>1, <1>5 DEF Probing, Probes, Reading
  <2>2. View(t) = Shown(Other(root), rc, sc)
    BY <1>1, <1>2, <1>5 DEF ProbedRoot
  <2>3. QED
    BY <2>1, <2>2 DEF Seen, ProbedRoot
<1>6. QED
  BY <1>4, <1>5

\* The only client's step makes its job j.
LEMMA OnlyJob ==
  ASSUME Alone, AloneInv, NEW t \in Task, NEW j, job' = [job EXCEPT ![t] = j],
         Knows(j, rc', sc', wrote'[t])
  PROVE  (\A u \in Task : Knows(job[u], rc, sc, wrote[u]))'
<1>1. job'[t] = j
  BY DEF AloneInv, TypeOK
<1>2. \A u \in Task : u = t
  BY DEF Alone
<1>3. QED
  BY <1>1, <1>2

LEMMA StartKnows ==
  ASSUME Alone, AloneInv, NEW t \in Task, Start(t)
  PROVE  (\A u \in Task : Knows(job[u], rc, sc, wrote[u]))'
<1>1. PICK c \in Calls[t] :
        job' = [job EXCEPT ![t] =
                  [IdleJob EXCEPT !.pc = IF c.op = "save" THEN "commit" ELSE "read",
                                  !.call = c]]
  BY DEF Start
<1> DEFINE j == [IdleJob EXCEPT !.pc = IF c.op = "save" THEN "commit" ELSE "read",
                                !.call = c]
<1>2. j.pc \in {"commit", "read"} /\ j.probe = 1 /\ ~j.err
  BY DEF IdleJob
<1> HIDE DEF j
<1>3. Knows(j, rc', sc', wrote'[t])
  BY <1>2 DEF Knows, Probing, Aims, Landed, Holds, Probes
<1>4. QED
  BY <1>1, <1>3, OnlyJob DEF j

LEMMA ProbeNextKnows ==
  ASSUME Alone, "read" \notin Faults, AloneInv, NEW t \in Task, ProbeNext(t)
  PROVE  (\A u \in Task : Knows(job[u], rc, sc, wrote[u]))'
<1> DEFINE i == job[t]
           j == [i EXCEPT !.probe = i.probe + 1]
<1>1. i \in Job /\ Knows(i, rc, sc, wrote[t])
  BY DEF AloneInv, TypeOK
<1>2. /\ DOMAIN View(t) = {} /\ job' = [job EXCEPT ![t] = j]
      /\ rc' = rc /\ sc' = sc /\ wrote' = wrote
  BY DEF ProbeNext
<1>3. /\ j.pc = i.pc /\ j.call = i.call /\ j.key = i.key /\ j.desc = i.desc
      /\ j.old = i.old /\ j.mine = i.mine /\ j.err = i.err /\ j.probe = i.probe + 1
  BY <1>1 DEF Job
<1>4. i.probe \in 1..4
  BY <1>1 DEF Job, Probes
<1> HIDE DEF j
<1>5. Probing(j, rc, sc)
  <2>1. Prefers(j) = Prefers(i)
    BY <1>3 DEF Prefers
  <2>2. DOMAIN Shown(ProbedRoot(Prefers(i), i.probe), rc, sc) = {}
    BY <1>2, PrefersIs DEF View
  <2>3. ASSUME i.pc \in {"read", "after", "saved"}, NEW n \in Probes, n < j.probe
        PROVE  DOMAIN Shown(ProbedRoot(Prefers(j), n), rc, sc) = {}
    <3>1. n < i.probe \/ n = i.probe
      BY <1>3, <1>4, <2>3 DEF Probes
    <3>2. QED
      BY <1>1, <2>1, <2>2, <2>3, <3>1 DEF Knows, Probing
  <2>4. QED
    BY <1>1, <1>3, <2>3 DEF Knows, Probing
<1>6. Aims(j, rc, sc) /\ Landed(j, rc, sc, wrote[t]) /\ Holds(j, rc, sc)
  BY <1>1, <1>3 DEF Knows, Aims, Landed, Holds
<1>7. QED
  BY <1>2, <1>5, <1>6, OnlyJob DEF Knows

LEMMA RaiseKnows ==
  ASSUME Alone, AloneInv, NEW t \in Task, job' = [job EXCEPT ![t] = IdleJob]
  PROVE  (\A u \in Task : Knows(job[u], rc, sc, wrote[u]))'
BY IdleKnows, OnlyJob

\* A job that has just come to another phase.
LEMMA FreshFields ==
  ASSUME TypeOK, NEW t \in Task, NEW pc \in Phases
  PROVE  LET j == Fresh(t, pc) IN
         /\ j \in Job
         /\ j.pc = pc /\ j.probe = 1 /\ ~j.err /\ j.call = job[t].call
         /\ j.key = job[t].key /\ j.desc = job[t].desc /\ j.old = job[t].old
BY FreshType DEF TypeOK, Job, Fresh

LEMMA FreshProbing ==
  ASSUME NEW j, NEW r, NEW s, j.probe = 1, ~j.err
  PROVE  Probing(j, r, s)
BY DEF Probing, Probes

LEMMA ReadNamedKnows ==
  ASSUME Alone, AloneInv, NEW t \in Task, ReadNamed(t)
  PROVE  (\A u \in Task : Knows(job[u], rc, sc, wrote[u]))'
<1> DEFINE c == job[t].call
           view == View(t)
<1>1. /\ job[t].pc = "read" /\ rc' = rc /\ sc' = sc /\ wrote' = wrote
      /\ c.op \in {"add", "remove", "set", "delete", "get", "getSaved"}
  BY DEF ReadNamed
<1>2. CASE Raise(t)
  BY <1>2, RaiseKnows DEF Raise
<1>3. ASSUME NEW k \in ResolveListKey(view, c.ref), NEW pc \in Phases, Returns(t, view),
             \/ pc = "saved" /\ c.op \in {"get", "getSaved"}
             \/ pc = "after" /\ NothingToDo(c, view[k].entries)
             \/ pc = "write" /\ c.op \in {"add", "remove", "set", "delete"},
             job' = [job EXCEPT ![t] =
                 [Fresh(t, pc) EXCEPT !.key = k, !.desc = view[k].name,
                                      !.old = view[k].entries, !.mine = Only(view, k)]]
      PROVE  (\A u \in Task : Knows(job[u], rc, sc, wrote[u]))'
  <2> DEFINE i == Fresh(t, pc)
             j == [i EXCEPT !.key = k, !.desc = view[k].name,
                            !.old = view[k].entries, !.mine = Only(view, k)]
  <2>1. i \in Job /\ i.pc = pc /\ i.call = c /\ i.probe = 1 /\ ~i.err
    BY FreshFields DEF AloneInv
  <2>2. /\ j.pc = pc /\ j.call = c /\ j.probe = 1 /\ ~j.err /\ j.key = k
        /\ j.desc = view[k].name /\ j.old = view[k].entries /\ j.mine = Only(view, k)
    BY <2>1 DEF Job
  <2>3. k \in DOMAIN view
    BY DEF ResolveListKey
  <2>4. view = Seen(IF c.op = "getSaved" THEN "sc" ELSE "rc", rc, sc)
    BY <1>1, <1>3, ReturnsSeen DEF Reading, Prefers
  <2> HIDE DEF i, j, view, c
  <2>5. Aims(j, rc, sc)
    <3>1. CASE pc = "write"
      <4>1. c.op \in {"add", "remove", "set", "delete"} /\ view = Seen("rc", rc, sc)
        BY <1>3, <2>4, <3>1
      <4>2. QED
        BY <2>2, <2>3, <4>1 DEF Aims, Writers
    <3>2. CASE pc # "write"
      BY <2>2, <3>2 DEF Aims
    <3>3. QED
      BY <3>1, <3>2
  <2>6. Landed(j, rc, sc, wrote[t])
    <3>1. CASE pc = "after"
      <4>1. NothingToDo(c, view[k].entries) /\ c.op \in {"add", "remove"}
        BY <1>3, <3>1 DEF NothingToDo
      <4>2. c.op = "add" => c.args \ view[k].entries = {}
        BY <4>1 DEF NothingToDo, NewEntries
      <4>3. QED
        BY <2>2, <4>1, <4>2 DEF Landed, Writers
    <3>2. CASE pc = "saved"
      BY <1>3, <2>2, <3>2 DEF Landed
    <3>3. CASE pc \notin {"after", "saved"}
      BY <2>2, <3>3 DEF Landed
    <3>4. QED
      BY <3>1, <3>2, <3>3
  <2>7. Holds(j, rc, sc)
    BY <1>3, <2>2, <2>4 DEF Holds
  <2>8. Knows(j, rc, sc, wrote[t])
    BY <2>2, <2>5, <2>6, <2>7, FreshProbing DEF Knows
  <2>9. QED
    BY <1>1, <1>3, <2>8, OnlyJob DEF i, j
<1>4. {"saved", "after", "write"} \subseteq Phases
  BY DEF Phases
<1>5. CASE ~Raise(t)
  <2>1. PICK k \in ResolveListKey(view, c.ref) :
          job' = [job EXCEPT ![t] =
               [Fresh(t, CASE c.op \in {"get", "getSaved"} -> "saved"
                           [] NothingToDo(c, view[k].entries) -> "after"
                           [] OTHER -> "write")
                EXCEPT !.key = k, !.desc = view[k].name,
                       !.old = view[k].entries, !.mine = Only(view, k)]]
    BY <1>5 DEF ReadNamed
  <2> DEFINE pc == CASE c.op \in {"get", "getSaved"} -> "saved"
                     [] NothingToDo(c, view[k].entries) -> "after"
                     [] OTHER -> "write"
             nothing == NothingToDo(c, view[k].entries)
  <2>2. nothing => c.op \notin {"get", "getSaved"}
    BY DEF NothingToDo
  <2>3. /\ pc \in Phases
        /\ \/ pc = "saved" /\ c.op \in {"get", "getSaved"}
           \/ pc = "after" /\ nothing
           \/ pc = "write" /\ c.op \in {"add", "remove", "set", "delete"}
    <3> HIDE DEF nothing
    <3>1. QED
      BY <1>1, <1>4, <2>2 DEF nothing
  <2>4. job' = [job EXCEPT ![t] =
                 [Fresh(t, pc) EXCEPT !.key = k, !.desc = view[k].name,
                                      !.old = view[k].entries, !.mine = Only(view, k)]]
    BY <2>1
  <2>5. Returns(t, view)
    BY DEF ReadNamed
  <2> HIDE DEF pc
  <2>6. QED
    BY <1>3, <2>3, <2>4, <2>5
<1>6. QED
  BY <1>2, <1>5

LEMMA ReadForCreateKnows ==
  ASSUME Alone, AloneInv, NEW t \in Task, ReadForCreate(t)
  PROVE  (\A u \in Task : Knows(job[u], rc, sc, wrote[u]))'
<1>1. PICK k \in FirstFree(View(t)) :
        job' = [job EXCEPT ![t] = [Fresh(t, "write") EXCEPT !.key = k]]
  BY DEF ReadForCreate
<1> DEFINE i == Fresh(t, "write")
           j == [i EXCEPT !.key = k]
<1>2. i \in Job /\ i.pc = "write" /\ i.call = job[t].call /\ i.probe = 1 /\ ~i.err
  BY FreshFields DEF AloneInv, Phases
<1>3. /\ j.pc = "write" /\ j.call = job[t].call /\ j.probe = 1 /\ ~j.err
      /\ j.key = k
  BY <1>2 DEF Job
<1>4. /\ job[t].call.op = "create" /\ job[t].pc = "read" /\ Returns(t, View(t))
      /\ rc' = rc /\ sc' = sc /\ wrote' = wrote
  BY DEF ReadForCreate
<1>5. k \notin DOMAIN Seen("rc", rc, sc)
  BY <1>4, ReturnsSeen DEF FirstFree, Reading, Prefers
<1> HIDE DEF i, j
<1>6. Knows(j, rc, sc, wrote[t])
  BY <1>3, <1>4, <1>5, FreshProbing DEF Knows, Aims, Landed, Holds, Writers
<1>7. QED
  BY <1>1, <1>4, <1>6, OnlyJob DEF i, j

LEMMA ReadForDiffKnows ==
  ASSUME Alone, AloneInv, NEW t \in Task, ReadForDiff(t)
  PROVE  (\A u \in Task : Knows(job[u], rc, sc, wrote[u]))'
<1> DEFINE i == Fresh(t, "saved")
           j == [i EXCEPT !.mine = View(t)]
<1>1. i \in Job /\ i.pc = "saved" /\ i.call = job[t].call /\ i.probe = 1 /\ ~i.err
  BY FreshFields DEF AloneInv, Phases
<1>2. /\ j.pc = "saved" /\ j.call = job[t].call /\ j.probe = 1 /\ ~j.err
      /\ j.mine = View(t)
  BY <1>1 DEF Job
<1>3. /\ job[t].call.op \in {"diff", "save"} /\ job[t].pc = "read" /\ Returns(t, View(t))
      /\ rc' = rc /\ sc' = sc /\ wrote' = wrote /\ job' = [job EXCEPT ![t] = j]
  BY DEF ReadForDiff
<1>4. View(t) = Seen("rc", rc, sc)
  BY <1>3, ReturnsSeen DEF Reading, Prefers
<1> HIDE DEF i, j
<1>5. Knows(j, rc, sc, wrote[t])
  BY <1>2, <1>3, <1>4, FreshProbing DEF Knows, Aims, Landed, Holds
<1>6. QED
  BY <1>3, <1>5, OnlyJob

LEMMA ReadAfterKnows ==
  ASSUME Alone, AloneInv, NEW t \in Task, ReadAfter(t)
  PROVE  (\A u \in Task : Knows(job[u], rc, sc, wrote[u]))'
<1> DEFINE i == Fresh(t, "saved")
           m == Only(View(t), job[t].key)
           j == [i EXCEPT !.mine = m]
<1>1. /\ i \in Job /\ i.pc = "saved" /\ i.call = job[t].call /\ i.probe = 1 /\ ~i.err
      /\ i.key = job[t].key /\ i.old = job[t].old
  BY FreshFields DEF AloneInv, Phases
<1>2. /\ j.pc = "saved" /\ j.call = job[t].call /\ j.probe = 1 /\ ~j.err
      /\ j.key = job[t].key /\ j.old = job[t].old /\ j.mine = m
  BY <1>1 DEF Job
<1>3. /\ job[t].pc = "after" /\ Returns(t, View(t))
      /\ rc' = rc /\ sc' = sc /\ wrote' = wrote /\ job' = [job EXCEPT ![t] = j]
  BY DEF ReadAfter
<1>4. Knows(job[t], rc, sc, wrote[t])
  BY DEF AloneInv
<1>5. job[t].call.op \in Writers
  BY <1>3, <1>4 DEF Knows, Landed
<1>6. m = Only(Seen("rc", rc, sc), job[t].key)
  BY <1>3, <1>5, ReturnsSeen DEF Reading, Prefers, Writers
<1> HIDE DEF i, j, m
<1>7. Holds(j, rc, sc)
  BY <1>2, <1>5, <1>6 DEF Holds, Writers
<1>8. Landed(j, rc, sc, wrote[t])
  BY <1>2, <1>3, <1>4 DEF Knows, Landed
<1>9. Knows(j, rc, sc, wrote[t])
  BY <1>2, <1>7, <1>8, FreshProbing DEF Knows, Aims
<1>10. QED
  BY <1>3, <1>9, OnlyJob

LEMMA CommitKnows ==
  ASSUME Alone, AloneInv, NEW t \in Task, Commit(t)
  PROVE  (\A u \in Task : Knows(job[u], rc, sc, wrote[u]))'
<1>1. CASE Raise(t)
  BY <1>1, RaiseKnows DEF Raise
<1>2. CASE job' = [job EXCEPT ![t] = Fresh(t, "read")]
  <2> DEFINE j == Fresh(t, "read")
  <2>1. j.pc = "read" /\ j.probe = 1 /\ ~j.err
    BY FreshFields DEF AloneInv, Phases
  <2> HIDE DEF j
  <2>2. Knows(j, rc', sc', wrote'[t])
    BY <2>1, FreshProbing DEF Knows, Aims, Landed, Holds
  <2>3. QED
    BY <1>2, <2>2, OnlyJob DEF j
<1>3. QED
  BY <1>1, <1>2 DEF Commit

\* A new list's number is free in rc itself.
LEMMA FreeInRc ==
  ASSUME NEW k, NEW r, NEW s, k \notin DOMAIN Seen("rc", r, s)
  PROVE  k \notin DOMAIN r
BY DEF Seen, Shown

LEMMA ClearKeepsKeys ==
  ASSUME NEW f, NEW k
  PROVE  DOMAIN ClearInclude(f, k) = DOMAIN f
BY DEF ClearInclude, Put

LEMMA WriteLands ==
  ASSUME AloneInv, NEW t \in Task, Write(t), NEW j,
         j.pc = "after", j.call = job[t].call, j.key = job[t].key, j.old = job[t].old
  PROVE  Landed(j, rc', sc', wrote'[t])
<1> DEFINE i == job[t]
           op == i.call.op
<1>1. /\ i.pc = "write" /\ rc' \in Effects(i) /\ sc' \in {rc', sc}
      /\ wrote'[t] = (rc' # rc)
      /\ Aims(i, rc, sc)
  BY DEF Write, Saved, AloneInv, Knows, TypeOK
<1>2. op \in Writers
  BY <1>1 DEF Aims
<1>3. ASSUME op = "add", DOMAIN rc' = {}
      PROVE  (i.call.args \ i.old) \cap Includes(sc', i.key) = {}
  <2> DEFINE cleared == ClearInclude(rc, i.key)
             merged == MergeList(cleared, i.key, i.desc, NewEntries(i.call, i.old))
  <2>1. rc' \in {cleared, merged}
    BY <1>1, <1>3 DEF Effects
  <2>2. i.key \in DOMAIN merged
    BY DEF MergeList, Put
  <2>3. DOMAIN rc = {}
    <3> HIDE DEF merged
    <3>1. QED
      BY <1>3, <2>1, <2>2, ClearKeepsKeys
  <2>4. i.key \in DOMAIN sc /\ i.old = sc[i.key].entries
    BY <1>1, <1>3, <2>3 DEF Aims, Seen, Shown, Other
  <2>5. Includes(sc, i.key) = i.old /\ Includes(rc', i.key) = {}
    BY <1>3, <2>4 DEF Includes
  <2>6. QED
    BY <1>1, <2>5
<1>4. ASSUME op = "create"
      PROVE  \/ i.key \in DOMAIN rc' /\ wrote'[t] /\ Includes(rc', i.key) = i.call.args
             \/ i.key \notin DOMAIN Seen("rc", rc', sc')
  <2>1. i.key \notin DOMAIN Seen("rc", rc, sc) /\ i.key \notin DOMAIN rc
    BY <1>1, <1>4, FreeInRc DEF Aims
  <2>2. CASE rc' = MergeList(rc, i.key, i.call.ref, i.call.args)
    <3>1. i.key \in DOMAIN rc'
      BY <2>2 DEF MergeList, Put
    <3>2. Includes(rc, i.key) = {}
      BY <2>1 DEF Includes
    <3>3. Includes(rc', i.key) = Includes(rc, i.key) \cup i.call.args
      BY <2>2, IncludesMerge
    <3>4. QED
      BY <1>1, <2>1, <3>1, <3>2, <3>3
  <2>3. CASE rc' = rc
    BY <1>1, <2>1, <2>3 DEF Seen, Shown, Other
  <2>4. QED
    BY <1>1, <1>4, <2>2, <2>3 DEF Effects
<1>5. QED
  BY <1>2, <1>3, <1>4 DEF Landed

LEMMA WriteKnows ==
  ASSUME Alone, AloneInv, NEW t \in Task, Write(t)
  PROVE  (\A u \in Task : Knows(job[u], rc, sc, wrote[u]))'
<1>1. CASE Raise(t)
  BY <1>1, RaiseKnows DEF Raise
<1>2. CASE job' = [job EXCEPT ![t] = [Fresh(t, "after") EXCEPT !.mine = Empty]]
  <2> DEFINE i == Fresh(t, "after")
             j == [i EXCEPT !.mine = Empty]
  <2>1. /\ i \in Job /\ i.pc = "after" /\ i.call = job[t].call /\ i.probe = 1 /\ ~i.err
        /\ i.key = job[t].key /\ i.old = job[t].old
    BY FreshFields DEF AloneInv, Phases
  <2>2. /\ j.pc = "after" /\ j.call = job[t].call /\ j.probe = 1 /\ ~j.err
        /\ j.key = job[t].key /\ j.old = job[t].old
    BY <2>1 DEF Job
  <2> HIDE DEF i, j
  <2>3. Landed(j, rc', sc', wrote'[t])
    BY <2>2, WriteLands
  <2>4. Knows(j, rc', sc', wrote'[t])
    BY <2>2, <2>3, FreshProbing DEF Knows, Aims, Holds
  <2>5. QED
    BY <1>2, <2>4, OnlyJob DEF i, j
<1>3. QED
  BY <1>1, <1>2 DEF Write

LEMMA InitAlone == Init => AloneInv
<1> SUFFICES ASSUME Init PROVE AloneInv
  OBVIOUS
<1>1. \A t \in Task : Knows(job[t], rc, sc, wrote[t])
  BY IdleKnows DEF Init
<1>2. QED
  BY <1>1, InitType DEF AloneInv

LEMMA NextAlone ==
  ASSUME Alone, "read" \notin Faults
  PROVE  AloneInv /\ [Next]_vars => AloneInv'
<1> DEFINE AllKnow == \A u \in Task : Knows(job[u], rc, sc, wrote[u])
<1> SUFFICES ASSUME AloneInv, [Next]_vars PROVE AllKnow'
  BY NextType DEF AloneInv
<1>1. CASE Reboot
  BY <1>1, IdleKnows DEF Reboot
<1>2. ASSUME NEW t \in Task, Start(t) PROVE AllKnow'
  BY <1>2, StartKnows
<1>3. ASSUME NEW t \in Task, Step(t) PROVE AllKnow'
  <2>1. ASSUME ProbeRaise(t) \/ Lose(t) \/ Finish(t) PROVE AllKnow'
    <3>1. job' = [job EXCEPT ![t] = IdleJob]
      BY <2>1 DEF ProbeRaise, Lose, Finish, Raise
    <3> HIDE DEF AllKnow
    <3>2. QED
      BY <3>1, RaiseKnows DEF AllKnow
  <2>2. QED
    BY <1>3, <2>1, ProbeNextKnows, ReadNamedKnows, ReadForCreateKnows, ReadForDiffKnows,
       WriteKnows, CommitKnows, ReadAfterKnows DEF Step
<1>4. CASE UNCHANGED vars
  <2>1. rc' = rc /\ sc' = sc /\ job' = job /\ wrote' = wrote
    BY <1>4 DEF vars
  <2>2. QED
    BY <2>1 DEF AloneInv
<1> HIDE DEF AllKnow
<1>5. QED
  BY <1>1, <1>2, <1>3, <1>4 DEF Next

LEMMA AloneAlways ==
  ASSUME Alone, "read" \notin Faults
  PROVE  Spec => []AloneInv
<1>1. Init => AloneInv
  BY InitAlone
<1>2. AloneInv /\ [Next]_vars => AloneInv'
  BY NextAlone
<1>3. QED
  BY <1>1, <1>2, PTL DEF Spec

-----------------------------------------------------------------------------
(* Names and answers of a client of its own. *)

\* The only client's phase moves by its own steps.
LEMMA MovesItself ==
  ASSUME Alone, AloneInv, [Next]_vars, NEW t \in Task,
         job[t].pc \in {"write", "saved"}, job'[t].pc # job[t].pc
  PROVE  Reboot \/ Step(t)
<1>1. \A u \in Task : u = t
  BY DEF Alone
<1>2. ~(UNCHANGED vars) /\ ~Start(t)
  BY DEF vars, Start, Active
<1>3. QED
  BY <1>1, <1>2 DEF Next

LEMMA AnsweredWrites ==
  ASSUME Alone, AloneInv, [Next]_vars, NEW t \in Task, Answered(t)
  PROVE  Write(t)
<1>1. job[t].pc = "write" /\ job'[t].pc = "after" /\ job \in [Task -> Job]
  BY DEF Answered, AloneInv, TypeOK
<1>2. job' # [job EXCEPT ![t] = IdleJob]
  BY <1>1 DEF IdleJob
<1>3. ~Reboot
  BY <1>1 DEF Reboot, IdleJob
<1>4. Step(t)
  BY <1>1, <1>3, MovesItself
<1>5. QED
  BY <1>1, <1>2, <1>4 DEF Step, ProbeNext, ProbeRaise, Reading, ReadNamed, ReadForCreate,
     ReadForDiff, Commit, Lose, Raise, ReadAfter, Finish

LEMMA FinishedFinishes ==
  ASSUME Alone, AloneInv, [Next]_vars, NEW t \in Task, Finished(t)
  PROVE  Finish(t)
<1>1. /\ job[t].pc = "saved" /\ job'[t].pc = "idle" /\ report'[t].ok
      /\ job[t] \in Job /\ job \in [Task -> Job] /\ report \in [Task -> Report]
  BY DEF Finished, AloneInv, TypeOK
<1>2. \A op : ~[NoReport EXCEPT !.op = op].ok
  BY DEF NoReport
<1>3. ~Reboot
  BY <1>1, <1>2 DEF Reboot, Active
<1>4. ~Raise(t)
  <2> DEFINE r == [NoReport EXCEPT !.op = job[t].call.op]
  <2>1. ~r.ok
    BY <1>2
  <2>2. Raise(t) => report' = [report EXCEPT ![t] = r]
    BY DEF Raise
  <2> HIDE DEF r
  <2>3. QED
    BY <1>1, <2>1, <2>2
<1>5. ~ProbeNext(t)
  <2> DEFINE j == job[t]
             j1 == [j EXCEPT !.probe = j.probe + 1]
             j2 == [j EXCEPT !.probe = j.probe + 1, !.err = TRUE]
  <2>1. j1.pc = "saved" /\ j2.pc = "saved"
    BY <1>1 DEF Job
  <2>2. ProbeNext(t) => job' = [job EXCEPT ![t] = j1] \/ job' = [job EXCEPT ![t] = j2]
    BY DEF ProbeNext
  <2> HIDE DEF j1, j2
  <2>3. QED
    BY <1>1, <2>1, <2>2
<1>6. Step(t)
  BY <1>1, <1>3, MovesItself
<1>7. QED
  BY <1>1, <1>4, <1>5, <1>6 DEF Step, ProbeRaise, ReadNamed, ReadForCreate,
     ReadForDiff, Write, Commit, Lose, ReadAfter

LEMMA PutName ==
  ASSUME NEW f, NEW k, NEW v, NEW x \in DOMAIN f, x = k => v.name = f[x].name
  PROVE  x \in DOMAIN Put(f, k, v) /\ Put(f, k, v)[x].name = f[x].name
BY DEF Put

\* A rewrite writes the description the list has, a create writes a list that
\* is new.
LEMMA WriteKeepsNames ==
  ASSUME AloneInv, NEW t \in Task, Write(t), NEW k \in DOMAIN rc \cap DOMAIN rc'
  PROVE  rc'[k].name = rc[k].name
<1> DEFINE i == job[t]
           op == i.call.op
           cleared == ClearInclude(rc, i.key)
<1>1. rc' \in Effects(i) /\ Aims(i, rc, sc) /\ i.pc = "write" /\ rc \in Store
  BY DEF Write, AloneInv, Knows, TypeOK
<1>2. op \in Writers
  BY <1>1 DEF Aims
<1>3. DOMAIN rc # {} => Seen("rc", rc, sc) = rc
  BY DEF Seen, Shown
<1>4. CASE op \in {"add", "remove", "set"}
  <2>1. i.key \in DOMAIN rc => i.desc = rc[i.key].name
    BY <1>1, <1>3, <1>4 DEF Aims
  <2>2. k \in DOMAIN cleared /\ cleared[k].name = rc[k].name
    <3>1. CASE i.key \in DOMAIN rc
      <4> DEFINE v == [rc[i.key] EXCEPT !.entries = {}]
      <4>1. v.name = rc[i.key].name
        BY <1>1, <3>1, StoreElim DEF List
      <4>2. cleared = Put(rc, i.key, v)
        BY <3>1 DEF ClearInclude
      <4> HIDE DEF v, cleared
      <4>3. k \in DOMAIN Put(rc, i.key, v) /\ Put(rc, i.key, v)[k].name = rc[k].name
        BY <4>1, PutName
      <4>4. QED
        BY <4>2, <4>3
    <3>2. CASE i.key \notin DOMAIN rc
      BY <3>2 DEF ClearInclude
    <3>3. QED
      BY <3>1, <3>2
  <2> DEFINE v == [name |-> i.desc,
                   entries |-> Includes(cleared, i.key) \cup NewEntries(i.call, i.old)]
  <2>3. v.name = i.desc
    OBVIOUS
  <2>4. rc' = Put(cleared, i.key, v) \/ rc' = cleared
    BY <1>1, <1>4 DEF Effects, MergeList
  <2> HIDE DEF v, cleared
  <2>5. k = i.key => v.name = cleared[k].name
    BY <2>1, <2>2, <2>3
  <2>6. Put(cleared, i.key, v)[k].name = cleared[k].name
    BY <2>2, <2>5, PutName
  <2>7. QED
    BY <2>2, <2>4, <2>6
<1>5. CASE op = "create"
  <2> DEFINE v == [name |-> i.call.ref, entries |-> Includes(rc, i.key) \cup i.call.args]
  <2>1. k # i.key
    BY <1>1, <1>5, FreeInRc DEF Aims
  <2>2. rc' = rc \/ rc' = Put(rc, i.key, v)
    BY <1>1, <1>5 DEF Effects, MergeList
  <2> HIDE DEF v
  <2>3. QED
    BY <2>1, <2>2, PutName
<1>6. CASE op = "delete"
  <2>1. rc' = rc \/ rc' = Drop(rc, i.key)
    BY <1>1, <1>6 DEF Effects
  <2>2. QED
    BY <2>1 DEF Drop
<1>7. QED
  BY <1>2, <1>4, <1>5, <1>6 DEF Writers

\* A client of its own never changes a list's description, whatever the router
\* refuses, does not save, loses or restarts: the number of a new list is free,
\* and a rewrite writes the description it read (dns_routes.py:480, :33-48).
THEOREM NamesKept ==
  ASSUME Alone, "read" \notin Faults
  PROVE  Spec => NamesStable
<1>1. AloneInv /\ [Next]_vars =>
        [\A t \in Task : Answered(t) =>
           \A k \in DOMAIN rc \cap DOMAIN rc' : rc'[k].name = rc[k].name]_vars
  BY AnsweredWrites, WriteKeepsNames
<1>2. Spec => []AloneInv
  BY AloneAlways
<1>3. QED
  BY <1>1, <1>2, PTL DEF Spec, NamesStable

LEMMA IncludesOnly ==
  ASSUME NEW f, NEW k
  PROVE  /\ Includes(Only(f, k), k) = Includes(f, k)
         /\ k \in DOMAIN Only(f, k) <=> k \in DOMAIN f
BY DEF Includes, Only

\* What the last two reads show when the call answers.
LEMMA FinishSees ==
  ASSUME AloneInv, NEW t \in Task, Finish(t)
  PROVE  LET j == job[t]
             v == View(t) IN
         /\ report'[t] = Answer(j, v)
         /\ Landed(j, rc, sc, wrote[t]) /\ j.pc = "saved"
         /\ j.call.op \in {"diff", "save"} =>
              j.mine = Seen("rc", rc, sc) /\ v = Seen("sc", rc, sc)
         /\ j.call.op = "getSaved" =>
              j.mine = Only(Seen("sc", rc, sc), j.key) /\ v = Seen("rc", rc, sc)
         /\ j.call.op \notin {"diff", "save", "getSaved"} =>
              j.mine = Only(Seen("rc", rc, sc), j.key) /\ v = Seen("sc", rc, sc)
<1>1. job[t].pc = "saved" /\ Returns(t, View(t)) /\ Knows(job[t], rc, sc, wrote[t])
  BY DEF Finish, AloneInv
<1>2. View(t) = Seen(Prefers(job[t]), rc, sc)
  BY <1>1, ReturnsSeen DEF Reading
<1>3. report'[t] = Answer(job[t], View(t))
  BY DEF Finish, AloneInv, TypeOK
<1>4. QED
  BY <1>1, <1>2, <1>3 DEF Knows, Holds, Prefers

LEMMA SeenOf ==
  ASSUME NEW r, NEW s
  PROVE  /\ DOMAIN r # {} => Seen("rc", r, s) = r
         /\ DOMAIN r = {} => Seen("rc", r, s) = s
         /\ DOMAIN s # {} => Seen("sc", r, s) = s
         /\ DOMAIN s = {} => Seen("sc", r, s) = r
BY DEF Seen, Shown, Other

LEMMA FinishHonest ==
  ASSUME AloneInv, NEW t \in Task, Finish(t)
  PROVE  LET r == report'[t] IN
         /\ r.entries \subseteq Includes(rc, r.key)
         /\ r.op = "create" /\ r.hit => r.key \in DOMAIN rc /\ wrote[t]
         /\ r.op = "delete" /\ r.hit => r.key \notin DOMAIN rc
<1> DEFINE j == job[t]
           op == j.call.op
           f == Seen("rc", rc, sc)
<1>1. /\ report'[t] = Answer(j, View(t)) /\ Landed(j, rc, sc, wrote[t]) /\ j.pc = "saved"
      /\ op \in {"add", "create", "delete"} => j.mine = Only(f, j.key)
  BY FinishSees
<1>2. /\ report'[t].op = op /\ report'[t].key = j.key /\ report'[t].entries = Added(j)
      /\ op = "create" => (report'[t].hit <=> j.key \in DOMAIN j.mine)
      /\ op = "delete" => (report'[t].hit <=> j.key \notin DOMAIN j.mine)
  BY <1>1 DEF Answer
<1>3. op \in {"add", "create", "delete"} =>
        /\ Includes(j.mine, j.key) = Includes(f, j.key)
        /\ j.key \in DOMAIN j.mine <=> j.key \in DOMAIN f
  BY <1>1, IncludesOnly
<1>4. Added(j) \subseteq Includes(rc, j.key)
  <2>1. CASE op # "add"
    BY <2>1 DEF Added
  <2>2. CASE op = "add" /\ DOMAIN rc # {}
    BY <1>3, <2>2, SeenOf DEF Added
  <2>3. CASE op = "add" /\ DOMAIN rc = {}
    <3>1. Includes(j.mine, j.key) = Includes(sc, j.key)
      BY <1>3, <2>3, SeenOf
    <3>2. (j.call.args \ j.old) \cap Includes(sc, j.key) = {}
      BY <1>1, <2>3 DEF Landed
    <3>3. QED
      BY <3>1, <3>2 DEF Added
  <2>4. QED
    BY <2>1, <2>2, <2>3
<1>5. op = "create" /\ j.key \in DOMAIN j.mine => j.key \in DOMAIN rc /\ wrote[t]
  BY <1>1, <1>3 DEF Landed
<1>6. op = "delete" /\ j.key \notin DOMAIN j.mine => j.key \notin DOMAIN rc
  BY <1>3, SeenOf
<1>7. QED
  BY <1>2, <1>4, <1>5, <1>6

\* Whenever rc and sc are the same, both reads have shown that one configuration.
LEMMA DirtyMeansDiffer ==
  ASSUME AloneInv, NEW t \in Task, Finish(t), report'[t].dirty, rc = sc
  PROVE  report'[t].op = "create" /\ ~report'[t].hit
<1> DEFINE j == job[t]
           op == j.call.op
           v == View(t)
<1>1. report'[t] = Answer(j, v) /\ Landed(j, rc, sc, wrote[t]) /\ j.pc = "saved"
  BY FinishSees
<1>2. Seen("rc", rc, sc) = rc /\ Seen("sc", rc, sc) = rc
  BY SeenOf
<1>3. /\ v = rc
      /\ op \in {"diff", "save"} => j.mine = rc
      /\ op \notin {"diff", "save"} => j.mine = Only(rc, j.key)
  BY <1>2, FinishSees
<1>4. op \notin {"diff", "save"} =>
        /\ Includes(j.mine, j.key) = Includes(rc, j.key)
        /\ j.key \in DOMAIN j.mine <=> j.key \in DOMAIN rc
  BY <1>3, IncludesOnly
<1>5. DirtyFlag(j, v)
  BY <1>1 DEF Answer
<1>6. op = "create"
  BY <1>3, <1>4, <1>5 DEF DirtyFlag, Dirty
<1>7. j.key \notin DOMAIN j.mine
  BY <1>1, <1>2, <1>3, <1>4, <1>5, <1>6 DEF DirtyFlag, Landed
<1>8. QED
  BY <1>1, <1>6, <1>7 DEF Answer

LEMMA CleanMeansSame ==
  ASSUME AloneInv, NEW t \in Task, Finish(t),
         ~report'[t].dirty, DOMAIN rc # {}, DOMAIN sc # {}
  PROVE  LET r == report'[t] IN
         IF r.op \in {"diff", "save"} THEN ~Dirty(rc, sc)
         ELSE (r.op \in {"create", "delete"} => r.hit) =>
                Includes(rc, r.key) = Includes(sc, r.key)
<1> DEFINE j == job[t]
           op == j.call.op
           v == View(t)
<1>1. report'[t] = Answer(j, v) /\ Landed(j, rc, sc, wrote[t]) /\ j.pc = "saved"
  BY FinishSees
<1>2. Seen("rc", rc, sc) = rc /\ Seen("sc", rc, sc) = sc
  BY SeenOf
<1>3. ~DirtyFlag(j, v) /\ report'[t].op = op /\ report'[t].key = j.key
  BY <1>1 DEF Answer
<1>4. CASE op \in {"diff", "save"}
  BY <1>2, <1>3, <1>4, FinishSees DEF DirtyFlag
<1>5. CASE op = "getSaved"
  <2>1. j.mine = Only(sc, j.key) /\ v = rc
    BY <1>2, <1>5, FinishSees
  <2>2. Includes(j.mine, j.key) = Includes(v, j.key)
    BY <1>3, <1>5 DEF DirtyFlag
  <2>3. QED
    BY <1>3, <1>5, <2>1, <2>2, IncludesOnly
<1>6. ASSUME op \notin {"diff", "save", "getSaved"}
      PROVE  /\ v = sc /\ Includes(j.mine, j.key) = Includes(rc, j.key)
             /\ j.key \in DOMAIN j.mine <=> j.key \in DOMAIN rc
  BY <1>2, <1>6, FinishSees, IncludesOnly
<1>7. CASE op = "create"
  <2>1. report'[t].hit <=> j.key \in DOMAIN rc
    BY <1>1, <1>6, <1>7 DEF Answer
  <2>2. j.key \in DOMAIN sc /\ Includes(sc, j.key) = j.call.args
    BY <1>3, <1>6, <1>7 DEF DirtyFlag
  <2>3. j.key \in DOMAIN rc => Includes(rc, j.key) = j.call.args
    BY <1>1, <1>2, <1>7 DEF Landed
  <2>4. QED
    BY <1>3, <1>7, <2>1, <2>2, <2>3
<1>8. CASE op = "delete"
  <2>1. report'[t].hit <=> j.key \notin DOMAIN rc
    BY <1>1, <1>6, <1>8 DEF Answer
  <2>2. (j.key \in DOMAIN rc) <=> (j.key \in DOMAIN sc)
    BY <1>3, <1>6, <1>8 DEF DirtyFlag
  <2>3. QED
    BY <1>3, <1>8, <2>1, <2>2 DEF Includes
<1>9. CASE op \notin {"diff", "save", "getSaved", "create", "delete"}
  BY <1>3, <1>6, <1>9 DEF DirtyFlag
<1>10. QED
  BY <1>4, <1>5, <1>7, <1>8, <1>9

\* A client of its own is told the truth: what is reported as added, created or
\* deleted is so, and `dirty' is right both ways as long as both configurations
\* hold something; whatever the router refuses, does not save, loses or drops
\* by a restart (dns_routes.py, save_config).
THEOREM AnswersTrue ==
  ASSUME Alone, "read" \notin Faults
  PROVE  Spec => AnswersHold
<1>1. ASSUME AloneInv, [Next]_vars, NEW t \in Task, Finished(t)
      PROVE  LET r == report'[t] IN
             /\ r.entries \subseteq Includes(rc, r.key)
             /\ r.op = "create" /\ r.hit => r.key \in DOMAIN rc /\ wrote[t]
             /\ r.op = "delete" /\ r.hit => r.key \notin DOMAIN rc
  <2>1. Finish(t)
    BY <1>1, FinishedFinishes
  <2>2. QED
    BY <1>1, <2>1, FinishHonest
<1>2. ASSUME AloneInv, [Next]_vars, NEW t \in Task, Finished(t)
      PROVE  LET r == report'[t] IN
             /\ r.dirty => differed'[t] \/ (r.op = "create" /\ ~r.hit)
             /\ ~r.dirty /\ DOMAIN rc # {} /\ DOMAIN sc # {} =>
                  IF r.op \in {"diff", "save"} THEN ~Dirty(rc, sc)
                  ELSE (r.op \in {"create", "delete"} => r.hit) =>
                         Includes(rc, r.key) = Includes(sc, r.key)
  <2>1. Finish(t)
    BY <1>2, FinishedFinishes
  <2>2. rc # sc => differed'[t]
    BY <2>1 DEF Finish, Observe, Active
  <2>3. report'[t].dirty => differed'[t] \/ (report'[t].op = "create" /\ ~report'[t].hit)
    BY <1>2, <2>1, <2>2, DirtyMeansDiffer
  <2>4. QED
    BY <1>2, <2>1, <2>3, CleanMeansSame
<1>3. AloneInv /\ [Next]_vars =>
        [\A t \in Task : Finished(t) =>
           LET r == report'[t] IN
           /\ r.entries \subseteq Includes(rc, r.key)
           /\ r.op = "create" /\ r.hit => r.key \in DOMAIN rc /\ wrote[t]
           /\ r.op = "delete" /\ r.hit => r.key \notin DOMAIN rc]_vars
  BY <1>1
<1>4. AloneInv /\ [Next]_vars =>
        [\A t \in Task : Finished(t) =>
           LET r == report'[t] IN
           /\ r.dirty => differed'[t] \/ (r.op = "create" /\ ~r.hit)
           /\ ~r.dirty /\ DOMAIN rc # {} /\ DOMAIN sc # {} =>
                IF r.op \in {"diff", "save"} THEN ~Dirty(rc, sc)
                ELSE (r.op \in {"create", "delete"} => r.hit) =>
                       Includes(rc, r.key) = Includes(sc, r.key)]_vars
  BY <1>2
<1>5. Spec => []AloneInv
  BY AloneAlways
<1>6. Spec => ReportsHonest
  BY <1>3, <1>5, PTL DEF Spec, ReportsHonest
<1>7. Spec => DirtyIsRight
  BY <1>4, <1>5, PTL DEF Spec, DirtyIsRight
<1>8. QED
  BY <1>6, <1>7, PTL DEF AnswersHold
=============================================================================
