--------------------------- MODULE CliBatch_proofs ---------------------------
(***************************************************************************)
(* Proofs about CliBatch for any interfaces, items, batches, options,      *)
(* initial configurations, bounds and combination of faults.               *)
(***************************************************************************)
EXTENDS CliBatch, WellFoundedInduction, TLAPS

-----------------------------------------------------------------------------
(* Lines and records. *)

LEMMA SmallestOf ==
  ASSUME NEW S \in SUBSET Nat, S # {}
  PROVE  \E n \in S : \A m \in S : n <= m
<1> DEFINE R == OpToRel(<, Nat)
<1>1. \A m, n \in Nat : m < n => <<m, n>> \in R
  BY DEF OpToRel
<1>2. IsWellFoundedOn(R, Nat)
  BY NatLessThanWellFounded
<1> HIDE DEF R
<1>3. PICK n \in S : \A m \in S : <<m, n>> \notin R
  BY <1>2, WFMin
<1>4. ASSUME NEW m \in S
      PROVE  n <= m
  <2>1. m \in Nat /\ n \in Nat /\ ~(m < n)
    BY <1>1, <1>3
  <2>2. QED
    BY <2>1
<1>5. QED
  BY <1>4

LEMMA InverseType ==
  ASSUME NEW l \in Line
  PROVE  Inverse(l) \in Line
BY DEF Inverse, Line

LEMMA ExecType ==
  ASSUME NEW f \in SUBSET Setting, NEW c \in Place, NEW l \in Line
  PROVE  Exec(f, c, l) \in SUBSET Setting
BY DEF Exec, Target, Setting, Place, Line

LEMMA RunType ==
  ASSUME NEW f, NEW recs, NEW refused
  PROVE  Run(f, recs, refused) \in SUBSET Setting
BY DEF Run

LEMMA RecordsType ==
  ASSUME NEW b \in Block
  PROVE  /\ Records(b) \in Seq(Record)
         /\ DOMAIN Records(b) = DOMAIN b.lines
<1>1. b.context \in Place /\ b.lines \in Seq(Line)
  BY DEF Block
<1>2. \A n \in DOMAIN b.lines : b.lines[n] \in Line
  BY <1>1
<1>3. \A n \in DOMAIN b.lines :
        [context |-> b.context, line |-> b.lines[n]] \in Record
  BY <1>1, <1>2 DEF Record
<1>4. DOMAIN b.lines = 1..Len(b.lines) /\ Len(b.lines) \in Nat
  BY <1>1
<1>5. QED
  BY <1>3, <1>4 DEF Records

\* Every rollback command of a record, and every hint, is a line, and each is
\* run in a place.
LEMMA AppliedType ==
  ASSUME TypeOK, NEW n \in DOMAIN applied
  PROVE  /\ applied[n] \in Record
         /\ applied[n].context \in Place
         /\ applied[n].line \in Line
         /\ Inverse(applied[n].line) \in Line
<1>1. applied[n] \in Record
  BY DEF TypeOK
<1>2. QED
  BY <1>1, InverseType DEF Record

LEMMA PlaceOfType ==
  ASSUME TypeOK, NEW l
  PROVE  PlaceOf(l) \in Place
<1> DEFINE with == {n \in DOMAIN applied :
                      /\ applied[n].context # Top
                      /\ HasInverse(applied[n].line) /\ Inverse(applied[n].line) = l}
           first == CHOOSE n \in with : \A m \in with : n <= m
<1>1. CASE with = {}
  BY <1>1 DEF PlaceOf, Place
<1>2. CASE with # {}
  <2>1. \E n \in with : \A m \in with : n <= m
    <3>1. with \subseteq Nat
      BY DEF TypeOK
    <3>2. QED
      BY <1>2, <3>1, SmallestOf
  <2>2. first \in with
    BY <2>1
  <2>3. applied[first].context \in Place
    BY <2>2, AppliedType
  <2>4. QED
    BY <1>2, <2>3 DEF PlaceOf
<1>3. QED
  BY <1>1, <1>2

-----------------------------------------------------------------------------
(* Type correctness. *)

LEMMA UndoableType ==
  /\ Undoable \subseteq DOMAIN applied
  /\ Denied \in BOOLEAN
BY DEF Undoable, Denied

LEMMA HintLinesType ==
  ASSUME TypeOK, NEW text \in SUBSET Item
  PROVE  HintLines(text) \subseteq Line
<1> DEFINE new == {[no |-> FALSE, item |-> i] : i \in text \ baseline}
           gone == {[no |-> FALSE, item |-> i] : i \in (baseline \ text) \ Peers}
<1>1. \A i \in Item : [no |-> FALSE, item |-> i] \in Line
  BY DEF Line
<1>2. new \subseteq Line /\ gone \subseteq Line
  BY <1>1 DEF TypeOK
<1>3. {Inverse(l) : l \in {n \in new : HasInverse(n) /\ ~Destructive(Inverse(n))}}
        \subseteq Line
  BY <1>2, InverseType
<1>4. QED
  BY <1>2, <1>3 DEF HintLines

LEMMA FailType ==
  ASSUME TypeOK, Fail
  PROVE  error' \in BOOLEAN /\ pc' \in Phases
BY DEF Fail, Phases

LEMMA ExceptType ==
  ASSUME TypeOK, Except, UNCHANGED applied
  PROVE  /\ error' \in BOOLEAN
         /\ pc' \in Phases
         /\ todo' \subseteq DOMAIN applied'
         /\ hints' \subseteq Line
         /\ tried' \in 0..UndoLimit
         /\ manual' \in BOOLEAN
         /\ undone' \in BOOLEAN
         /\ destroyed' \in BOOLEAN
BY UndoableType DEF Except, Phases, TypeOK

LEMMA InitType == Init => TypeOK
<1> SUFFICES ASSUME Init
             PROVE  TypeOK
  OBVIOUS
<1>1. /\ cfg \subseteq Setting /\ batch \in Seq(Block) /\ opt \in Option
      /\ mishaps \in SUBSET FaultKinds
  BY BatchAssumption DEF Init
<1>2. 0 \in 0..UndoLimit /\ 0 \in 0..MaxOther /\ 1 \in Nat \ {0}
  BY BatchAssumption
<1>3. applied \in Seq(Record) /\ todo \subseteq DOMAIN applied
  BY DEF Init
<1>4. QED
  BY <1>1, <1>2, <1>3 DEF Init, TypeOK, Phases

LEMMA SnapshotType ==
  ASSUME TypeOK, Snapshot
  PROVE  TypeOK'
<1>1. Text(cfg) \subseteq Item
  BY DEF Text, TypeOK, Setting
<1>2. QED
  BY <1>1 DEF Snapshot, TypeOK, Phases, request, rollback

LEMMA ApplyType ==
  ASSUME TypeOK, Apply
  PROVE  TypeOK'
<1> DEFINE b == batch[next]
<1>1. b \in Block
  BY DEF Apply, TypeOK
<1>2. /\ cfg' \subseteq Setting
      /\ startup' \subseteq Setting /\ was' \subseteq Setting /\ before' \subseteq Setting
      /\ batch' \in Seq(Block) /\ opt' \in Option /\ baseline' \subseteq Item
      /\ others' \in 0..MaxOther /\ mishaps' \in SUBSET FaultKinds
  BY RunType DEF Apply, TypeOK, request
<1>3. CASE applied' = applied \o Records(b) /\ next' = next + 1
           /\ UNCHANGED <<error, pc, rollback>>
  <2>1. applied' \in Seq(Record) /\ DOMAIN applied \subseteq DOMAIN applied'
    BY <1>1, <1>3, RecordsType DEF TypeOK
  <2>2. next' \in Nat \ {0}
    BY <1>3 DEF TypeOK
  <2>3. QED
    BY <1>2, <1>3, <2>1, <2>2 DEF TypeOK, rollback
<1>4. CASE Fail /\ UNCHANGED <<applied, next>>
  BY <1>2, <1>4, FailType DEF TypeOK, Fail, rollback
<1>5. CASE Except /\ UNCHANGED <<applied, next>>
  BY <1>2, <1>5, ExceptType DEF TypeOK
<1>6. QED
  BY <1>3, <1>4, <1>5 DEF Apply

LEMMA VerifyType ==
  ASSUME TypeOK, Verify
  PROVE  TypeOK'
<1>1. CASE pc' = (IF opt.save THEN "save" ELSE "done") /\ UNCHANGED <<error, rollback>>
  BY <1>1 DEF Verify, TypeOK, Phases, request, rollback
<1>2. CASE Fail
  BY <1>2, FailType DEF Verify, Fail, TypeOK, request, rollback
<1>3. CASE Except
  BY <1>3, ExceptType DEF Verify, TypeOK, request
<1>4. QED
  BY <1>1, <1>2, <1>3 DEF Verify

LEMMA SaveType ==
  ASSUME TypeOK, Save
  PROVE  TypeOK'
<1>1. startup' \subseteq Setting
  BY DEF Save, TypeOK
<1>2. CASE pc' = "done" /\ UNCHANGED <<error, rollback>>
  BY <1>1, <1>2 DEF Save, TypeOK, Phases, request, rollback
<1>3. CASE Except
  BY <1>1, <1>3, ExceptType DEF Save, TypeOK, request
<1>4. QED
  BY <1>2, <1>3 DEF Save

LEMMA HintType ==
  ASSUME TypeOK, Hint
  PROVE  TypeOK'
<1>1. Text(cfg) \subseteq Item
  BY DEF Text, TypeOK, Setting
<1>2. hints' \subseteq Line
  BY <1>1, HintLinesType DEF Hint
<1>3. QED
  BY <1>2, UndoableType DEF Hint, TypeOK, Phases, request

LEMMA UndoType ==
  ASSUME TypeOK, NEW c \in Place, NEW l \in Line, Undo(c, l)
  PROVE  cfg' \subseteq Setting /\ destroyed' \in BOOLEAN /\ undone' \in BOOLEAN
BY ExecType DEF Undo, TypeOK, Destructive

LEMMA RollbackNextType ==
  ASSUME TypeOK, RollbackNext
  PROVE  TypeOK'
<1>1. /\ cfg' \subseteq Setting /\ destroyed' \in BOOLEAN /\ undone' \in BOOLEAN
      /\ todo' \subseteq todo /\ hints' \subseteq hints
  <2>1. CASE \E n \in todo :
               /\ Undo(PlaceOf(Inverse(applied[n].line)), Inverse(applied[n].line))
               /\ todo' = todo \ {n}
               /\ UNCHANGED hints
    <3>1. PICK n \in todo :
            /\ Undo(PlaceOf(Inverse(applied[n].line)), Inverse(applied[n].line))
            /\ todo' = todo \ {n}
            /\ UNCHANGED hints
      BY <2>1
    <3>2. n \in DOMAIN applied
      BY DEF TypeOK
    <3>3. Inverse(applied[n].line) \in Line
      BY <3>2, AppliedType
    <3>4. QED
      BY <3>1, <3>3, PlaceOfType, UndoType
  <2>2. CASE \E l \in hints :
               Undo(PlaceOf(l), l) /\ hints' = hints \ {l} /\ UNCHANGED todo
    <3>1. PICK l \in hints :
            Undo(PlaceOf(l), l) /\ hints' = hints \ {l} /\ UNCHANGED todo
      BY <2>2
    <3>2. l \in Line
      BY DEF TypeOK
    <3>3. QED
      BY <3>1, <3>2, PlaceOfType, UndoType
  <2>3. QED
    BY <2>1, <2>2 DEF RollbackNext
<1>2. tried' \in 0..UndoLimit
  BY BatchAssumption DEF RollbackNext, TypeOK
<1>3. QED
  BY <1>1, <1>2 DEF RollbackNext, TypeOK, request

LEMMA ExceptNextType ==
  ASSUME TypeOK, ExceptNext
  PROVE  TypeOK'
<1>1. PICK n \in todo :
        LET l == Inverse(applied[n].line)
            c == applied[n].context
        IN  /\ IsLast(n)
            /\ todo' = todo \ {n}
            /\ \/ Undo(c, l)
               \/ /\ ~Accepts(c, l) \/ "refuseUndo" \in mishaps
                  /\ undone' = TRUE
                  /\ UNCHANGED <<cfg, destroyed>>
  BY DEF ExceptNext
<1>2. n \in DOMAIN applied
  BY DEF TypeOK
<1>3. applied[n].context \in Place /\ Inverse(applied[n].line) \in Line
  BY <1>2, AppliedType
<1>4. cfg' \subseteq Setting /\ destroyed' \in BOOLEAN /\ undone' \in BOOLEAN
  BY <1>1, <1>3, UndoType DEF TypeOK
<1>5. QED
  BY <1>1, <1>4 DEF ExceptNext, TypeOK, request

LEMMA EndType ==
  ASSUME TypeOK, RollbackEnd \/ ExceptEnd
  PROVE  TypeOK'
BY DEF RollbackEnd, ExceptEnd, TypeOK, Phases, request, rollback

LEMMA OtherType ==
  ASSUME TypeOK, Other
  PROVE  TypeOK'
<1>1. PICK i \in OtherItems, no \in BOOLEAN :
        cfg' = Exec(cfg, Top, [no |-> no, item |-> i])
  BY DEF Other
<1>2. [no |-> no, item |-> i] \in Line /\ Top \in Place
  BY BatchAssumption DEF Line, Item, Place
<1>3. cfg' \subseteq Setting
  BY <1>1, <1>2, ExecType DEF TypeOK
<1>4. others' \in 0..MaxOther
  BY BatchAssumption DEF Other, TypeOK
<1>5. QED
  BY <1>3, <1>4 DEF Other, TypeOK, request, rollback

LEMMA NextType == TypeOK /\ [Next]_vars => TypeOK'
<1> SUFFICES ASSUME TypeOK, [Next]_vars
             PROVE  TypeOK'
  OBVIOUS
<1>1. CASE Call
  BY <1>1, SnapshotType, ApplyType, VerifyType, SaveType, HintType,
     RollbackNextType, ExceptNextType, EndType DEF Call
<1>2. CASE Other
  BY <1>2, OtherType
<1>3. CASE UNCHANGED vars
  BY <1>3 DEF vars, request, rollback, TypeOK
<1>4. QED
  BY <1>1, <1>2, <1>3 DEF Next

\* The variables of apply_cli_batch keep their types: above all, the records
\* still to be undone are records of applied lines, and no more rollback
\* commands are tried than the limit says.
THEOREM TypeCorrect == Spec => []TypeOK
<1>1. QED
  BY InitType, NextType, PTL DEF Spec

-----------------------------------------------------------------------------
(* A rollback destroys nothing that it was not allowed to. *)

\* What is still to be run has been filtered: the records whose inverses may
\* not be run are not among todo, and no hint is destructive.
Filtered ==
  /\ pc \in {"snapshot", "apply", "save", "hint"} => todo = {} /\ hints = {}
  /\ \A n \in todo : Permitted(Inverse(applied[n].line))
  /\ \A l \in hints : ~Destructive(l)
  /\ NeverDestroys

LEMMA UndoableFiltered == \A n \in Undoable : Permitted(Inverse(applied[n].line))
BY DEF Undoable

\* The hints of a rollback are never destructive.
LEMMA HintsFiltered ==
  ASSUME NEW text, NEW l \in HintLines(text)
  PROVE  ~Destructive(l)
BY DEF HintLines, Destructive

LEMMA UndoFiltered ==
  ASSUME NeverDestroys, NEW c, NEW l, Permitted(l), Undo(c, l), UNCHANGED opt
  PROVE  NeverDestroys'
BY DEF NeverDestroys, Permitted, Undo

LEMMA ExceptFiltered ==
  ASSUME Filtered, Except, pc \in {"apply", "save"}, UNCHANGED <<applied, opt>>
  PROVE  Filtered'
BY UndoableFiltered DEF Except, Filtered, NeverDestroys, Permitted

LEMMA FilteredNext == TypeOK /\ Filtered /\ [Next]_vars => Filtered'
<1> SUFFICES ASSUME TypeOK, Filtered, [Next]_vars
             PROVE  Filtered'
  OBVIOUS
<1> USE DEF Filtered
<1>1. CASE Snapshot
  BY <1>1 DEF Snapshot, NeverDestroys, Permitted, request, rollback
<1>2. CASE Apply
  <2>1. CASE UNCHANGED rollback /\ pc' \in {"apply", "hint", "done"}
    BY <1>2, <2>1 DEF Apply, NeverDestroys, Permitted, request, rollback
  <2>2. CASE Except /\ UNCHANGED applied
    BY <1>2, <2>2, ExceptFiltered DEF Apply, request
  <2>3. QED
    BY <1>2, <2>1, <2>2 DEF Apply, Fail
<1>3. CASE Verify
  <2>1. CASE UNCHANGED rollback /\ pc' \in {"save", "hint", "done"}
    BY <1>3, <2>1 DEF Verify, NeverDestroys, Permitted, request, rollback
  <2>2. CASE Except
    BY <1>3, <2>2, ExceptFiltered DEF Verify, request
  <2>3. QED
    BY <1>3, <2>1, <2>2 DEF Verify, Fail
<1>4. CASE Save
  <2>1. CASE UNCHANGED rollback /\ pc' = "done"
    BY <1>4, <2>1 DEF Save, NeverDestroys, Permitted, request, rollback
  <2>2. CASE Except
    BY <1>4, <2>2, ExceptFiltered DEF Save, request
  <2>3. QED
    BY <1>4, <2>1, <2>2 DEF Save
<1>5. CASE Hint
  <2>1. \A l \in hints' : ~Destructive(l)
    BY <1>5, HintsFiltered DEF Hint
  <2>2. QED
    BY <1>5, <2>1, UndoableFiltered DEF Hint, NeverDestroys, Permitted, request
<1>6. CASE RollbackNext
  <2>1. todo' \subseteq todo /\ hints' \subseteq hints
    BY <1>6 DEF RollbackNext
  <2>2. NeverDestroys'
    BY <1>6, UndoFiltered DEF RollbackNext, request, Permitted
  <2>3. QED
    BY <1>6, <2>1, <2>2 DEF RollbackNext, request, Permitted
<1>7. CASE ExceptNext
  <2>1. todo' \subseteq todo
    BY <1>7 DEF ExceptNext
  <2>2. NeverDestroys'
    BY <1>7, UndoFiltered DEF ExceptNext, request, NeverDestroys
  <2>3. QED
    BY <1>7, <2>1, <2>2 DEF ExceptNext, request, Permitted
<1>8. CASE RollbackEnd \/ ExceptEnd
  BY <1>8 DEF RollbackEnd, ExceptEnd, NeverDestroys, Permitted, request, rollback
<1>9. CASE Other
  BY <1>9 DEF Other, NeverDestroys, Permitted, request, rollback
<1>10. CASE UNCHANGED vars
  BY <1>10 DEF vars, NeverDestroys, Permitted, request, rollback
<1>11. QED
  BY <1>1, <1>2, <1>3, <1>4, <1>5, <1>6, <1>7, <1>8, <1>9, <1>10 DEF Next, Call

\* Whatever the batch, the failures and the other writers, a destructive
\* rollback command runs only if the call gave both flags.
THEOREM NothingDestroyedUnasked == Spec => []NeverDestroys
<1>1. Init => Filtered
  BY DEF Init, Filtered, NeverDestroys
<1>2. Filtered => NeverDestroys
  BY DEF Filtered
<1>3. QED
  BY <1>1, <1>2, FilteredNext, TypeCorrect, PTL DEF Spec

-----------------------------------------------------------------------------
(* A denied rollback is reported. *)

\* Until something fails there is no error, and once the rollback has begun,
\* or there is none to begin, a denied record has been noted.
DenialNoted ==
  /\ pc \in {"snapshot", "apply", "save"} => ~error
  /\ pc \in {"undo", "xundo", "done"} /\ error /\ opt.rollback /\ Denied => manual

LEMMA DeniedFrame ==
  ASSUME UNCHANGED <<applied, opt>>
  PROVE  Denied' <=> Denied
BY DEF Denied, Permitted

LEMMA ExceptNoted ==
  ASSUME TypeOK, Except, UNCHANGED <<applied, opt>>
  PROVE  DenialNoted'
<1>1. applied = <<>> => ~Denied
  BY DEF Denied
<1>2. QED
  BY <1>1, DeniedFrame DEF Except, DenialNoted

LEMMA FailNoted ==
  ASSUME Fail, UNCHANGED opt
  PROVE  DenialNoted'
BY DEF Fail, DenialNoted

LEMMA DenialNext == TypeOK /\ DenialNoted /\ [Next]_vars => DenialNoted'
<1> SUFFICES ASSUME TypeOK, DenialNoted, [Next]_vars
             PROVE  DenialNoted'
  OBVIOUS
<1>1. CASE Snapshot
  BY <1>1 DEF Snapshot, DenialNoted
<1>2. CASE Apply
  <2>1. CASE pc' = "apply" /\ UNCHANGED error
    BY <1>2, <2>1 DEF Apply, DenialNoted
  <2>2. QED
    BY <1>2, <2>1, FailNoted, ExceptNoted DEF Apply, request
<1>3. CASE Verify
  <2>1. CASE pc' \in {"save", "done"} /\ UNCHANGED error
    BY <1>3, <2>1 DEF Verify, DenialNoted
  <2>2. QED
    BY <1>3, <2>1, FailNoted, ExceptNoted DEF Verify, request
<1>4. CASE Save
  <2>1. CASE pc' = "done" /\ UNCHANGED error
    BY <1>4, <2>1 DEF Save, DenialNoted
  <2>2. QED
    BY <1>4, <2>1, ExceptNoted DEF Save, request
<1>5. CASE Hint
  BY <1>5, DeniedFrame DEF Hint, DenialNoted, request
<1>6. CASE RollbackNext \/ RollbackEnd \/ ExceptNext \/ ExceptEnd
  BY <1>6, DeniedFrame
  DEF RollbackNext, RollbackEnd, ExceptNext, ExceptEnd, DenialNoted, request, rollback
<1>7. CASE Other \/ UNCHANGED vars
  BY <1>7, DeniedFrame DEF Other, DenialNoted, vars, request, rollback
<1>8. QED
  BY <1>1, <1>2, <1>3, <1>4, <1>5, <1>6, <1>7 DEF Next, Call

\* A failed batch with an applied line whose inverse was denied is answered
\* with one of the verdicts that ask for a restore by hand.
THEOREM DenialReported == Spec => []DeniedIsReported
<1>1. Init => DenialNoted
  BY DEF Init, DenialNoted
<1>2. TypeOK /\ DenialNoted => DeniedIsReported
  <2> SUFFICES ASSUME TypeOK, DenialNoted, Finished, error, opt.rollback, Denied
               PROVE  AskForRestore
    BY DEF DeniedIsReported
  <2>1. error /\ manual /\ undone \in BOOLEAN
    BY DEF DenialNoted, Finished, TypeOK
  <2>2. CASE undone
    BY <2>1, <2>2 DEF AskForRestore, Verdict
  <2>3. CASE ~undone
    BY <2>1, <2>3 DEF AskForRestore, Verdict
  <2>4. QED
    BY <2>2, <2>3
<1>3. QED
  BY <1>1, <1>2, DenialNext, TypeCorrect, PTL DEF Spec

-----------------------------------------------------------------------------
(* Only a batch that was applied as a whole is saved. *)

\* The blocks before the next one are recorded, and as long as nothing has
\* failed nothing has been undone.
RecordedSoFar ==
  /\ pc \in {"snapshot", "apply", "save"} => ~error /\ ~undone
  /\ pc \in {"snapshot", "apply"} => next <= Len(batch) + 1 /\ Recorded(next - 1)
  /\ pc = "save" => Recorded(Len(batch))
  /\ pc = "hint" => ~undone

\* A block that succeeds adds its lines to the records and keeps the others.
LEMMA RecordedStep ==
  ASSUME TypeOK, pc = "apply", next <= Len(batch), Recorded(next - 1),
         applied' = applied \o Records(batch[next]), next' = next + 1, UNCHANGED batch
  PROVE  Recorded(next - 1)'
<1> DEFINE b == batch[next]
<1>1. b \in Block /\ batch \in Seq(Block) /\ next \in Nat \ {0}
  BY DEF TypeOK
<1>2. /\ Records(b) \in Seq(Record) /\ applied \in Seq(Record)
      /\ DOMAIN Records(b) = DOMAIN b.lines
  BY <1>1, RecordsType DEF TypeOK
<1>3. \A n \in DOMAIN applied : n \in DOMAIN applied' /\ applied'[n] = applied[n]
  BY <1>2
<1>4. \A m \in DOMAIN b.lines :
        /\ Len(applied) + m \in DOMAIN applied'
        /\ applied'[Len(applied) + m] = Records(b)[m]
  BY <1>2
<1>5. \A m \in DOMAIN b.lines :
        Records(b)[m] = [context |-> b.context, line |-> b.lines[m]]
  BY DEF Records
<1>7. ASSUME NEW j \in 1..next, NEW m \in DOMAIN batch[j].lines
      PROVE  \E n \in DOMAIN applied' :
               applied'[n] = [context |-> batch[j].context, line |-> batch[j].lines[m]]
  <2>1. CASE j = next
    BY <1>4, <1>5, <1>7, <2>1
  <2>2. CASE j # next
    <3>1. j \in 1..(next - 1)
      BY <1>1, <2>2
    <3>2. PICK n \in DOMAIN applied :
            applied[n] = [context |-> batch[j].context, line |-> batch[j].lines[m]]
      BY <1>7, <3>1 DEF Recorded
    <3>3. QED
      BY <1>3, <3>2
  <2>3. QED
    BY <2>1, <2>2
<1>8. next' - 1 = next
  BY <1>1
<1>9. QED
  BY <1>7, <1>8 DEF Recorded

LEMMA RecordedNext == TypeOK /\ RecordedSoFar /\ [Next]_vars => RecordedSoFar'
<1> SUFFICES ASSUME TypeOK, RecordedSoFar, [Next]_vars
             PROVE  RecordedSoFar'
  OBVIOUS
<1>1. next \in Nat \ {0} /\ Len(batch) \in Nat
  BY DEF TypeOK
<1> USE DEF RecordedSoFar
<1>2. CASE Snapshot
  BY <1>2 DEF Snapshot, Recorded, request, rollback
<1>3. CASE Apply
  <2>1. CASE /\ applied' = applied \o Records(batch[next])
             /\ next' = next + 1
             /\ UNCHANGED <<error, pc, rollback>>
    <3>1. Recorded(next - 1)'
      BY <1>3, <2>1, RecordedStep DEF Apply, request
    <3>2. next' <= Len(batch') + 1
      BY <1>1, <1>3, <2>1 DEF Apply, request
    <3>3. QED
      BY <1>3, <2>1, <3>1, <3>2 DEF Apply, rollback
  <2>2. CASE Fail \/ Except
    BY <1>3, <2>2 DEF Apply, Fail, Except, rollback
  <2>3. QED
    BY <1>3, <2>1, <2>2 DEF Apply
<1>4. CASE Verify
  <2>1. CASE pc' \in {"save", "done"} /\ UNCHANGED <<error, rollback>>
    <3>1. next - 1 = Len(batch)
      BY <1>1, <1>4 DEF Verify
    <3>2. Recorded(Len(batch))
      BY <1>4, <3>1 DEF Verify
    <3>3. QED
      BY <1>4, <2>1, <3>2 DEF Verify, Recorded, request, rollback
  <2>2. CASE Fail \/ Except
    BY <1>4, <2>2 DEF Verify, Fail, Except, rollback
  <2>3. QED
    BY <1>4, <2>1, <2>2 DEF Verify
<1>5. CASE Save
  BY <1>5 DEF Save, Except
<1>6. CASE Hint \/ RollbackNext \/ RollbackEnd \/ ExceptNext \/ ExceptEnd
  BY <1>6 DEF Hint, RollbackNext, RollbackEnd, ExceptNext, ExceptEnd
<1>7. CASE Other
  BY <1>7 DEF Other, Recorded, request, rollback
<1>8. CASE UNCHANGED vars
  BY <1>8 DEF vars, Recorded, request, rollback
<1>9. QED
  BY <1>2, <1>3, <1>4, <1>5, <1>6, <1>7, <1>8 DEF Next, Call

\* Whenever startup changes, every line of the batch is recorded, nothing has
\* failed and nothing was rolled back.
THEOREM OnlyCleanSaved == Spec => SavedOnlyWhenClean
<1>1. Init => RecordedSoFar
  BY DEF Init, RecordedSoFar, Recorded, TypeOK
<1>2. RecordedSoFar /\ [Next]_vars
        => [startup' # startup => ~error /\ ~undone /\ Recorded(Len(batch))]_vars
  <2> SUFFICES ASSUME RecordedSoFar, [Next]_vars, startup' # startup
               PROVE  ~error /\ ~undone /\ Recorded(Len(batch))
    OBVIOUS
  <2>1. Save
    BY DEF Next, Call, Snapshot, Apply, Verify, Hint, RollbackNext, RollbackEnd,
           ExceptNext, ExceptEnd, Other, vars
  <2>2. QED
    BY <2>1 DEF Save, RecordedSoFar
<1>3. QED
  BY <1>1, <1>2, InitType, NextType, RecordedNext, PTL DEF Spec, SavedOnlyWhenClean

-----------------------------------------------------------------------------
(* Items no line is about are left alone. *)

\* Some line of the batch is about item i.
About(i) == \E j \in DOMAIN batch : \E m \in DOMAIN batch[j].lines :
              batch[j].lines[m].item = i

\* While nobody else writes, everything the call has done or is about to do
\* concerns the items of its batch: the inductive form of OthersUntouched.
OwnItems ==
  others = 0 =>
    /\ \A e \in Setting : ~About(e[2]) => (e \in cfg <=> e \in was)
    /\ \A n \in DOMAIN applied : About(applied[n].line.item)
    /\ \A l \in hints : About(l.item)
    /\ pc \notin {"snapshot", "raised"} => baseline = Text(was)

LEMMA InverseItem == \A l : Inverse(l).item = l.item
BY DEF Inverse

LEMMA ExecOwn ==
  ASSUME NEW f, NEW c, NEW l, NEW e \in Setting, e[2] # l.item
  PROVE  e \in Exec(f, c, l) <=> e \in f
BY DEF Exec, Target

LEMMA RecordsOwn ==
  ASSUME TypeOK, next <= Len(batch), NEW n \in DOMAIN Records(batch[next])
  PROVE  About(Records(batch[next])[n].line.item)
<1>1. next \in DOMAIN batch /\ batch[next] \in Block
  BY DEF TypeOK
<1>2. n \in DOMAIN batch[next].lines
  BY DEF Records
<1>3. Records(batch[next])[n].line = batch[next].lines[n]
  BY <1>2 DEF Records
<1>4. QED
  BY <1>1, <1>2, <1>3 DEF About

LEMMA RunOwn ==
  ASSUME NEW f, NEW recs, NEW refused, NEW e \in Setting,
         \A n \in DOMAIN recs : recs[n].line.item # e[2]
  PROVE  e \in Run(f, recs, refused) <=> e \in f
BY DEF Run, Target

\* A difference from the baseline is about an item of the batch.
LEMMA HintsOwn ==
  ASSUME TypeOK, OwnItems, others = 0, baseline = Text(was),
         NEW l \in HintLines(Text(cfg))
  PROVE  About(l.item)
<1>1. \A i \in (Text(cfg) \ baseline) \cup (baseline \ Text(cfg)) : About(i)
  <2>1. TAKE i \in (Text(cfg) \ baseline) \cup (baseline \ Text(cfg))
  <2>2. PICK e \in Setting : e[2] = i /\ ~(e \in cfg <=> e \in was)
    BY DEF Text, TypeOK
  <2>3. QED
    BY <2>2 DEF OwnItems
<1> DEFINE text == Text(cfg)
           new == {[no |-> FALSE, item |-> i] : i \in text \ baseline}
           gone == {[no |-> FALSE, item |-> i] : i \in (baseline \ text) \ Peers}
<1>2. \A n \in new : Inverse(n).item \in text \ baseline
  BY InverseItem
<1>3. \A n \in gone : n.item \in baseline \ text
  OBVIOUS
<1>4. \/ l \in gone
      \/ \E n \in new : l = Inverse(n)
  BY DEF HintLines
<1>5. QED
  BY <1>1, <1>2, <1>3, <1>4

LEMMA UndoOwn ==
  ASSUME NEW c, NEW l, Undo(c, l), NEW e \in Setting, e[2] # l.item
  PROVE  e \in cfg' <=> e \in cfg
BY ExecOwn DEF Undo

LEMMA AboutFrame ==
  ASSUME UNCHANGED batch
  PROVE  \A i : About(i)' <=> About(i)
BY DEF About

LEMMA OwnNext == TypeOK /\ OwnItems /\ [Next]_vars => OwnItems'
<1> SUFFICES ASSUME TypeOK, OwnItems, [Next]_vars, others' = 0
             PROVE  OwnItems'
  BY DEF OwnItems
<1>1. UNCHANGED batch /\ others = 0
  BY DEF Next, Call, Snapshot, Apply, Verify, Save, Hint, RollbackNext, RollbackEnd,
         ExceptNext, ExceptEnd, Other, vars, request, TypeOK
<1>2. \A i : About(i)' <=> About(i)
  BY <1>1, AboutFrame
<1> USE DEF OwnItems
<1>3. CASE Snapshot
  BY <1>1, <1>2, <1>3 DEF Snapshot, rollback
<1>4. CASE Apply
  <2> DEFINE recs == Records(batch[next])
  <2>1. \A n \in DOMAIN recs : About(recs[n].line.item)
    BY <1>4, RecordsOwn DEF Apply
  <2>2. \A refused, e : e \in Setting /\ ~About(e[2])
          => (e \in Run(cfg, recs, refused) <=> e \in cfg)
    BY <2>1, RunOwn
  <2>3. \A e \in Setting : ~About(e[2]) => (e \in cfg' <=> e \in cfg)
    BY <1>4, <2>2 DEF Apply
  <2>4. \A n \in DOMAIN applied' : About(applied'[n].line.item)
    <3>1. CASE applied' = applied \o recs
      <4>1. batch[next] \in Block
        BY <1>4 DEF Apply, TypeOK
      <4>2. recs \in Seq(Record) /\ applied \in Seq(Record)
        BY <4>1, RecordsType DEF TypeOK
      <4>3. TAKE n \in DOMAIN applied'
      <4>4. CASE n \in DOMAIN applied
        BY <1>1, <3>1, <4>2, <4>4
      <4>5. CASE n \notin DOMAIN applied
        <5>1. n - Len(applied) \in DOMAIN recs
                /\ applied'[n] = recs[n - Len(applied)]
          BY <3>1, <4>2, <4>5
        <5>2. QED
          BY <2>1, <5>1
      <4>6. QED
        BY <4>4, <4>5
    <3>2. CASE UNCHANGED applied
      BY <1>1, <3>2
    <3>3. QED
      BY <1>4, <3>1, <3>2 DEF Apply
  <2>5. hints' = hints
    BY <1>4 DEF Apply, Fail, Except, rollback
  <2>6. QED
    BY <1>1, <1>2, <1>4, <2>3, <2>4, <2>5 DEF Apply
<1>5. CASE Verify \/ Save \/ RollbackEnd \/ ExceptEnd
  BY <1>1, <1>2, <1>5
  DEF Verify, Save, RollbackEnd, ExceptEnd, Fail, Except, request, rollback
<1>6. CASE Hint
  <2>1. \A l \in hints' : About(l.item)
    BY <1>1, <1>6, HintsOwn DEF Hint
  <2>2. QED
    BY <1>1, <1>2, <1>6, <2>1 DEF Hint
<1>7. CASE RollbackNext
  <2>1. \A n \in todo : About(Inverse(applied[n].line).item)
    BY <1>1, InverseItem DEF TypeOK
  <2>2. \A e \in Setting : ~About(e[2]) => (e \in cfg' <=> e \in cfg)
    BY <1>1, <1>7, <2>1, UndoOwn DEF RollbackNext
  <2>3. hints' \subseteq hints
    BY <1>7 DEF RollbackNext
  <2>4. QED
    BY <1>1, <1>2, <1>7, <2>2, <2>3 DEF RollbackNext
<1>8. CASE ExceptNext
  <2>1. \A n \in todo : About(Inverse(applied[n].line).item)
    BY <1>1, InverseItem DEF TypeOK
  <2>2. \A e \in Setting : ~About(e[2]) => (e \in cfg' <=> e \in cfg)
    BY <1>1, <1>8, <2>1, UndoOwn DEF ExceptNext
  <2>3. QED
    BY <1>1, <1>2, <1>8, <2>2 DEF ExceptNext
<1>9. CASE Other \/ UNCHANGED vars
  BY <1>1, <1>2, <1>9 DEF Other, vars, rollback, TypeOK
<1>10. QED
  BY <1>3, <1>4, <1>5, <1>6, <1>7, <1>8, <1>9 DEF Next, Call

\* Whatever fails and whatever is rolled back, a batch changes only items that
\* one of its lines is about.
THEOREM OthersAlone == Spec => []OthersUntouched
<1>1. Init => OwnItems
  BY DEF Init, OwnItems
<1>2. OwnItems => OthersUntouched
  BY DEF OwnItems, OthersUntouched, About
<1>3. QED
  BY <1>1, <1>2, OwnNext, TypeCorrect, PTL DEF Spec

-----------------------------------------------------------------------------
(* An ok answer did it all. *)

\* The n-th record is about setting e; some record is; the last one that is
\* sets it.
Decides(recs, n, e) == Target(recs[n].context, recs[n].line) = e
Decided(recs, e) == \E n \in DOMAIN recs : Decides(recs, n, e)
LastSets(recs, e) ==
  \E n \in DOMAIN recs :
    /\ Decides(recs, n, e) /\ ~recs[n].line.no
    /\ \A m \in DOMAIN recs : m > n => ~Decides(recs, m, e)

LEMMA RunMember ==
  ASSUME NEW f, NEW recs, NEW e \in Setting
  PROVE  e \in Run(f, recs, {}) <=> LastSets(recs, e) \/ (e \in f /\ ~Decided(recs, e))
BY DEF Run, LastSets, Decided, Decides

\* To run one sequence of records and then another is to run them as one.
LEMMA RunAppend ==
  ASSUME NEW f, NEW r \in Seq(Record), NEW s \in Seq(Record)
  PROVE  Run(Run(f, r, {}), s, {}) = Run(f, r \o s, {})
<1> DEFINE rs == r \o s
<1>1. /\ Len(r) \in Nat /\ Len(s) \in Nat
      /\ DOMAIN r = 1..Len(r) /\ DOMAIN s = 1..Len(s)
      /\ DOMAIN rs = 1..(Len(r) + Len(s))
      /\ \A n \in DOMAIN r : rs[n] = r[n]
      /\ \A n \in DOMAIN s : rs[Len(r) + n] = s[n]
  OBVIOUS
<1> HIDE DEF rs
<1>2. ASSUME NEW n \in DOMAIN rs
      PROVE  \/ n \in DOMAIN r
             \/ n - Len(r) \in DOMAIN s /\ n = Len(r) + (n - Len(r))
  BY <1>1
<1>3. ASSUME NEW e
      PROVE  /\ \A n \in DOMAIN r : Decides(rs, n, e) <=> Decides(r, n, e)
             /\ \A n \in DOMAIN s : Decides(rs, Len(r) + n, e) <=> Decides(s, n, e)
  BY <1>1 DEF Decides
<1>4. ASSUME NEW e
      PROVE  Decided(rs, e) <=> Decided(r, e) \/ Decided(s, e)
  <2>1. ASSUME Decided(rs, e)
        PROVE  Decided(r, e) \/ Decided(s, e)
    BY <1>2, <1>3, <2>1 DEF Decided
  <2>2. \A n \in DOMAIN r : n \in DOMAIN rs
    BY <1>1
  <2>3. \A n \in DOMAIN s : Len(r) + n \in DOMAIN rs
    BY <1>1
  <2>4. QED
    BY <1>3, <2>1, <2>2, <2>3 DEF Decided
<1>5. ASSUME NEW e, Decided(s, e)
      PROVE  LastSets(rs, e) <=> LastSets(s, e)
  <2>1. ASSUME LastSets(rs, e)
        PROVE  LastSets(s, e)
    <3>1. PICK n \in DOMAIN rs :
            /\ Decides(rs, n, e) /\ ~rs[n].line.no
            /\ \A m \in DOMAIN rs : m > n => ~Decides(rs, m, e)
      BY <2>1 DEF LastSets
    <3>2. PICK k \in DOMAIN s : Decides(s, k, e)
      BY <1>5 DEF Decided
    <3>3. Len(r) + k \in DOMAIN rs /\ Decides(rs, Len(r) + k, e)
      BY <1>1, <1>3, <3>2
    <3>4. n \notin DOMAIN r
      BY <1>1, <3>1, <3>3
    <3>5. n - Len(r) \in DOMAIN s /\ rs[n] = s[n - Len(r)]
      BY <1>1, <1>2, <3>4
    <3>6. Decides(s, n - Len(r), e) /\ ~s[n - Len(r)].line.no
      BY <3>1, <3>5 DEF Decides
    <3>7. ASSUME NEW m \in DOMAIN s, m > n - Len(r)
          PROVE  ~Decides(s, m, e)
      <4>1. Len(r) + m \in DOMAIN rs /\ Len(r) + m > n
        BY <1>1, <3>7
      <4>2. QED
        BY <1>3, <3>1, <4>1
    <3>8. QED
      BY <3>5, <3>6, <3>7 DEF LastSets
  <2>2. ASSUME LastSets(s, e)
        PROVE  LastSets(rs, e)
    <3>1. PICK n \in DOMAIN s :
            /\ Decides(s, n, e) /\ ~s[n].line.no
            /\ \A m \in DOMAIN s : m > n => ~Decides(s, m, e)
      BY <2>2 DEF LastSets
    <3>2. Len(r) + n \in DOMAIN rs /\ rs[Len(r) + n] = s[n]
      BY <1>1
    <3>3. ASSUME NEW m \in DOMAIN rs, m > Len(r) + n
          PROVE  ~Decides(rs, m, e)
      <4>1. m - Len(r) \in DOMAIN s /\ m - Len(r) > n /\ m = Len(r) + (m - Len(r))
        BY <1>1, <3>3
      <4>2. QED
        BY <1>3, <3>1, <4>1
    <3>4. QED
      BY <1>3, <3>1, <3>2, <3>3 DEF LastSets
  <2>3. QED
    BY <2>1, <2>2
<1>6. ASSUME NEW e, ~Decided(s, e)
      PROVE  LastSets(rs, e) <=> LastSets(r, e)
  <2>1. ASSUME NEW n \in DOMAIN rs, Decides(rs, n, e)
        PROVE  n \in DOMAIN r /\ Decides(r, n, e) /\ rs[n] = r[n]
    BY <1>1, <1>2, <1>3, <1>6, <2>1 DEF Decided
  <2>2. \A n \in DOMAIN r : n \in DOMAIN rs
    BY <1>1
  <2>3. QED
    BY <1>1, <1>3, <2>1, <2>2 DEF LastSets
<1>7. ASSUME NEW e \in Setting
      PROVE  e \in Run(Run(f, r, {}), s, {}) <=> e \in Run(f, rs, {})
  <2>1. CASE Decided(s, e)
    BY <1>4, <1>5, <2>1, RunMember
  <2>2. CASE ~Decided(s, e)
    <3>1. ~LastSets(s, e)
      BY <2>2 DEF LastSets, Decided
    <3>2. QED
      BY <1>4, <1>6, <2>2, <3>1, RunMember
  <2>3. QED
    BY <2>1, <2>2
<1>8. Run(Run(f, r, {}), s, {}) \subseteq Setting /\ Run(f, rs, {}) \subseteq Setting
  BY RunType
<1>9. QED
  BY <1>7, <1>8 DEF rs

LEMMA RunNothing ==
  ASSUME NEW f \in SUBSET Setting
  PROVE  Run(f, <<>>, {}) = f
BY DEF Run

\* While nothing has failed and nobody else writes, the configuration is what
\* the records make of the baseline, and sc is what it was until the save.
Replayed ==
  /\ pc = "snapshot" => applied = <<>>
  /\ pc \in {"snapshot", "apply", "save"} => startup = before
  /\ pc = "save" => opt.save
  /\ ~error /\ others = 0 =>
       /\ pc \in {"snapshot", "apply", "save", "done", "raised"}
       /\ cfg = Run(was, applied, {})
       /\ pc = "done" => /\ startup = IF opt.save THEN cfg ELSE before
                         /\ Recorded(Len(batch))

LEMMA ReplayedNext ==
  TypeOK /\ RecordedSoFar /\ Replayed /\ [Next]_vars => Replayed'
<1> SUFFICES ASSUME TypeOK, RecordedSoFar, Replayed, [Next]_vars
             PROVE  Replayed'
  OBVIOUS
<1> USE DEF Replayed
<1>1. others \in Nat /\ next \in Nat \ {0} /\ Len(batch) \in Nat /\ cfg \in SUBSET Setting
  BY DEF TypeOK
<1>2. CASE Snapshot
  BY <1>1, <1>2, RunNothing DEF Snapshot, request, rollback
<1>3. CASE Apply
  <2>1. CASE /\ cfg' = Run(cfg, Records(batch[next]), {})
             /\ applied' = applied \o Records(batch[next])
             /\ UNCHANGED <<error, pc, rollback>>
    <3>1. batch[next] \in Block
      BY <1>3 DEF Apply, TypeOK
    <3>2. Records(batch[next]) \in Seq(Record) /\ applied \in Seq(Record)
      BY <3>1, RecordsType DEF TypeOK
    <3>3. cfg = Run(was, applied, {}) => cfg' = Run(was, applied', {})
      BY <2>1, <3>2, RunAppend
    <3>4. QED
      BY <1>3, <2>1, <3>3 DEF Apply, request
  <2>2. CASE Fail \/ Except
    BY <1>3, <2>2 DEF Apply, Fail, Except, request
  <2>3. QED
    BY <1>3, <2>1, <2>2 DEF Apply
<1>4. CASE Verify
  <2>1. CASE pc' = (IF opt.save THEN "save" ELSE "done") /\ UNCHANGED <<error, rollback>>
    <3>1. Recorded(Len(batch))'
      <4>1. next - 1 = Len(batch)
        BY <1>1, <1>4 DEF Verify, RecordedSoFar
      <4>2. QED
        BY <1>4, <4>1 DEF Verify, RecordedSoFar, Recorded, request
    <3>2. QED
      BY <1>4, <2>1, <3>1 DEF Verify, request
  <2>2. CASE Fail \/ Except
    BY <1>4, <2>2 DEF Verify, Fail, Except, request
  <2>3. QED
    BY <1>4, <2>1, <2>2 DEF Verify
<1>5. CASE Save
  <2>1. CASE startup' = cfg /\ pc' = "done" /\ UNCHANGED <<error, rollback>>
    <3>1. Recorded(Len(batch))'
      BY <1>5 DEF Save, RecordedSoFar, Recorded, request
    <3>2. QED
      BY <1>5, <2>1, <3>1 DEF Save, request
  <2>2. CASE Except
    BY <1>5, <2>2 DEF Save, Except, request
  <2>3. QED
    BY <1>5, <2>1, <2>2 DEF Save
<1>6. CASE Hint \/ RollbackNext \/ RollbackEnd \/ ExceptNext \/ ExceptEnd
  BY <1>6 DEF Hint, RollbackNext, RollbackEnd, ExceptNext, ExceptEnd, request, rollback
<1>7. CASE Other
  BY <1>1, <1>7 DEF Other, request, rollback
<1>8. CASE UNCHANGED vars
  BY <1>8 DEF vars, request, rollback, Recorded
<1>9. QED
  BY <1>2, <1>3, <1>4, <1>5, <1>6, <1>7, <1>8 DEF Next, Call

LEMMA InitRecorded == Init => RecordedSoFar
BY DEF Init, RecordedSoFar, Recorded, TypeOK

LEMMA InitReplayed == Init => Replayed
<1> SUFFICES ASSUME Init
             PROVE  Replayed
  OBVIOUS
<1>1. cfg \in SUBSET Setting
  BY BatchAssumption DEF Init
<1>2. QED
  BY <1>1, RunNothing DEF Init, Replayed

\* For every batch and whatever the router does, as long as nobody else writes:
\* an answer that says ok means that every line is in force, nothing else was
\* changed, and that the batch is saved exactly if that was asked for.
THEOREM OkIsDone == Spec => []OkMeansApplied
<1>1. TypeOK /\ Replayed => OkMeansApplied
  BY DEF Replayed, OkMeansApplied, Finished, Verdict, TypeOK
<1>2. QED
  BY <1>1, InitReplayed, InitType, NextType, InitRecorded, RecordedNext, ReplayedNext,
     PTL DEF Spec

-----------------------------------------------------------------------------
(* A batch is never both saved and reported as failed. *)

SavedAtTheEnd == "lost" \in mishaps \/ startup = before \/ (pc = "done" /\ ~error)

LEMMA SavedAtTheEndNext ==
  RecordedSoFar /\ SavedAtTheEnd /\ [Next]_vars => SavedAtTheEnd'
<1> SUFFICES ASSUME RecordedSoFar, SavedAtTheEnd, [Next]_vars
             PROVE  SavedAtTheEnd'
  OBVIOUS
<1> USE DEF SavedAtTheEnd
<1>1. CASE Save
  BY <1>1 DEF Save, Except, RecordedSoFar, request
<1>2. CASE Snapshot \/ Apply \/ Verify \/ Hint
  BY <1>2 DEF Snapshot, Apply, Verify, Hint, request
<1>3. CASE RollbackNext \/ RollbackEnd \/ ExceptNext \/ ExceptEnd \/ Other
  BY <1>3 DEF RollbackNext, RollbackEnd, ExceptNext, ExceptEnd, Other, request
<1>4. CASE UNCHANGED vars
  BY <1>4 DEF vars, request
<1>5. QED
  BY <1>1, <1>2, <1>3, <1>4 DEF Next, Call

\* Where no answer is lost, the saved configuration of a failed batch is the one
\* there was before it, for every batch, every refusal and any other writers.
THEOREM FailuresStayUnsaved == Spec => []FailureNotSaved
<1>1. Init => SavedAtTheEnd
  BY DEF Init, SavedAtTheEnd
<1>2. SavedAtTheEnd => FailureNotSaved
  BY DEF SavedAtTheEnd, FailureNotSaved, Finished
<1>3. RecordedSoFar /\ SavedAtTheEnd /\ [Next]_vars => SavedAtTheEnd'
  BY SavedAtTheEndNext
<1>4. QED
  BY <1>1, <1>2, <1>3, InitType, NextType, InitRecorded, RecordedNext, PTL DEF Spec


-----------------------------------------------------------------------------
(* A failure that is rolled back restores the configuration. *)

\* What the first k records make of the baseline.
After(k) == Run(was, SubSeq(applied, 1, k), {})

\* While nobody else writes, the rollback of a batch that can be undone is, after
\* each command, where the batch was before the records that are left.
Backwards ==
  /\ pc \in {"snapshot", "apply", "save", "hint"} => todo = {} /\ hints = {} /\ tried = 0
  /\ \A n \in DOMAIN applied : Accepts(applied[n].context, applied[n].line)
  /\ others = 0 /\ Reversible =>
       /\ pc = "hint" => cfg = After(Len(applied))
       /\ pc \in {"undo", "xundo"} \/ (pc = "done" /\ error /\ opt.rollback) =>
            \E k \in 0..Len(applied) :
              /\ todo = 1..k /\ hints = {}
              /\ cfg = After(k)
              /\ pc = "undo" => tried = Len(applied) - k
              /\ pc = "done" => k = 0

\* To run a single record is to execute its line.
LEMMA RunSingle ==
  ASSUME NEW f \in SUBSET Setting, NEW r \in Record
  PROVE  Run(f, <<r>>, {}) = Exec(f, r.context, r.line)
<1> DEFINE recs == <<r>>
           at == Target(r.context, r.line)
<1>1. DOMAIN recs = {1} /\ recs[1] = r
  OBVIOUS
<1>2. at \in Setting
  BY DEF Target, Setting, Record, Line, Place
<1>3. Exec(f, r.context, r.line) = IF r.line.no THEN f \ {at} ELSE f \cup {at}
  BY DEF Exec
<1> HIDE DEF recs, at
<1>4. at = Target(r.context, r.line)
  BY DEF at
<1>5. ASSUME NEW e \in Setting
      PROVE  e \in Run(f, recs, {}) <=> e \in Exec(f, r.context, r.line)
  <2>1. Decided(recs, e) <=> e = at
    BY <1>1, <1>4 DEF Decided, Decides
  <2>2. LastSets(recs, e) <=> e = at /\ ~r.line.no
    BY <1>1, <1>4 DEF LastSets, Decides
  <2>3. QED
    BY <1>3, <2>1, <2>2, RunMember
<1>6. Run(f, recs, {}) \subseteq Setting /\ Exec(f, r.context, r.line) \subseteq Setting
  BY <1>2, <1>3, RunType
<1>7. QED
  BY <1>5, <1>6 DEF recs

LEMMA AfterNone == TypeOK => After(0) = was
<1> SUFFICES ASSUME TypeOK
             PROVE  After(0) = was
  OBVIOUS
<1>1. SubSeq(applied, 1, 0) = <<>>
  BY DEF TypeOK
<1>2. QED
  BY <1>1, RunNothing DEF After, TypeOK

LEMMA AfterAll == TypeOK => After(Len(applied)) = Run(was, applied, {})
<1> SUFFICES ASSUME TypeOK
             PROVE  After(Len(applied)) = Run(was, applied, {})
  OBVIOUS
<1>1. SubSeq(applied, 1, Len(applied)) = applied
  BY DEF TypeOK
<1>2. QED
  BY <1>1 DEF After

LEMMA AfterNext ==
  ASSUME TypeOK, NEW k \in DOMAIN applied
  PROVE  /\ After(k) = Exec(After(k - 1), applied[k].context, applied[k].line)
         /\ After(k) \in SUBSET Setting /\ After(k - 1) \in SUBSET Setting
<1> DEFINE r == SubSeq(applied, 1, k - 1)
           s == <<applied[k]>>
<1>1. applied \in Seq(Record) /\ k \in 1..Len(applied) /\ applied[k] \in Record
  BY DEF TypeOK
<1>2. r \in Seq(Record) /\ s \in Seq(Record)
  BY <1>1
<1>3. SubSeq(applied, 1, k) = r \o s
  <2> DEFINE q == SubSeq(applied, 1, k)
             p == r \o s
  <2>1. q \in Seq(Record) /\ Len(q) = k /\ \A i \in 1..k : q[i] = applied[i]
    BY <1>1
  <2>2. Len(r) = k - 1 /\ \A i \in 1..(k - 1) : r[i] = applied[i]
    BY <1>1
  <2>3. Len(s) = 1 /\ s[1] = applied[k]
    OBVIOUS
  <2> HIDE DEF q, r, s
  <2>4. /\ p \in Seq(Record) /\ Len(p) = Len(r) + Len(s)
        /\ \A i \in 1..Len(p) : p[i] = IF i <= Len(r) THEN r[i] ELSE s[i - Len(r)]
    BY <1>2
  <2> HIDE DEF p
  <2>5. Len(p) = k /\ \A i \in 1..k : p[i] = applied[i]
    <3>1. k \in Nat /\ Len(p) = k
      BY <1>1, <2>2, <2>3, <2>4
    <3>2. \A i \in 1..k : i # k => i \in 1..(k - 1) /\ i <= k - 1
      BY <3>1
    <3>3. ~(k <= k - 1) /\ k - (k - 1) = 1
      BY <3>1
    <3>4. \A i \in 1..(k - 1) : i \in 1..k /\ p[i] = applied[i]
      BY <2>2, <2>4, <3>1
    <3>5. k \in 1..k /\ p[k] = applied[k]
      <4>1. k \in 1..Len(p)
        BY <1>1, <3>1
      <4>2. p[k] = s[k - (k - 1)]
        BY <2>2, <2>4, <3>3, <4>1
      <4>3. QED
        BY <2>3, <3>1, <3>3, <4>1, <4>2
    <3>6. QED
      BY <3>1, <3>2, <3>4, <3>5
  <2>6. p = q
    BY <2>1, <2>4, <2>5
  <2>7. QED
    BY <2>6 DEF p, q
<1> HIDE DEF r, s
<1>4. Run(Run(was, r, {}), s, {}) = Run(was, r \o s, {})
  BY <1>2, RunAppend
<1>5. After(k) \in SUBSET Setting /\ Run(was, r, {}) \in SUBSET Setting
  BY RunType DEF After
<1>6. Run(Run(was, r, {}), s, {}) = Exec(Run(was, r, {}), applied[k].context, applied[k].line)
  BY <1>1, <1>5, RunSingle DEF s
<1>7. After(k - 1) = Run(was, r, {}) /\ After(k) = Run(was, r \o s, {})
  BY <1>3 DEF After, r
<1>8. QED
  BY <1>4, <1>5, <1>6, <1>7

\* The inverse of a line that changed something takes the change back.
LEMMA InverseUndoes ==
  ASSUME NEW f, NEW c, NEW l \in Line, Exec(f, c, l) # f,
         NEW d, Target(d, Inverse(l)) = Target(c, l)
  PROVE  Exec(Exec(f, c, l), d, Inverse(l)) = f
BY DEF Exec, Inverse, Line

\* In a batch that can be undone, the place of the inverse of a record is as good as
\* that of the record.
LEMMA SamePlace ==
  ASSUME TypeOK, Reversible, NEW n \in DOMAIN applied,
         Accepts(applied[n].context, applied[n].line)
  PROVE  LET l == Inverse(applied[n].line)
             c == applied[n].context
         IN  /\ Accepts(c, l) /\ Target(c, l) = Target(c, applied[n].line)
             /\ Accepts(PlaceOf(l), l)
             /\ Target(PlaceOf(l), l) = Target(c, applied[n].line)
<1> DEFINE l == Inverse(applied[n].line)
           c == applied[n].context
           with == {m \in DOMAIN applied :
                      /\ applied[m].context # Top
                      /\ HasInverse(applied[m].line) /\ Inverse(applied[m].line) = l}
           first == CHOOSE m \in with : \A o \in with : m <= o
<1>1. /\ Inner(l) <=> Inner(applied[n].line)
      /\ l.item = applied[n].line.item
  BY DEF Inverse, Inner
<1>2. Accepts(c, l) /\ Target(c, l) = Target(c, applied[n].line)
  BY <1>1 DEF Accepts, Target
<1>3. CASE ~Inner(l)
  BY <1>1, <1>2, <1>3 DEF Accepts, Target
<1>4. CASE Inner(l)
  <2>1. c \in Context /\ c # Top
    BY <1>2, <1>4, BatchAssumption DEF Accepts
  <2>2. n \in Undoable
    BY DEF Reversible
  <2>3. n \in with
    BY <2>1, <2>2 DEF Undoable
  <2>4. with \subseteq Nat
    BY DEF TypeOK
  <2>5. \E m \in with : \A o \in with : m <= o
    BY <2>3, <2>4, SmallestOf
  <2>6. first \in with
    BY <2>5
  <2>7. PlaceOf(l) = applied[first].context
    BY <2>3 DEF PlaceOf
  <2>8. applied[first].context # Top /\ first \in DOMAIN applied
    BY <2>6
  <2> HIDE DEF with, first
  <2>9. applied[first].context = c
    BY <2>1, <2>8 DEF Reversible
  <2>10. QED
    BY <1>2, <2>7, <2>9
<1>5. QED
  BY <1>3, <1>4

\* In a batch that can be undone, nothing but the inverses is to be rolled back.
LEMMA NothingHinted ==
  ASSUME TypeOK, Reversible, cfg = Run(was, applied, {}), baseline = Text(was)
  PROVE  HintLines(Text(cfg)) \subseteq
           {Inverse(applied[n].line) : n \in {m \in DOMAIN applied : HasInverse(applied[m].line)}}
<1> DEFINE inverses ==
             {Inverse(applied[n].line) : n \in {m \in DOMAIN applied : HasInverse(applied[m].line)}}
           text == Text(cfg)
           new == {[no |-> FALSE, item |-> i] : i \in text \ baseline}
           gone == {[no |-> FALSE, item |-> i] : i \in (baseline \ text) \ Peers}
<1>1. \A n \in DOMAIN applied : /\ HasInverse(applied[n].line) /\ Inverse(applied[n].line) \in inverses
                                /\ applied[n].line \in Line
  BY AppliedType DEF Reversible, Undoable
<1>2. \A e \in Setting : e \in cfg <=> LastSets(applied, e) \/ (e \in was /\ ~Decided(applied, e))
  BY RunMember
<1>3. ASSUME NEW i \in text \ baseline
      PROVE  Inverse([no |-> FALSE, item |-> i]) \in inverses
  <2>1. PICK e \in cfg : e[2] = i
    BY DEF Text
  <2>2. e \in Setting /\ e \notin was
    BY <2>1 DEF Text, TypeOK
  <2>3. PICK n \in DOMAIN applied : Decides(applied, n, e) /\ ~applied[n].line.no
    BY <1>2, <2>1, <2>2 DEF LastSets
  <2>4. applied[n].line.item = i
    BY <2>1, <2>3 DEF Decides, Target
  <2>5. applied[n].line = [no |-> FALSE, item |-> i]
    BY <1>1, <2>3, <2>4 DEF Line
  <2>6. QED
    BY <1>1, <2>5
<1>4. ASSUME NEW i \in baseline \ text
      PROVE  [no |-> FALSE, item |-> i] \in inverses
  <2>1. PICK e \in was : e[2] = i
    BY DEF Text
  <2>2. e \in Setting /\ e \notin cfg
    BY <2>1 DEF Text, TypeOK
  <2>3. Decided(applied, e) /\ ~LastSets(applied, e)
    BY <1>2, <2>1, <2>2
  <2>4. PICK n \in DOMAIN applied :
          Decides(applied, n, e) /\ \A m \in DOMAIN applied : Decides(applied, m, e) => m <= n
    <3> DEFINE S == {n \in DOMAIN applied : Decides(applied, n, e)}
    <3>1. S # {} /\ S \subseteq 1..Len(applied) /\ Len(applied) \in Nat
      BY <2>3 DEF Decided, TypeOK
    <3>2. \E n \in S : \A m \in S : m <= n
      <4> DEFINE T == {Len(applied) - n : n \in S}
      <4>1. T \subseteq Nat /\ T # {}
        BY <3>1
      <4>2. PICK d \in T : \A x \in T : d <= x
        BY <4>1, SmallestOf
      <4>3. PICK n \in S : d = Len(applied) - n
        OBVIOUS
      <4> HIDE DEF S
      <4>4. \A m \in S : Len(applied) - n <= Len(applied) - m
        BY <4>2, <4>3
      <4>5. \A m \in S : m <= n
        BY <3>1, <4>4
      <4>6. QED
        BY <4>5
    <3>3. QED
      BY <3>2
  <2>5. applied[n].line.no
    <3>1. \A m \in DOMAIN applied : m > n => ~Decides(applied, m, e)
      BY <2>4 DEF TypeOK
    <3>2. QED
      BY <2>3, <2>4, <3>1 DEF LastSets
  <2>6. applied[n].line.item = i
    BY <2>1, <2>4 DEF Decides, Target
  <2>7. Inverse(applied[n].line) = [no |-> FALSE, item |-> i]
    BY <1>1, <2>5, <2>6 DEF Inverse, Line
  <2>8. QED
    BY <1>1, <2>7
<1> HIDE DEF inverses, text
<1>5. gone \subseteq inverses
  BY <1>4
<1>6. \A l \in new : Inverse(l) \in inverses
  BY <1>3
<1>7. HintLines(text) \subseteq inverses
  BY <1>5, <1>6 DEF HintLines
<1>8. QED
  BY <1>7 DEF inverses, text

\* The block that fails leaves nothing behind.
LEMMA RefusedLeaves ==
  ASSUME TypeOK, NEW b \in Block, Len(b.lines) = 1,
         NEW refused \in SUBSET DOMAIN b.lines, refused # {}
  PROVE  Run(cfg, Records(b), refused) = cfg
<1>1. refused = {1} /\ DOMAIN b.lines = {1}
  BY DEF Block
<1>2. DOMAIN Records(b) = {1}
  BY <1>1, RecordsType
<1>3. QED
  BY <1>1, <1>2 DEF Run, TypeOK

\* One command of a rollback goes one record back.
LEMMA OneBack ==
  ASSUME TypeOK, Reversible, {"refuseUndo", "lost"} \cap mishaps = {},
         NEW k \in DOMAIN applied, cfg = After(k),
         Accepts(applied[k].context, applied[k].line),
         NEW c, c \in {applied[k].context, PlaceOf(Inverse(applied[k].line))},
         Undo(c, Inverse(applied[k].line))
  PROVE  cfg' = After(k - 1)
<1> DEFINE l == Inverse(applied[k].line)
           d == applied[k].context
<1>1. Accepts(c, l) /\ Target(c, l) = Target(d, applied[k].line)
  BY SamePlace
<1>2. cfg' = Exec(cfg, c, l)
  BY <1>1 DEF Undo
<1>3. After(k) = Exec(After(k - 1), d, applied[k].line)
  BY AfterNext
<1>4. Exec(After(k - 1), d, applied[k].line) # After(k - 1)
  BY DEF Reversible, After
<1>5. applied[k].line \in Line
  BY AppliedType
<1>6. Exec(Exec(After(k - 1), d, applied[k].line), c, l) = After(k - 1)
  BY <1>1, <1>4, <1>5, InverseUndoes
<1>7. QED
  BY <1>2, <1>3, <1>6

LEMMA ReversibleFrame ==
  ASSUME UNCHANGED <<batch, opt, applied, was>>
  PROVE  /\ Reversible' <=> Reversible
         /\ \A k : After(k)' = After(k)
BY DEF Reversible, Undoable, Permitted, After

\* The handler of an exception starts with all records, or with none.
LEMMA ExceptBackwards ==
  ASSUME TypeOK, Backwards, Except, pc \in {"apply", "save"},
         UNCHANGED <<batch, opt, applied, was, cfg>>, cfg = Run(was, applied, {}),
         others' = 0 => others = 0
  PROVE  Backwards'
<1>1. /\ todo = {} /\ hints = {} /\ tried = 0
      /\ \A n \in DOMAIN applied : Accepts(applied[n].context, applied[n].line)
  BY DEF Backwards
<1>2. Reversible' <=> Reversible
  BY ReversibleFrame
<1>3. \A k : After(k)' = After(k)
  BY ReversibleFrame
<1>4. cfg = After(Len(applied))
  BY AfterAll
<1>5. Len(applied) \in Nat /\ DOMAIN applied = 1..Len(applied)
  BY DEF TypeOK
<1>6. CASE opt.rollback /\ applied # <<>>
  <2>1. pc' = "xundo" /\ todo' = Undoable /\ hints' = {}
    BY <1>1, <1>6 DEF Except
  <2>2. Reversible => todo' = 1..Len(applied)
    BY <1>5, <2>1 DEF Reversible
  <2>3. Reversible' =>
          \E k \in 0..Len(applied') : todo' = 1..k /\ hints' = {} /\ cfg' = After(k)'
    <3>1. PICK k \in Nat : k = Len(applied)
      BY <1>5
    <3>2. k \in 0..Len(applied') /\ (Reversible' => todo' = 1..k)
      BY <1>2, <2>2, <3>1
    <3>3. cfg' = After(k)'
      BY <1>3, <1>4, <3>1
    <3>4. QED
      BY <2>1, <3>1, <3>2, <3>3
  <2>4. QED
    BY <1>1, <2>1, <2>3 DEF Backwards
<1>7. CASE opt.rollback /\ applied = <<>>
  <2>1. pc' = "done" /\ todo' = {} /\ hints' = {}
    BY <1>1, <1>7 DEF Except
  <2>2. Len(applied) = 0 /\ Len(applied') = 0
    BY <1>7
  <2>3. cfg' = After(0)' /\ todo' = 1..0 /\ 0 \in 0..Len(applied')
    BY <1>3, <1>4, <2>1, <2>2
  <2>4. QED
    BY <1>1, <2>1, <2>3 DEF Backwards
<1>8. CASE ~opt.rollback
  <2>1. pc' = "done" /\ opt' = opt
    BY <1>8 DEF Except
  <2>2. QED
    BY <1>1, <1>8, <2>1 DEF Backwards
<1>9. QED
  BY <1>6, <1>7, <1>8

\* A failure that is reported leaves all records to be rolled back.
LEMMA FailBackwards ==
  ASSUME TypeOK, Backwards, Fail, pc = "apply",
         UNCHANGED <<batch, opt, applied, was>>, cfg = Run(was, applied, {}),
         Reversible => cfg' = cfg, others' = 0 => others = 0
  PROVE  Backwards'
<1>1. /\ todo = {} /\ hints = {} /\ tried = 0
      /\ \A n \in DOMAIN applied : Accepts(applied[n].context, applied[n].line)
  BY DEF Backwards
<1>2. /\ Reversible' <=> Reversible
      /\ \A k : After(k)' = After(k)
  BY ReversibleFrame
<1>3. Reversible' => cfg' = After(Len(applied))'
  BY <1>2, AfterAll
<1>4. UNCHANGED <<todo, hints, tried>> /\ pc' = IF opt.rollback THEN "hint" ELSE "done"
  BY DEF Fail, rollback
<1>5. QED
  BY <1>1, <1>3, <1>4 DEF Backwards

LEMMA SnapshotBackwards == TypeOK /\ Replayed /\ Backwards /\ Snapshot => Backwards'
<1> SUFFICES ASSUME TypeOK, Replayed, Backwards, Snapshot
             PROVE  Backwards'
  OBVIOUS
<1>1. /\ UNCHANGED <<todo, hints, tried, applied>> /\ pc' \in {"apply", "raised"}
      /\ pc = "snapshot"
  BY DEF Snapshot, rollback
<1>2. QED
  BY <1>1 DEF Backwards

LEMMA ApplyBackwards ==
  ASSUME {"refuseUndo", "lost"} \cap mishaps = {},
         TypeOK, RecordedSoFar, Replayed, Backwards, Apply
  PROVE  Backwards'
<1> DEFINE b == batch[next]
           bad == {n \in DOMAIN b.lines : ~Accepts(b.context, b.lines[n])}
<1>1. /\ pc = "apply" /\ ~error /\ next <= Len(batch)
      /\ UNCHANGED <<batch, opt, was, others>>
  BY DEF Apply, RecordedSoFar, request
<1>2. b \in Block /\ next \in DOMAIN batch
  BY <1>1 DEF TypeOK
<1>3. CASE /\ bad = {}
           /\ applied' = applied \o Records(b)
           /\ UNCHANGED <<error, pc, rollback>>
  <2>1. Records(b) \in Seq(Record) /\ applied \in Seq(Record)
    BY <1>2, RecordsType DEF TypeOK
  <2>2. \A n \in DOMAIN Records(b) :
          Accepts(Records(b)[n].context, Records(b)[n].line)
    BY <1>3 DEF Records
  <2>3. \A n \in DOMAIN applied : Accepts(applied[n].context, applied[n].line)
    BY DEF Backwards
  <2> DEFINE s == Records(b)
  <2> HIDE DEF s
  <2>4. ASSUME NEW n \in DOMAIN (applied \o s)
        PROVE  Accepts((applied \o s)[n].context, (applied \o s)[n].line)
    <3>1. s \in Seq(Record)
      BY <2>1 DEF s
    <3>2. \/ n \in DOMAIN applied /\ (applied \o s)[n] = applied[n]
          \/ n - Len(applied) \in DOMAIN s /\ (applied \o s)[n] = s[n - Len(applied)]
      BY <2>1, <3>1
    <3>3. QED
      BY <2>2, <2>3, <3>2 DEF s
  <2>5. \A n \in DOMAIN applied' : Accepts(applied'[n].context, applied'[n].line)
    BY <1>3, <2>4 DEF s
  <2>6. UNCHANGED <<todo, hints, tried, pc>>
    BY <1>3 DEF rollback
  <2>7. QED
    BY <1>1, <2>5, <2>6 DEF Backwards
<1>4. CASE /\ \E refused \in SUBSET DOMAIN b.lines :
                refused # {} /\ cfg' = Run(cfg, Records(b), refused)
           /\ Fail
           /\ UNCHANGED applied
  <2>1. Reversible => cfg' = cfg
    BY <1>2, <1>4, RefusedLeaves DEF Reversible
  <2>2. CASE others = 0
    <3>1. cfg = Run(was, applied, {})
      BY <1>1, <2>2 DEF Replayed
    <3>2. QED
      BY <1>1, <1>4, <2>1, <3>1, FailBackwards
  <2>3. CASE others # 0
    <3>1. /\ UNCHANGED <<todo, hints, tried>>
          /\ pc' \in {"hint", "done"} /\ others' # 0
      BY <1>1, <1>4, <2>3 DEF Fail, rollback
    <3>2. QED
      BY <1>1, <1>4, <3>1 DEF Backwards
  <2>4. QED
    BY <2>2, <2>3
<1>5. QED
  BY <1>3, <1>4 DEF Apply

LEMMA VerifyBackwards ==
  ASSUME {"refuseUndo", "lost"} \cap mishaps = {},
         TypeOK, RecordedSoFar, Replayed, Backwards, Verify
  PROVE  Backwards'
<1>1. /\ pc = "apply" /\ ~error
      /\ UNCHANGED <<batch, opt, was, others, cfg, applied>>
  BY DEF Verify, RecordedSoFar, request
<1>2. CASE /\ pc' \in {"save", "done"}
           /\ UNCHANGED <<error, rollback>>
  <2>1. UNCHANGED <<todo, hints, tried>> /\ ~error'
    BY <1>1, <1>2 DEF rollback
  <2>2. QED
    BY <1>1, <1>2, <2>1 DEF Backwards
<1>3. CASE Fail
  <2>1. CASE others = 0
    <3>1. cfg = Run(was, applied, {})
      BY <1>1, <2>1 DEF Replayed
    <3>2. QED
      BY <1>1, <1>3, <3>1, FailBackwards
  <2>2. CASE others # 0
    <3>1. /\ UNCHANGED <<todo, hints, tried>>
          /\ pc' \in {"hint", "done"} /\ others' # 0
      BY <1>1, <1>3, <2>2 DEF Fail, rollback
    <3>2. QED
      BY <1>1, <3>1 DEF Backwards
  <2>3. QED
    BY <2>1, <2>2
<1>4. QED
  BY <1>2, <1>3 DEF Verify

LEMMA SaveBackwards ==
  ASSUME {"refuseUndo", "lost"} \cap mishaps = {},
         TypeOK, RecordedSoFar, Replayed, Backwards, Save
  PROVE  Backwards'
<1>1. /\ pc = "save" /\ ~error
      /\ UNCHANGED <<batch, opt, was, others, cfg, applied>>
  BY DEF Save, RecordedSoFar, request
<1>2. CASE /\ pc' = "done"
           /\ UNCHANGED <<error, rollback>>
  <2>1. UNCHANGED <<todo, hints, tried>> /\ ~error'
    BY <1>1, <1>2 DEF rollback
  <2>2. QED
    BY <1>1, <1>2, <2>1 DEF Backwards
<1>3. CASE Except
  <2>1. CASE others = 0
    <3>1. cfg = Run(was, applied, {})
      BY <1>1, <2>1 DEF Replayed
    <3>2. QED
      BY <1>1, <1>3, <3>1, ExceptBackwards
  <2>2. CASE others # 0
    <3>1. pc' \in {"xundo", "done"} /\ others' # 0
      BY <1>1, <1>3, <2>2 DEF Except
    <3>2. QED
      BY <1>1, <3>1 DEF Backwards
  <2>3. QED
    BY <2>1, <2>2
<1>4. QED
  BY <1>2, <1>3 DEF Save

LEMMA HintBackwards ==
  ASSUME {"refuseUndo", "lost"} \cap mishaps = {}, TypeOK, OwnItems, Backwards, Hint
  PROVE  Backwards'
<1>1. /\ pc = "hint" /\ pc' = "undo" /\ todo' = Undoable /\ tried' = tried
      /\ UNCHANGED <<batch, opt, was, others, cfg, applied>>
      /\ hints' = HintLines(Text(cfg)) \
           {Inverse(applied[n].line) : n \in {m \in DOMAIN applied : HasInverse(applied[m].line)}}
  BY DEF Hint, request
<1>2. \A n \in DOMAIN applied' : Accepts(applied'[n].context, applied'[n].line)
  BY <1>1 DEF Backwards
<1>3. ASSUME others' = 0, Reversible'
      PROVE  \E k \in 0..Len(applied') :
               /\ todo' = 1..k /\ hints' = {} /\ cfg' = After(k)'
               /\ tried' = Len(applied') - k
  <2>1. Reversible /\ others = 0 /\ \A k : After(k)' = After(k)
    BY <1>1, <1>3, ReversibleFrame
  <2>2. PICK k \in Nat : k = Len(applied)
    BY DEF TypeOK
  <2>3. cfg = After(k) /\ cfg = Run(was, applied, {}) /\ baseline = Text(was) /\ tried = 0
    BY <1>1, <2>1, <2>2, AfterAll DEF Backwards, OwnItems
  <2>4. hints' = {}
    BY <1>1, <2>1, <2>3, NothingHinted
  <2>5. todo' = 1..k
    BY <1>1, <2>1, <2>2 DEF Reversible, TypeOK
  <2>6. k \in 0..Len(applied') /\ tried' = Len(applied') - k
    BY <1>1, <2>2, <2>3
  <2>7. cfg' = After(k)'
    BY <1>1, <2>1, <2>3
  <2>8. QED
    BY <2>4, <2>5, <2>6, <2>7
<1>4. QED
  BY <1>1, <1>2, <1>3 DEF Backwards

\* The last record of those that are left.
LEMMA LastOf ==
  ASSUME NEW k \in Nat, todo = 1..k, NEW n \in todo, IsLast(n)
  PROVE  n = k /\ k # 0 /\ todo \ {n} = 1..(k - 1)
<1>1. n \in 1..k /\ k \in 1..k
  OBVIOUS
<1>2. k <= n
  BY <1>1 DEF IsLast
<1>3. n = k
  BY <1>1, <1>2
<1>4. QED
  BY <1>1, <1>3

LEMMA UndoBackwards ==
  ASSUME {"refuseUndo", "lost"} \cap mishaps = {}, TypeOK, Backwards,
         RollbackNext \/ ExceptNext
  PROVE  Backwards'
<1>1. /\ pc \in {"undo", "xundo"} /\ pc' = pc
      /\ UNCHANGED <<batch, opt, was, others, applied>>
  BY DEF RollbackNext, ExceptNext, request
<1>2. \A n \in DOMAIN applied' : Accepts(applied'[n].context, applied'[n].line)
  BY <1>1 DEF Backwards
<1>3. ASSUME others' = 0, Reversible'
      PROVE  \E k \in 0..Len(applied') :
               /\ todo' = 1..k /\ hints' = {} /\ cfg' = After(k)'
               /\ pc = "undo" => tried' = Len(applied') - k
  <2>1. Reversible /\ others = 0 /\ \A k : After(k)' = After(k)
    BY <1>1, <1>3, ReversibleFrame
  <2>2. PICK k \in 0..Len(applied) :
          /\ todo = 1..k /\ hints = {} /\ cfg = After(k)
          /\ pc = "undo" => tried = Len(applied) - k
    BY <1>1, <2>1 DEF Backwards
  <2>3. k \in Nat /\ Len(applied) \in Nat /\ DOMAIN applied = 1..Len(applied)
    BY <2>2 DEF TypeOK
  <2>4. PICK n \in todo :
          /\ IsLast(n) /\ todo' = todo \ {n}
          /\ \E c \in {applied[n].context, PlaceOf(Inverse(applied[n].line))} :
               Undo(c, Inverse(applied[n].line))
    <3>1. CASE RollbackNext
      BY <2>2, <3>1 DEF RollbackNext
    <3>2. CASE ExceptNext
      <4>1. PICK n \in todo :
              /\ IsLast(n) /\ todo' = todo \ {n}
              /\ \/ Undo(applied[n].context, Inverse(applied[n].line))
                 \/ ~Accepts(applied[n].context, Inverse(applied[n].line))
        BY <3>2 DEF ExceptNext
      <4>2. n \in DOMAIN applied
        BY DEF TypeOK
      <4>3. Accepts(applied[n].context, Inverse(applied[n].line))
        BY <2>1, <4>2, SamePlace DEF Backwards
      <4>4. QED
        BY <4>1, <4>3
    <3>3. QED
      BY <3>1, <3>2
  <2>5. n = k /\ k # 0 /\ todo' = 1..(k - 1)
    BY <2>2, <2>3, <2>4, LastOf
  <2>6. k \in DOMAIN applied /\ Accepts(applied[k].context, applied[k].line)
    BY <2>2, <2>3, <2>5 DEF Backwards
  <2>7. cfg' = After(k - 1)
    BY <2>1, <2>2, <2>4, <2>5, <2>6, OneBack
  <2>8. hints' = {}
    BY <2>2 DEF RollbackNext, ExceptNext, Undo
  <2>9. pc = "undo" => tried' = Len(applied) - (k - 1)
    <3>1. pc = "undo" => tried' = tried + 1
      BY DEF RollbackNext, ExceptNext
    <3>2. QED
      BY <2>2, <2>3, <3>1
  <2>10. PICK m \in Nat : m = k - 1
    BY <2>3, <2>5
  <2>11. m \in 0..Len(applied') /\ cfg' = After(m)'
    BY <1>1, <2>1, <2>2, <2>3, <2>7, <2>10
  <2>12. QED
    BY <1>1, <2>5, <2>8, <2>9, <2>10, <2>11
<1>4. QED
  BY <1>1, <1>2, <1>3 DEF Backwards

LEMMA EndBackwards ==
  ASSUME TypeOK, Backwards, RollbackEnd \/ ExceptEnd
  PROVE  Backwards'
<1>1. /\ pc \in {"undo", "xundo"} /\ pc' = "done"
      /\ UNCHANGED <<batch, opt, was, others, applied, todo, hints, cfg, tried>>
  BY DEF RollbackEnd, ExceptEnd, request, rollback
<1>2. \A n \in DOMAIN applied' : Accepts(applied'[n].context, applied'[n].line)
  BY <1>1 DEF Backwards
<1>3. ASSUME others' = 0, Reversible'
      PROVE  todo' = 1..0 /\ hints' = {} /\ cfg' = After(0)' /\ 0 \in 0..Len(applied')
  <2>1. Reversible /\ others = 0 /\ \A k : After(k)' = After(k)
    BY <1>1, <1>3, ReversibleFrame
  <2>2. PICK k \in 0..Len(applied) :
          /\ todo = 1..k /\ hints = {} /\ cfg = After(k)
          /\ pc = "undo" => tried = Len(applied) - k
    BY <1>1, <2>1 DEF Backwards
  <2>3. k \in Nat /\ Len(applied) \in Nat /\ Len(applied) <= UndoLimit /\ UndoLimit \in Nat
    BY <2>1, <2>2, BatchAssumption DEF TypeOK, Reversible
  <2>4. k = 0
    <3>1. CASE todo = {}
      BY <2>2, <2>3, <3>1
    <3>2. CASE pc = "undo" /\ tried = UndoLimit
      BY <2>2, <2>3, <3>2
    <3>3. QED
      BY <3>1, <3>2 DEF RollbackEnd, ExceptEnd
  <2>5. QED
    BY <1>1, <2>1, <2>2, <2>3, <2>4
<1>4. QED
  BY <1>1, <1>2, <1>3 DEF Backwards

\* Where the router refuses no rollback command and loses nothing.
CalmBackwards == {"refuseUndo", "lost"} \cap mishaps = {} => Backwards

LEMMA MishapsStay == [Next]_vars => mishaps' = mishaps
BY DEF Next, Call, Snapshot, Apply, Verify, Save, Hint, RollbackNext, RollbackEnd,
       ExceptNext, ExceptEnd, Other, vars, request

LEMMA BackwardsNext ==
  TypeOK /\ RecordedSoFar /\ Replayed /\ OwnItems /\ CalmBackwards /\ [Next]_vars
    => CalmBackwards'
<1> SUFFICES ASSUME TypeOK, RecordedSoFar, Replayed, OwnItems, Backwards, [Next]_vars,
                    {"refuseUndo", "lost"} \cap mishaps = {}
             PROVE  Backwards'
  BY MishapsStay DEF CalmBackwards
<1>1. CASE Snapshot
  BY <1>1, SnapshotBackwards
<1>2. CASE Apply
  BY <1>2, ApplyBackwards
<1>3. CASE Verify
  BY <1>3, VerifyBackwards
<1>4. CASE Save
  BY <1>4, SaveBackwards
<1>5. CASE Hint
  BY <1>5, HintBackwards
<1>6. CASE RollbackNext \/ ExceptNext
  BY <1>6, UndoBackwards
<1>7. CASE RollbackEnd \/ ExceptEnd
  BY <1>7, EndBackwards
<1>8. CASE Other
  <2>1. /\ UNCHANGED <<applied, pc, todo, hints, tried>>
        /\ others' # 0
    BY <1>8 DEF Other, rollback, TypeOK
  <2>2. QED
    BY <2>1 DEF Backwards
<1>9. CASE UNCHANGED vars
  <2>1. /\ UNCHANGED <<batch, opt, was, others, applied, todo, hints, cfg, tried>>
        /\ UNCHANGED <<pc, error>>
    BY <1>9 DEF vars, request, rollback
  <2>2. (Reversible' <=> Reversible) /\ \A k : After(k)' = After(k)
    BY <2>1, ReversibleFrame
  <2>3. QED
    BY <2>1, <2>2 DEF Backwards
<1>10. QED
  BY <1>1, <1>2, <1>3, <1>4, <1>5, <1>6, <1>7, <1>8, <1>9 DEF Next, Call

\* A failed batch of undoable lines leaves the running configuration as it found
\* it, whichever line, check or save failed and whichever of the two rollbacks ran,
\* as long as the router refuses no rollback command and no answer is lost.
THEOREM FailureIsUndone == Spec => []FailureRestores
<1>1. Init => OwnItems /\ CalmBackwards
  BY DEF Init, OwnItems, Backwards, CalmBackwards, Accepts
<1>2. TypeOK /\ CalmBackwards => FailureRestores
  <2> SUFFICES ASSUME TypeOK, Backwards, Finished, error, opt.rollback, Reversible, others = 0
               PROVE  cfg = was
    BY DEF FailureRestores, CalmBackwards
  <2>1. cfg = After(0)
    BY DEF Backwards, Finished
  <2>2. QED
    BY <2>1, AfterNone
<1>3. TypeOK /\ RecordedSoFar /\ Replayed /\ OwnItems /\ CalmBackwards /\ [Next]_vars
        => CalmBackwards'
  BY BackwardsNext
<1>4. QED
  BY <1>1, <1>2, <1>3, InitType, NextType, InitRecorded, RecordedNext, InitReplayed,
     ReplayedNext, OwnNext, PTL DEF Spec
=============================================================================
