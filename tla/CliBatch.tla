------------------------------ MODULE CliBatch ------------------------------
(***************************************************************************)
(* apply_cli_batch of tools/txn.py (also behind rci_parse_write of cli.py  *)
(* and add_acl_rule / remove_acl_rule of firewall.py): take a baseline of  *)
(* the running configuration, send the CLI lines block by block, verify,   *)
(* roll back when something failed and that was asked for, save when       *)
(* nothing failed, and answer with a verdict.                              *)
(*                                                                         *)
(* A line sets or unsets an item of the configuration; what matters of its *)
(* text is how _inverse_cli and _is_destructive_cli classify it, which is  *)
(* the family of its item:                                                 *)
(*   Routes  `ip route', `dns-proxy route', `access-list': top level, the  *)
(*           line and its `no' form are inverses of each other;            *)
(*   Tunes   `ip tcp adjust-mss': inside an interface, the line has an     *)
(*           inverse and its `no' form has none;                           *)
(*   Peers   `interface WireguardN peer ...' on one line: its inverse      *)
(*           starts with `no interface' and counts as destructive;         *)
(*   Opaque  any other line inside an interface: no inverse.               *)
(* One action is one request to the router.  The lines of a request are    *)
(* executed one by one; one that is refused does not stop the others.      *)
(***************************************************************************)
EXTENDS Naturals, Sequences

CONSTANTS Context,      \* interfaces a block may enter
          Top,          \* the top level of the CLI
          Routes, Tunes, Peers, Opaque,  \* the items, by family
          Batches,      \* the batches that may be asked for, in blocks
          Options,      \* the options that may be given with one
          InitConfigs,  \* what the running configuration may hold before
          OtherItems,   \* routes other calls may add or remove meanwhile
          MaxOther,     \* bound: how often they do
          UndoLimit,    \* how many rollback commands are tried (50)
          Faults        \* the sets of failures that may happen together

FaultKinds == {"refuse",      \* the router refuses a line of a block
               "verify",      \* a verify command reports an error
               "refuseUndo",  \* the router refuses a rollback command
               "refuseSave",  \* the router refuses to save
               "lost"}        \* a request, or its answer, is lost

Place == Context \cup {Top}
Item == Routes \cup Tunes \cup Peers \cup Opaque
Setting == Place \X Item
Line == [no : BOOLEAN, item : Item]
Record == [context : Place, line : Line]
Block == [context : Place, lines : Seq(Line)]
Option == [save : BOOLEAN, rollback : BOOLEAN, allow : BOOLEAN, confirm : BOOLEAN]

ASSUME BatchAssumption ==
  /\ Top \notin Context
  /\ Batches \subseteq Seq(Block)
  /\ Options \subseteq Option
  /\ InitConfigs \subseteq SUBSET Setting
  /\ OtherItems \subseteq Routes
  /\ MaxOther \in Nat
  /\ UndoLimit \in Nat
  /\ Faults \subseteq SUBSET FaultKinds

VARIABLES cfg,       \* running configuration: which item is set where
          startup,   \* saved configuration
          batch,     \* the blocks of the call
          opt,       \* its options
          pc,        \* what the call does next
          next,      \* the block to send next
          baseline,  \* the items in the text of the baseline snapshot
          applied,   \* the records of the lines in blocks that succeeded
          error,     \* some step failed
          todo,      \* the applied records whose inverses are still to be run
          hints,     \* lines from the baseline diff still to be run
          tried,     \* rollback commands run so far
          manual,    \* `needs_manual'
          undone     \* `rolled_back'

\* History, read by the properties only.
VARIABLES was,       \* cfg at the baseline
          before,    \* startup at the start
          destroyed, \* a rollback ran a destructive command
          others,    \* how often other calls wrote
          mishaps    \* the failures that may happen in this behaviour

request == <<batch, opt, before, mishaps>>
rollback == <<todo, hints, tried, manual, undone, destroyed>>
vars == <<cfg, startup, pc, next, baseline, applied, error, was, others, request,
          rollback>>

-----------------------------------------------------------------------------
(* Lines. *)

HasInverse(l) == l.item \in Routes \/ (~l.no /\ l.item \in Tunes \cup Peers)
Inverse(l) == [no |-> ~l.no, item |-> l.item]

\* `no interface ...'.
Destructive(l) == l.no /\ l.item \in Peers

\* Mutant of Permitted: allow_destructive_rollback alone is enough.
PermittedByAllow(l) == Destructive(l) => opt.allow
Permitted(l) == Destructive(l) => opt.allow /\ opt.confirm

\* An item of an interface can only be set or unset inside one.
Inner(l) == l.item \in Tunes \cup Opaque
Accepts(c, l) == Inner(l) => c \in Context
Target(c, l) == <<IF Inner(l) THEN c ELSE Top, l.item>>

Exec(f, c, l) == IF l.no THEN f \ {Target(c, l)} ELSE f \cup {Target(c, l)}

Records(b) == [n \in DOMAIN b.lines |-> [context |-> b.context, line |-> b.lines[n]]]

\* What running the records, but for the refused ones, makes of f: of the
\* lines about a setting the last one decides.
Run(f, recs, refused) ==
  LET about(n, e) == n \notin refused /\ Target(recs[n].context, recs[n].line) = e
      decided(e) == \E n \in DOMAIN recs : about(n, e)
      set(e) == \E n \in DOMAIN recs :
                  /\ about(n, e) /\ ~recs[n].line.no
                  /\ \A m \in DOMAIN recs : m > n => ~about(m, e)
  IN  {e \in Setting : set(e) \/ (e \in f /\ ~decided(e))}

\* The lines of `show running-config', without the place they stand in.
Text(f) == {e[2] : e \in f}

\* Mutant of HintLines: every line of the configuration is taken for new.
HintLinesOfAll(text) ==
  LET new == {[no |-> FALSE, item |-> i] : i \in text}
  IN  {Inverse(l) : l \in {n \in new : HasInverse(n) /\ ~Destructive(Inverse(n))}}

\* rollback_hint: undo the lines that are new since the baseline, and set
\* again, as they read there, those that have gone (not the peers, which do
\* not read as one line and are refused at the top level).
HintLines(text) ==
  LET new == {[no |-> FALSE, item |-> i] : i \in text \ baseline}
      gone == {[no |-> FALSE, item |-> i] : i \in (baseline \ text) \ Peers}
  IN  {Inverse(l) : l \in {n \in new : HasInverse(n) /\ ~Destructive(Inverse(n))}}
        \cup gone

\* The applied records that can and may be undone, and whether some may not.
Undoable == {n \in DOMAIN applied :
               HasInverse(applied[n].line) /\ Permitted(Inverse(applied[n].line))}
Denied == \E n \in DOMAIN applied :
            HasInverse(applied[n].line) /\ ~Permitted(Inverse(applied[n].line))

\* Mutant of PlaceOf: every rollback command runs at the top level.
PlaceOfTop(l) == Top

\* The place a rollback command runs in: that of the first applied record of
\* an interface with this inverse, whichever record the command is meant for.
PlaceOf(l) ==
  LET with == {n \in DOMAIN applied :
                 /\ applied[n].context # Top
                 /\ HasInverse(applied[n].line) /\ Inverse(applied[n].line) = l}
  IN  IF with = {} THEN Top
      ELSE applied[CHOOSE n \in with : \A m \in with : n <= m].context

\* Mutant of IsLast: always the line applied last.
IsLastApplied(n) == n = Len(applied)

IsLast(n) == n \in todo /\ \A m \in todo : m <= n

-----------------------------------------------------------------------------
Phases == {"snapshot", "apply", "save", "hint", "undo", "xundo", "done", "raised"}

TypeOK ==
  /\ cfg \subseteq Setting
  /\ startup \subseteq Setting
  /\ batch \in Seq(Block)
  /\ opt \in Option
  /\ pc \in Phases
  /\ next \in Nat \ {0}
  /\ baseline \subseteq Item
  /\ applied \in Seq(Record)
  /\ error \in BOOLEAN
  /\ todo \subseteq DOMAIN applied
  /\ hints \subseteq Line
  /\ tried \in 0..UndoLimit
  /\ manual \in BOOLEAN
  /\ undone \in BOOLEAN
  /\ was \subseteq Setting
  /\ before \subseteq Setting
  /\ mishaps \in SUBSET FaultKinds
  /\ destroyed \in BOOLEAN
  /\ others \in 0..MaxOther

Init ==
  /\ cfg \in InitConfigs
  /\ startup = cfg /\ was = cfg /\ before = cfg
  /\ batch \in Batches
  /\ opt \in Options
  /\ mishaps \in Faults
  /\ pc = "snapshot"
  /\ next = 1
  /\ baseline = {}
  /\ applied = <<>>
  /\ todo = {} /\ hints = {}
  /\ tried = 0 /\ others = 0
  /\ error = FALSE /\ manual = FALSE /\ undone = FALSE /\ destroyed = FALSE

\* snapshot_config: the baseline.  When it cannot be read the call raises, and
\* nothing was sent.
Snapshot ==
  /\ pc = "snapshot"
  /\ \/ pc' = "apply" /\ baseline' = Text(cfg) /\ was' = cfg
     \/ "lost" \in mishaps /\ pc' = "raised" /\ UNCHANGED <<baseline, was>>
  /\ UNCHANGED <<cfg, startup, next, applied, error, others, request, rollback>>

\* Mutant of Fail: the failure is not remembered.
FailSilently ==
  /\ pc' = IF opt.rollback THEN "hint" ELSE "done"
  /\ UNCHANGED <<error, rollback>>

\* A failure that an answer reports.
Fail ==
  /\ error' = TRUE
  /\ pc' = IF opt.rollback THEN "hint" ELSE "done"
  /\ UNCHANGED rollback

\* A failure that raises: the records are undone by the exception handler.
Except ==
  /\ error' = TRUE
  /\ IF opt.rollback /\ applied # <<>>
     THEN /\ pc' = "xundo"
          /\ todo' = Undoable
          /\ manual' = (Denied \/ \E n \in DOMAIN applied : ~HasInverse(applied[n].line))
     ELSE pc' = "done" /\ UNCHANGED <<todo, manual>>
  /\ UNCHANGED <<hints, tried, undone, destroyed>>

\* The next block is sent.  A block whose lines all succeed is recorded; one
\* with a refused line leaves the lines that succeeded and no record.  An
\* interface that is only entered is not sent at all.
Apply ==
  /\ pc = "apply" /\ next <= Len(batch)
  /\ LET b == batch[next]
         bad == {n \in DOMAIN b.lines : ~Accepts(b.context, b.lines[n])}
     IN
     \/ /\ bad = {}
        /\ cfg' = Run(cfg, Records(b), {})
        /\ applied' = applied \o Records(b)
        /\ next' = next + 1
        /\ UNCHANGED <<error, pc, rollback>>
     \/ /\ \E refused \in SUBSET DOMAIN b.lines :
             /\ bad \subseteq refused /\ refused # {}
             /\ refused # bad => "refuse" \in mishaps
             /\ cfg' = Run(cfg, Records(b), refused)
        /\ Fail
        /\ UNCHANGED <<applied, next>>
     \/ /\ "lost" \in mishaps /\ b.lines # <<>>
        /\ cfg' \in {cfg, Run(cfg, Records(b), bad)}
        /\ Except
        /\ UNCHANGED <<applied, next>>
  /\ UNCHANGED <<startup, baseline, was, others, request>>

\* Mutant of Verify: a failed check does not keep the batch from being saved.
VerifyThenSave ==
  /\ pc = "apply" /\ next > Len(batch)
  /\ pc' = IF opt.save THEN "save" ELSE "done"
  /\ error' \in {error} \cup IF "verify" \in mishaps THEN {TRUE} ELSE {}
  /\ UNCHANGED rollback
  /\ UNCHANGED <<cfg, startup, next, baseline, applied, was, others, request>>

\* The verify commands, all of them in one step: they only read.
Verify ==
  /\ pc = "apply" /\ next > Len(batch)
  /\ \/ /\ pc' = IF opt.save THEN "save" ELSE "done"
        /\ UNCHANGED <<error, rollback>>
     \/ "verify" \in mishaps /\ Fail
     \/ "lost" \in mishaps /\ Except
  /\ UNCHANGED <<cfg, startup, next, baseline, applied, was, others, request>>

Save ==
  /\ pc = "save"
  /\ \/ startup' = cfg /\ pc' = "done" /\ UNCHANGED <<error, rollback>>
     \/ "refuseSave" \in mishaps /\ startup' = startup /\ Except
     \/ "lost" \in mishaps /\ startup' \in {startup, cfg} /\ Except
  /\ UNCHANGED <<cfg, next, baseline, applied, was, others, request>>

\* What to roll back: the inverses of the applied lines, then what the
\* difference from the baseline suggests (nothing, when it cannot be read).
Hint ==
  /\ pc = "hint"
  /\ LET inverses == {Inverse(applied[n].line) :
                        n \in {m \in DOMAIN applied : HasInverse(applied[m].line)}}
     IN  \/ hints' = HintLines(Text(cfg)) \ inverses
         \/ "lost" \in mishaps /\ hints' = {}
  /\ todo' = Undoable
  /\ manual' = Denied
  /\ pc' = "undo"
  /\ UNCHANGED <<cfg, startup, next, baseline, applied, error, tried, undone, was,
                 destroyed, others, request>>

\* One rollback command, and what may become of it: executed, refused, or lost
\* before or after it was executed.
Undo(c, l) ==
  \/ /\ Accepts(c, l)
     /\ cfg' = Exec(cfg, c, l)
     /\ destroyed' = (destroyed \/ Destructive(l))
     /\ undone' = TRUE \/ ("lost" \in mishaps /\ undone' = undone)
  \/ /\ ~Accepts(c, l) \/ mishaps \cap {"refuseUndo", "lost"} # {}
     /\ UNCHANGED <<cfg, destroyed, undone>>

\* The inverses of the applied records, the last one first, then the hints.
RollbackNext ==
  /\ pc = "undo" /\ tried < UndoLimit
  /\ \/ /\ \E n \in todo :
             LET l == Inverse(applied[n].line) IN
             IsLast(n) /\ Undo(PlaceOf(l), l) /\ todo' = todo \ {n}
        /\ UNCHANGED hints
     \/ /\ todo = {}
        /\ \E l \in hints : Undo(PlaceOf(l), l) /\ hints' = hints \ {l}
        /\ UNCHANGED todo
  /\ tried' = tried + 1
  /\ UNCHANGED <<startup, pc, next, baseline, applied, error, manual, was, others,
                 request>>

RollbackEnd ==
  /\ pc = "undo"
  /\ tried = UndoLimit \/ (todo = {} /\ hints = {})
  /\ pc' = "done"
  /\ UNCHANGED <<cfg, startup, next, baseline, applied, error, was, others, request,
                 rollback>>

\* Rollback after an exception: each record in its own place.  The router's
\* answers are not looked at, so that a refused command counts as run.
ExceptNext ==
  /\ pc = "xundo"
  /\ \E n \in todo :
       LET l == Inverse(applied[n].line)
           c == applied[n].context
       IN  /\ IsLast(n)
           /\ todo' = todo \ {n}
           /\ \/ Undo(c, l)
              \/ /\ ~Accepts(c, l) \/ "refuseUndo" \in mishaps
                 /\ undone' = TRUE
                 /\ UNCHANGED <<cfg, destroyed>>
  /\ UNCHANGED <<startup, pc, next, baseline, applied, error, hints, tried, manual,
                 was, others, request>>

ExceptEnd ==
  /\ pc = "xundo" /\ todo = {}
  /\ pc' = "done"
  /\ UNCHANGED <<cfg, startup, next, baseline, applied, error, was, others, request,
                 rollback>>

Call == Snapshot \/ Apply \/ Verify \/ Save \/ Hint \/ RollbackNext \/ RollbackEnd
          \/ ExceptNext \/ ExceptEnd

\* Another tool call, or the router's web interface, changes a route.
Other ==
  /\ others < MaxOther
  /\ pc \notin {"done", "raised"}
  /\ others' = others + 1
  /\ \E i \in OtherItems, no \in BOOLEAN :
       cfg' = Exec(cfg, Top, [no |-> no, item |-> i])
  /\ UNCHANGED <<startup, pc, next, baseline, applied, error, was, request, rollback>>

Next == Call \/ Other

Spec == Init /\ [][Next]_vars

\* Every request has a timeout, and the event loop resumes the call.
FairSpec == Spec /\ WF_vars(Call)

-----------------------------------------------------------------------------
(* The answer. *)

\* Mutant of Verdict: what was rolled back is looked at first.
VerdictUndoneFirst ==
  CASE ~error            -> "ok"
    [] error /\ undone   -> "rolled_back"
    [] error /\ ~undone /\ manual  -> "failed_needs_manual_restore"
    [] error /\ ~undone /\ ~manual -> "failed"

Verdict ==
  CASE ~error                    -> "ok"
    [] error /\ manual /\ ~undone  -> "failed_needs_manual_restore"
    [] error /\ manual /\ undone   -> "partial_rollback_needs_manual_restore"
    [] error /\ ~manual /\ undone  -> "rolled_back"
    [] error /\ ~manual /\ ~undone -> "failed"

AskForRestore ==
  Verdict \in {"failed_needs_manual_restore", "partial_rollback_needs_manual_restore"}

Finished == pc = "done"

-----------------------------------------------------------------------------
(* Safety. *)

\* A rollback removes an interface, or a part of one with `no interface ...',
\* only if both flags were given (the docstring of txn.py, lines 3 to 6).
NeverDestroys == destroyed => opt.allow /\ opt.confirm

\* Every line of the first k blocks is recorded.
Recorded(k) ==
  \A j \in 1..k : \A m \in DOMAIN batch[j].lines :
    \E n \in DOMAIN applied :
      applied[n] = [context |-> batch[j].context, line |-> batch[j].lines[m]]

\* The configuration is saved only when every line of the batch has been
\* applied, no check has failed and nothing has been rolled back.
SavedOnlyWhenClean ==
  [][startup' # startup => ~error /\ ~undone /\ Recorded(Len(batch))]_vars

\* A batch that is answered "ok" did all it was asked for: what it says about
\* each setting holds, the other settings are as they were, and it is saved if
\* that was asked for.
OkMeansApplied ==
  Finished /\ Verdict = "ok" /\ others = 0 =>
    /\ Recorded(Len(batch))
    /\ cfg = Run(was, applied, {})
    /\ startup = IF opt.save THEN cfg ELSE before

\* Neither the batch nor its rollback changes an item no line is about,
\* although the rollback takes lines from a diff of the whole configuration.
OthersUntouched ==
  others = 0 =>
    \A e \in Setting :
      \/ \E j \in DOMAIN batch : \E m \in DOMAIN batch[j].lines :
           batch[j].lines[m].item = e[2]
      \/ e \in cfg <=> e \in was

\* A batch a rollback can undo: one line to a block, every line with an inverse
\* that may be run, each of them changing something, inside at most one
\* interface, and no more lines than rollback commands are tried.
Reversible ==
  /\ \A j \in DOMAIN batch : Len(batch[j].lines) = 1
  /\ Undoable = DOMAIN applied
  /\ \A n \in DOMAIN applied :
       LET f == Run(was, SubSeq(applied, 1, n - 1), {}) IN
       Exec(f, applied[n].context, applied[n].line) # f
  /\ \A m, n \in DOMAIN applied :
       Top \notin {applied[m].context, applied[n].context}
         => applied[m].context = applied[n].context
  /\ Len(applied) <= UndoLimit

\* When such a batch fails and rollback was asked for, the running
\* configuration is what it was, whichever step failed and whichever of the
\* two rollbacks ran (where the router refuses no rollback command, nothing is
\* lost and nobody else writes).
FailureRestores ==
  /\ Finished /\ error /\ opt.rollback /\ Reversible
  /\ others = 0 /\ mishaps \cap {"refuseUndo", "lost"} = {}
  => cfg = was

\* A rollback that left out an applied line because its inverse is destructive
\* says so: the caller is told to restore by hand.
DeniedIsReported ==
  Finished /\ error /\ opt.rollback /\ Denied => AskForRestore

\* No batch is saved and rolled back: what a reboot brings back after a failed
\* batch is what it would have brought back before it (where the answer to the
\* save is not lost).
FailureNotSaved == Finished /\ error /\ "lost" \notin mishaps => startup = before

\* The call always comes to an end.
BatchEnds == (pc = "snapshot") ~> (pc \in {"done", "raised"})

-----------------------------------------------------------------------------
(* What the comments say and the code does not do. *)

\* txn.py:557: a rollback command runs in the original context of its line, so
\* that no interface keeps a setting whose removal was reported as done.
UndoneWhereApplied ==
  Finished /\ error /\ Verdict = "rolled_back" /\ others = 0 =>
    \A n \in Undoable :
      LET e == Target(applied[n].context, applied[n].line) IN
      e \notin was => e \notin cfg

=============================================================================
