--------------------------- MODULE MCDomainLists ---------------------------
(* Small instances of DomainLists. *)
EXTENDS DomainLists, TLC

CONSTANTS t1, t2, home, work, x, y

Lists(n, es) == [name |-> n, entries |-> es]

\* Nothing configured; one list; two lists.
NoLists == Empty
OneList == 0 :> Lists(home, {x})
TwoLists == OneList @@ 1 :> Lists(work, {})

Does(op, ref, args, save) == [op |-> op, ref |-> ref, args |-> args, save |-> save]

\* Every kind of call, on lists by name and by key.
EveryCall ==
  {Does(op, home, {e}, s) : op \in {"add", "remove"}, e \in {x, y}, s \in BOOLEAN}
  \cup {Does("set", home, es, FALSE) : es \in SUBSET {x, y}}
  \cup {Does("create", n, {x}, s) : n \in {home, work}, s \in BOOLEAN}
  \cup {Does("delete", ref, {}, s) : ref \in {home, 1}, s \in BOOLEAN}
  \cup {Does(op, home, {}, FALSE) : op \in {"get", "getSaved", "diff", "save"}}

\* Each task writes a list of its own, named by its key; the first one saves or
\* not, the second one also deletes its list, creates it again and saves.
OwnCalls(k, saves) ==
  {Does("add", k, {e}, s) : e \in {x, y}, s \in saves} \cup {Does("remove", k, {x}, FALSE)}

OtherCalls ==
  {Does("create", work, {}, FALSE), Does("delete", 1, {}, FALSE), Does("save", 1, {}, FALSE)}

SessionCalls == [t \in Task |-> EveryCall]
PairCalls == [t \in Task |-> IF t = t1 THEN OwnCalls(0, BOOLEAN)
                          ELSE OwnCalls(1, {FALSE}) \cup OtherCalls]
SessionStores == {NoLists, OneList, TwoLists}
PairStores == {TwoLists}
=============================================================================
