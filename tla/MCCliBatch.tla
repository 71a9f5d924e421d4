----------------------------- MODULE MCCliBatch -----------------------------
(* Small instances of CliBatch. *)
EXTENDS CliBatch

CONSTANTS if1, if2,     \* interfaces
          route, acl,   \* routes and access lists
          mss, peer, ip

Contexts == {if1, if2}

Set(i) == [no |-> FALSE, item |-> i]
Unset(i) == [no |-> TRUE, item |-> i]
One(c, l) == [context |-> c, lines |-> <<l>>]
Two(c, l, m) == [context |-> c, lines |-> <<l, m>>]

\* Every block a batch is put together from: single lines at the top level
\* and in an interface, two lines in one interface, one of them with a line
\* that belongs at the top level, and an interface that is only entered.
Blocks ==
  {One(Top, l) : l \in {Set(route), Unset(route), Set(acl), Set(peer), Unset(peer),
                        Set(ip)}}
    \cup {One(c, Set(mss)) : c \in Contexts}
    \cup {One(if1, Unset(mss)), Two(if1, Set(mss), Set(ip)), Two(if1, Set(ip), Unset(ip)),
          Two(if2, Set(route), Set(mss)), [context |-> if1, lines |-> <<>>]}

UpToTwo == {<<b>> : b \in Blocks} \cup {<<a, b>> : a, b \in Blocks}

\* Three single lines about routes and one interface: the batches a rollback
\* is made for.
Undoables == {One(Top, Set(route)), One(Top, Unset(route)), One(Top, Set(acl)),
              One(if1, Set(mss))}
Flat == {<<a, b, c>> : a, b, c \in Undoables}
UpToThree == UpToTwo \cup Flat

\* Saved or not; without rollback, or with one that may destroy nothing; saved,
\* and with a rollback that asks to destroy, with and without the confirmation.
Choices == {o \in Option : (o.confirm => o.allow) /\ (o.allow => o.rollback /\ o.save)}
Plain == {[save |-> FALSE, rollback |-> TRUE, allow |-> FALSE, confirm |-> FALSE]}

Empty == {}
Configs == {{}, {<<Top, route>>, <<if1, mss>>}, {<<Top, peer>>, <<if1, ip>>, <<if2, mss>>}}
TwoMss == {<<One(if1, Set(mss)), One(if2, Set(mss))>>}
OnlyEmpty == {{}}

\* A refusing router, one that also loses answers, one whose checks fail.
Mishaps == {{"refuse", "verify", "refuseSave"}, {"verify", "refuseUndo", "lost"}}
OnlyVerify == {{"verify"}}
=============================================================================
