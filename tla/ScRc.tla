-------------------------------- MODULE ScRc --------------------------------
(***************************************************************************)
(* The read helpers of tools/sc_rc.py.  A read names the configuration it  *)
(* prefers and makes up to four requests, one after the other: a GET and   *)
(* a nested `show' of the preferred root, then the same two of the other   *)
(* root.  The first request that shows anything ends the read.  So a       *)
(* preferred configuration that is EMPTY, or that could not be read, is    *)
(* silently replaced by the other one.                                     *)
(*                                                                         *)
(* A nested show that answers with the other root's subtree (sc_rc.py:     *)
(* 99-104) returns what the next request of the read would return; it is   *)
(* not modelled apart.                                                     *)
(***************************************************************************)
EXTENDS Naturals

Roots == {"rc", "sc"}

\* The requests of one read.
Probes == 1..4
LastProbe == 4

Other(root) == IF root = "rc" THEN "sc" ELSE "rc"

\* The root that the i-th request of a read reads.
ProbedRoot(prefer, i) == IF i <= 2 THEN prefer ELSE Other(prefer)

\* What the router shows for a root when rc and sc hold what they hold.
Shown(root, rc, sc) == IF root = "rc" THEN rc ELSE sc
=============================================================================
