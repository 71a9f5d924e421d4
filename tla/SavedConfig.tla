---------------------------- MODULE SavedConfig ----------------------------
(***************************************************************************)
(* What a write tool of netcraze-mcp promises about the router's two       *)
(* configurations, with every detail of how it keeps the promise removed.  *)
(*                                                                         *)
(* The router keeps a running configuration (rc) and a saved one (sc).  A  *)
(* client with an open call may change one slot of the running            *)
(* configuration at a time.  The saved configuration never changes on its  *)
(* own: it becomes a copy of the running one, in one step, and only on     *)
(* behalf of a client whose open call asked for a save (`save=True', or    *)
(* save_config).  A reboot throws away whatever was not saved.             *)
(***************************************************************************)
CONSTANTS Client,       \* who may have a call open
          Slot,         \* the names under which a configuration keeps things
          Thing         \* what a slot may hold

VARIABLES running,      \* rc, a partial function from Slot to Thing
          saved,        \* sc, likewise
          open,         \* the clients with an open call
          consent       \* those of them whose call asked for a save

scVars == <<running, saved, open, consent>>

IsConfig(f) == DOMAIN f \subseteq Slot /\ f \in [DOMAIN f -> Thing]

\* Two configurations that differ in at most one slot.
DifferInOne(f, g) ==
  \E s \in Slot :
    /\ DOMAIN f \ {s} = DOMAIN g \ {s}
    /\ \A k \in DOMAIN f \ {s} : f[k] = g[k]

SCInit ==
  /\ IsConfig(running)
  /\ IsConfig(saved)
  /\ open = {}
  /\ consent = {}

Open(c) ==
  /\ c \notin open
  /\ open' = open \cup {c}
  /\ consent' \in {consent, consent \cup {c}}
  /\ UNCHANGED <<running, saved>>

\* One request of client c: at most one slot is rewritten, and a save may
\* follow in the same request when the call asked for one.  The call may end
\* with the request, when its answer is lost.
Request(c) ==
  /\ c \in open
  /\ IsConfig(running')
  /\ DifferInOne(running, running')
  /\ \/ saved' = saved
     \/ c \in consent /\ saved' = running'
  /\ \/ UNCHANGED <<open, consent>>
     \/ open' = open \ {c} /\ consent' = consent \ {c}

Close(c) ==
  /\ c \in open
  /\ open' = open \ {c}
  /\ consent' = consent \ {c}
  /\ UNCHANGED <<running, saved>>

\* Every connection dies with the router; a call that holds none goes on.
Reboot ==
  /\ running' = saved
  /\ open' \subseteq open
  /\ consent' = consent \cap open'
  /\ UNCHANGED saved

SCNext == Reboot \/ \E c \in Client : Open(c) \/ Request(c) \/ Close(c)

SCSpec == SCInit /\ [][SCNext]_scVars
=============================================================================
