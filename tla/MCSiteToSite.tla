---------------------------- MODULE MCSiteToSite ----------------------------
(* Small instances of SiteToSite. *)
EXTENDS SiteToSite, TLC

CONSTANTS t1, t2, home, work, spare, p, q, d, e, bad

At2(n, psk, data, on) == n :> [psk |-> psk, data |-> data, on |-> on]

\* Nothing, one connection, two of which one is off, one without a key and one
\* with data the tools cannot write.
NoConns == [x \in {} |-> x]
OneConn == At2(home, p, d, TRUE)
TwoConns == At2(home, p, d, FALSE) @@ At2(work, q, d, TRUE)
OddConns == At2(home, None, d, TRUE) @@ At2(work, q, bad, TRUE)

Does(op, name, from, psk, data, enable, save) ==
  [op |-> op, name |-> name, from |-> from, psk |-> psk, data |-> data,
   enable |-> enable, save |-> save]

EveryCall ==
  {Does("create", home, None, p, e, "on", s) : s \in BOOLEAN}
  \cup {Does("create", spare, home, None, None, on, s) : on \in {"on", "off"}, s \in BOOLEAN}
  \cup {Does("create", spare, home, None, e, "on", FALSE),
         Does("create", spare, home, q, None, "on", FALSE)}
  \cup {Does("update", home, None, k, e, on, s) :
          k \in {None, q}, on \in {"off", "keep"}, s \in BOOLEAN}
  \cup {Does("state", n, None, None, None, on, s) :
          n \in {home, spare}, on \in {"on", "off"}, s \in BOOLEAN}
  \cup {Does("delete", n, None, None, None, "keep", s) : n \in {home, work}, s \in BOOLEAN}
  \cup {Does("rename", spare, n, None, None, "keep", s) : n \in {home, work}, s \in BOOLEAN}

\* The other client works on the same connections and brings in no new key.
Shares ==
  {Does("create", spare, home, None, None, "on", FALSE),
   Does("create", home, spare, None, e, "off", TRUE),
   Does("state", home, None, None, None, "on", TRUE),
   Does("delete", work, None, None, None, "keep", FALSE)}
PairCalls == [t \in Task |-> IF t = t1 THEN EveryCall ELSE Shares]

\* Two clients rename different connections to one new name.
Renames(n) == {Does("rename", spare, n, None, None, "keep", FALSE)}
RenamersCalls == [t \in Task |-> IF t = t1 THEN Renames(home) ELSE Renames(work)]

SomeConns == {NoConns, OneConn, TwoConns, OddConns}
OnlyTwo == {TwoConns}
=============================================================================
