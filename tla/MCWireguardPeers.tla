-------------------------- MODULE MCWireguardPeers --------------------------
(* Small instances of WireguardPeers. *)
EXTENDS WireguardPeers, TLC

CONSTANTS t1, t2, k1, k2, a, b

Tunnel(ps) == [up |-> TRUE, peers |-> ps]
With(ips) == [ips |-> ips, alive |-> 10]

\* No tunnel; one with one peer; one with two; a number left free before it.
NoTunnel == [i \in {} |-> Fresh]
OnePeer == 0 :> Tunnel(k1 :> With({a}))
TwoPeers == 0 :> Tunnel(k1 :> With({a}) @@ k2 :> With({b}))
Gap == 1 :> Tunnel(k1 :> With({a, b}))

Does(op, i, k, ips, save) ==
  [op |-> op, iface |-> i, key |-> k, ips |-> ips, alive |-> {}, up |-> TRUE, save |-> save]

\* Every kind of call.
PeerCalls ==
  {Does(op, 0, k1, {b}, s) : op \in {"add", "update", "merge"}, s \in BOOLEAN}
  \cup {Does(op, 0, k2, {b}, FALSE) : op \in {"add", "merge"}}
  \cup {[Does("update", 0, k1, {}, FALSE) EXCEPT !.alive = {25}], Does("remove", 0, k1, {}, TRUE)}
IfaceCalls ==
  {Does("create", i, k1, {}, FALSE) : i \in {0, AutoId}}
  \cup {Does("conf", i, k2, {a}, TRUE) : i \in {1, AutoId}}
  \cup {[Does("state", 0, k1, {}, FALSE) EXCEPT !.up = FALSE], Does("delete", 0, k1, {}, FALSE)}
ReadCalls == {Does(op, 0, k1, {}, FALSE) : op \in {"get", "getSaved", "runtime"}}
             \cup {Does("diff", AutoId, k1, {}, FALSE)}

AllCalls == [t \in Task |-> PeerCalls \cup IfaceCalls \cup ReadCalls]
Configs == {NoTunnel, OnePeer, TwoPeers, Gap}
=============================================================================
