------------------------ MODULE WireguardPeers_proofs ------------------------
(***************************************************************************)
(* Proofs about WireguardPeers for any tasks, interfaces, keys, networks,  *)
(* calls, faults and bounds.                                               *)
(***************************************************************************)
EXTENDS WireguardPeers, FiniteSetTheorems, TLAPS

-----------------------------------------------------------------------------
(* The inductive invariant. *)

Rewriters == {"update", "merge"}

\* Which calls go through which phase; a rewrite never empties a peer.
Ordered(j) ==
  LET op == j.call.op IN
  /\ j.pc = "check" => op = "add"
  /\ j.pc \in {"make", "conf"} => op = "conf"
  /\ j.pc = "write" => op \in Writers
  /\ j.pc = "see" => op \in {"create", "conf", "state"}
  /\ j.pc \in {"after", "saved"} => op \in Rewriters
  /\ j.pc \in {"first", "second"} => op \in Readers
  /\ j.pc = "again" => op \in {"get", "getSaved"}
  /\ j.pc = "write" /\ op \in Rewriters => Rewritten(j) # {}

\* What there is now is in the history of the call.
Watched(f, g, j, s) ==
  /\ f # g => s.differed
  /\ j.call.op \notin {"create", "conf"} => NetsOn(f, j.iface) \cup NetsOn(g, j.iface) \subseteq s.held

NetsIn(E) == {e[3] : e \in E}

\* What a call knows of f (rc) and g (sc) while nothing else changes them.
Alone(f, g, j) ==
  LET ips == IpsAt(f, j.iface, j.call.key) IN
  /\ j.pc = "write" =>
       /\ j.call.op \in Rewriters => j.was = ips
       /\ j.call.op = "create" /\ j.call.iface = AutoId => j.iface \notin DOMAIN f
       /\ j.call.op = "add" /\ ~j.unread => j.call.key \notin DOMAIN PeersAt(f, j.iface)
  /\ j.pc = "after" => ips # {}
  /\ j.pc = "saved" => NetsIn(j.cfg) = ips /\ ips # {}
  /\ j.pc = "second" /\ ~j.unread =>
       j.cfg = Found(j, IF j.call.op = "getSaved" THEN g ELSE f)
  /\ j.pc = "again" /\ j.call.op = "get" /\ ~j.unread => j.other = Found(j, g)

Fits(f, g, j, s) ==
  /\ Ordered(j)
  /\ Watched(f, g, j, s)
  /\ ~s.raced => Alone(f, g, j)

\* What an answer may say.
Answered(r, s) == r.op \in {"update", "merge", "runtime"} /\ ~s.raced => r.ips \subseteq s.held

Good(f, g, j, r, s) ==
  IF j.pc = "idle" THEN Answered(r, s) ELSE r = NoReport /\ Fits(f, g, j, s)

Inv ==
  /\ TypeOK
  /\ NoLostIps
  /\ \A t \in Task : Good(rc, sc, job[t], report[t], seen[t])

-----------------------------------------------------------------------------
(* Configurations: partial functions of partial functions. *)

Tunnel == [up : BOOLEAN, peers : Peers]

LEMMA ConfigIntro ==
  ASSUME NEW f, f = [i \in DOMAIN f |-> f[i]], DOMAIN f \subseteq Iface,
         \A i \in DOMAIN f : f[i] \in Tunnel
  PROVE  f \in Config
<1>1. f \in [DOMAIN f -> Tunnel]
  OBVIOUS
<1>2. QED
  BY <1>1 DEF Config, Tunnel

LEMMA ConfigElim ==
  ASSUME NEW f \in Config
  PROVE  /\ f = [i \in DOMAIN f |-> f[i]]
         /\ DOMAIN f \subseteq Iface
         /\ \A i \in DOMAIN f : f[i] \in Tunnel /\ f[i].peers \in Peers /\ f[i].up \in BOOLEAN
<1>1. PICK K \in SUBSET Iface : f \in [K -> Tunnel]
  BY DEF Config, Tunnel
<1>2. \A i \in K : f[i] \in Tunnel
  BY <1>1
<1> HIDE DEF Tunnel
<1>3. \A i \in DOMAIN f : f[i] \in Tunnel
  BY <1>1, <1>2
<1>4. \A v \in Tunnel : v.peers \in Peers /\ v.up \in BOOLEAN
  BY DEF Tunnel
<1>5. QED
  BY <1>1, <1>3, <1>4

LEMMA PeersIntro ==
  ASSUME NEW f, f = [k \in DOMAIN f |-> f[k]], DOMAIN f \subseteq PeerKey,
         \A k \in DOMAIN f : f[k] \in Peer
  PROVE  f \in Peers
<1>1. f \in [DOMAIN f -> Peer]
  OBVIOUS
<1>2. QED
  BY <1>1 DEF Peers

LEMMA PeersElim ==
  ASSUME NEW f \in Peers
  PROVE  /\ f = [k \in DOMAIN f |-> f[k]]
         /\ DOMAIN f \subseteq PeerKey
         /\ \A k \in DOMAIN f : f[k] \in Peer /\ f[k].ips \subseteq Net /\ f[k].alive \in Interval
<1>1. PICK K \in SUBSET PeerKey : f \in [K -> Peer]
  BY DEF Peers
<1>2. \A k \in DOMAIN f : f[k] \in Peer
  BY <1>1
<1>3. \A v \in Peer : v.ips \subseteq Net /\ v.alive \in Interval
  BY DEF Peer
<1>4. QED
  BY <1>1, <1>2, <1>3

LEMMA NoPeersType == NoPeers \in Peers /\ DOMAIN NoPeers = {} /\ Fresh \in Tunnel /\ Fresh.peers = NoPeers
<1>1. DOMAIN NoPeers = {} /\ NoPeers = [k \in DOMAIN NoPeers |-> NoPeers[k]]
  BY DEF NoPeers
<1> HIDE DEF NoPeers
<1>2. NoPeers \in Peers
  BY <1>1, PeersIntro
<1>3. QED
  BY <1>1, <1>2 DEF Fresh, Tunnel

LEMMA AtFacts ==
  ASSUME NEW f \in Config, NEW i, NEW k
  PROVE  /\ PeersAt(f, i) \in Peers
         /\ IpsAt(f, i, k) \subseteq Net
         /\ k \in DOMAIN PeersAt(f, i) => k \in PeerKey
         /\ k \notin DOMAIN PeersAt(f, i) => IpsAt(f, i, k) = {}
         /\ i \notin DOMAIN f => DOMAIN PeersAt(f, i) = {} /\ IpsAt(f, i, k) = {}
<1>1. PeersAt(f, i) \in Peers
  BY ConfigElim, NoPeersType DEF PeersAt
<1>2. i \notin DOMAIN f => DOMAIN PeersAt(f, i) = {}
  BY NoPeersType DEF PeersAt
<1>3. CASE k \in DOMAIN PeersAt(f, i)
  <2>1. i \in DOMAIN f /\ PeersAt(f, i) = f[i].peers
    BY <1>2, <1>3 DEF PeersAt
  <2>2. IpsAt(f, i, k) = PeersAt(f, i)[k].ips
    BY <1>3, <2>1 DEF IpsAt
  <2>3. QED
    BY <1>1, <1>2, <1>3, <2>2, PeersElim
<1>4. CASE k \notin DOMAIN PeersAt(f, i)
  BY <1>1, <1>2, <1>4 DEF IpsAt
<1>5. QED
  BY <1>3, <1>4

LEMMA PairsFacts ==
  ASSUME NEW f \in Config, NEW i
  PROVE  /\ Pairs(f, i) \subseteq PeerKey \X Net
         /\ NetsOn(f, i) \subseteq Net
         /\ \A p \in PeerKey \X Net : p \in Pairs(f, i) <=> p[2] \in IpsAt(f, i, p[1])
         /\ \A k \in PeerKey : IpsAt(f, i, k) \subseteq NetsOn(f, i)
         /\ i \notin DOMAIN f => Pairs(f, i) = {}
<1>1. /\ Pairs(f, i) \subseteq PeerKey \X Net
      /\ \A p \in PeerKey \X Net : p \in Pairs(f, i) <=> p[2] \in IpsAt(f, i, p[1])
  BY DEF Pairs
<1>2. NetsOn(f, i) \subseteq Net
  BY <1>1 DEF NetsOn
<1>3. ASSUME NEW k \in PeerKey, NEW n \in IpsAt(f, i, k)
      PROVE  n \in NetsOn(f, i)
  <2>1. <<k, n>> \in PeerKey \X Net
    BY AtFacts
  <2>2. <<k, n>> \in Pairs(f, i)
    BY <1>1, <2>1
  <2>3. QED
    BY <2>2 DEF NetsOn
<1>4. i \notin DOMAIN f => Pairs(f, i) = {}
  BY <1>1, AtFacts
<1>5. QED
  BY <1>1, <1>2, <1>3, <1>4

-----------------------------------------------------------------------------
(* What the writes do to a configuration. *)

\* g is f but for interface i, ...
SameBut(i, f, g) ==
  /\ DOMAIN f \ {i} = DOMAIN g \ {i}
  /\ \A x \in DOMAIN f \ {i} : f[x] = g[x]

\* ... and a configuration.
Changed(i, f, g) ==
  /\ g \in Config
  /\ SameBut(i, f, g)
  /\ \A x, y : x # i => IpsAt(g, x, y) = IpsAt(f, x, y)

LEMMA SameButIps ==
  ASSUME NEW f, NEW g, NEW i, SameBut(i, f, g), NEW x, NEW y, x # i
  PROVE  IpsAt(g, x, y) = IpsAt(f, x, y)
<1>1. x \in DOMAIN f <=> x \in DOMAIN g
  BY DEF SameBut
<1>2. x \in DOMAIN f => f[x] = g[x]
  BY DEF SameBut
<1>3. PeersAt(g, x) = PeersAt(f, x)
  BY <1>1, <1>2 DEF PeersAt
<1>4. CASE x \in DOMAIN f
  BY <1>1, <1>2, <1>3, <1>4 DEF IpsAt
<1>5. CASE x \notin DOMAIN f
  <2>1. PeersAt(f, x) = NoPeers /\ PeersAt(g, x) = NoPeers
    BY <1>1, <1>5 DEF PeersAt
  <2>2. QED
    BY <2>1, NoPeersType DEF IpsAt
<1>6. QED
  BY <1>4, <1>5

LEMMA PutFacts ==
  ASSUME NEW f \in Config, NEW i \in Iface, NEW v \in Tunnel
  PROVE  /\ Changed(i, f, Put(f, i, v))
         /\ PeersAt(Put(f, i, v), i) = v.peers
<1> DEFINE g == Put(f, i, v)
<1>1. DOMAIN g = DOMAIN f \cup {i} /\ g = [x \in DOMAIN g |-> g[x]]
  BY DEF Put
<1>2. /\ \A x \in DOMAIN g : g[x] \in Tunnel
      /\ \A x \in DOMAIN f \ {i} : f[x] = g[x]
      /\ g[i] = v
  BY ConfigElim DEF Put
<1>3. DOMAIN g \subseteq Iface
  BY <1>1, ConfigElim
<1> HIDE DEF g
<1>4. g \in Config
  BY <1>1, <1>2, <1>3, ConfigIntro
<1>5. SameBut(i, f, g)
  BY <1>1, <1>2 DEF SameBut
<1>6. PeersAt(g, i) = v.peers
  BY <1>1, <1>2 DEF PeersAt
<1>7. QED
  BY <1>4, <1>5, <1>6, SameButIps DEF Changed, g

LEMMA DropFacts ==
  ASSUME NEW f \in Config, NEW i
  PROVE  Changed(i, f, Drop(f, i))
<1> DEFINE g == Drop(f, i)
<1>1. DOMAIN g = DOMAIN f \ {i} /\ g = [x \in DOMAIN g |-> g[x]]
  BY DEF Drop
<1>2. \A x \in DOMAIN g : g[x] = f[x] /\ g[x] \in Tunnel
  BY ConfigElim DEF Drop
<1>3. DOMAIN g \subseteq Iface
  BY <1>1, ConfigElim
<1> HIDE DEF g
<1>4. g \in Config
  BY <1>1, <1>2, <1>3, ConfigIntro
<1>5. SameBut(i, f, g)
  BY <1>1, <1>2 DEF SameBut
<1>6. QED
  BY <1>4, <1>5, SameButIps DEF Changed, g

LEMMA SameFacts ==
  ASSUME NEW f \in Config, NEW i
  PROVE  Changed(i, f, f)
BY DEF Changed, SameBut

LEMMA EnsuredFacts ==
  ASSUME NEW f \in Config, NEW i
  PROVE  /\ Ensured(f, i) \in Tunnel
         /\ Ensured(f, i).peers = PeersAt(f, i)
BY ConfigElim, NoPeersType DEF Ensured, PeersAt

\* Creating an interface, or setting it up or down, leaves the peers alone.
LEMMA UpFacts ==
  ASSUME NEW f \in Config, NEW i \in Iface, NEW b \in BOOLEAN
  PROVE  /\ Changed(i, f, Put(f, i, [Ensured(f, i) EXCEPT !.up = b]))
         /\ \A x, y : IpsAt(Put(f, i, [Ensured(f, i) EXCEPT !.up = b]), x, y) = IpsAt(f, x, y)
<1> DEFINE e == Ensured(f, i)
           v == [e EXCEPT !.up = b]
           g == Put(f, i, v)
<1>1. e \in Tunnel /\ e.peers = PeersAt(f, i)
  BY EnsuredFacts
<1> HIDE DEF e
<1>2. v \in Tunnel /\ v.peers = e.peers
  BY <1>1 DEF Tunnel
<1> HIDE DEF v
<1>3. Changed(i, f, g) /\ PeersAt(g, i) = v.peers
  BY <1>2, PutFacts
<1> HIDE DEF g
<1>4. \A y : IpsAt(g, i, y) = IpsAt(f, i, y)
  <2>1. PeersAt(g, i) = PeersAt(f, i)
    BY <1>1, <1>2, <1>3
  <2>2. ASSUME NEW h \in {f, g}, NEW y
        PROVE  IpsAt(h, i, y) = IF y \in DOMAIN PeersAt(h, i) THEN PeersAt(h, i)[y].ips ELSE {}
    BY NoPeersType DEF IpsAt, PeersAt
  <2>3. QED
    BY <2>1, <2>2
<1>5. QED
  BY <1>3, <1>4 DEF Changed, g, v, e

\* g is f with the networks ips added to those of peer k.
Wrote(f, i, k, ips, g) ==
  /\ Changed(i, f, g)
  /\ \A y : y # k => IpsAt(g, i, y) = IpsAt(f, i, y)
  /\ IpsAt(g, i, k) = IpsAt(f, i, k) \cup ips

LEMMA WritePeerFacts ==
  ASSUME NEW f \in Config, NEW i \in Iface, NEW k \in PeerKey,
         NEW ips \in SUBSET Net, NEW alive \in Interval
  PROVE  Wrote(f, i, k, ips, WritePeer(f, i, k, ips, alive))
<1> DEFINE old == Ensured(f, i)
           new == [ips |-> IpsAt(f, i, k) \cup ips, alive |-> alive]
           ps == [x \in DOMAIN old.peers \cup {k} |-> IF x = k THEN new ELSE old.peers[x]]
           v == [old EXCEPT !.peers = ps]
           g == Put(f, i, v)
<1>1. g = WritePeer(f, i, k, ips, alive)
  BY DEF WritePeer
<1>2. old \in Tunnel /\ old.peers = PeersAt(f, i)
  BY EnsuredFacts
<1>3. new \in Peer /\ new.ips = IpsAt(f, i, k) \cup ips
  BY AtFacts DEF Peer
<1> HIDE DEF old, new
<1>4. /\ DOMAIN ps = DOMAIN PeersAt(f, i) \cup {k} /\ ps = [x \in DOMAIN ps |-> ps[x]]
      /\ ps[k] = new
      /\ \A y \in DOMAIN PeersAt(f, i) \ {k} : ps[y] = PeersAt(f, i)[y]
  BY <1>2
<1>5. ps \in Peers
  <2> HIDE DEF ps
  <2>1. \A y \in DOMAIN ps : ps[y] \in Peer
    BY <1>3, <1>4, AtFacts, PeersElim
  <2>2. DOMAIN ps \subseteq PeerKey
    BY <1>4, AtFacts, PeersElim
  <2>3. QED
    BY <1>4, <2>1, <2>2, PeersIntro
<1> HIDE DEF ps
<1>6. v \in Tunnel /\ v.peers = ps
  BY <1>2, <1>5 DEF Tunnel
<1> HIDE DEF v
<1>7. Changed(i, f, g) /\ PeersAt(g, i) = ps
  BY <1>6, PutFacts
<1> HIDE DEF g
<1>8. ASSUME NEW h, NEW y
      PROVE  IpsAt(h, i, y) = IF y \in DOMAIN PeersAt(h, i) THEN PeersAt(h, i)[y].ips ELSE {}
  BY NoPeersType DEF IpsAt, PeersAt
<1>9. ASSUME NEW y, y # k
      PROVE  IpsAt(g, i, y) = IpsAt(f, i, y)
  <2>1. y \in DOMAIN ps <=> y \in DOMAIN PeersAt(f, i)
    BY <1>4, <1>9
  <2>2. y \in DOMAIN ps => ps[y] = PeersAt(f, i)[y]
    BY <1>4, <1>9
  <2>3. QED
    BY <1>7, <1>8, <2>1, <2>2
<1>10. IpsAt(g, i, k) = IpsAt(f, i, k) \cup ips
  BY <1>3, <1>4, <1>7, <1>8
<1>11. QED
  BY <1>1, <1>7, <1>9, <1>10 DEF Wrote

LEMMA RemovePeerFacts ==
  ASSUME NEW f \in Config, NEW i \in Iface, NEW k
  PROVE  LET g == RemovePeer(f, i, k) IN
         /\ Changed(i, f, g)
         /\ \A y : y # k => IpsAt(g, i, y) = IpsAt(f, i, y)
         /\ IpsAt(g, i, k) = {}
<1> DEFINE g == RemovePeer(f, i, k)
<1>1. CASE i \notin DOMAIN f
  <2>1. g = f
    BY <1>1 DEF RemovePeer
  <2>2. IpsAt(f, i, k) = {}
    BY <1>1, AtFacts
  <2>3. QED
    BY <2>1, <2>2, SameFacts
<1>2. CASE i \in DOMAIN f
  <2> DEFINE old == f[i]
             ps == [x \in DOMAIN old.peers \ {k} |-> old.peers[x]]
             v == [old EXCEPT !.peers = ps]
             h == Put(f, i, v)
  <2>1. old \in Tunnel /\ old.peers = PeersAt(f, i)
    BY <1>2, ConfigElim DEF PeersAt
  <2>2. h = RemovePeer(f, i, k)
    <3> DEFINE w == [f[i] EXCEPT !.peers = [x \in DOMAIN f[i].peers \ {k} |-> @[x]]]
    <3>1. RemovePeer(f, i, k) = Put(f, i, w)
      BY <1>2 DEF RemovePeer
    <3>2. w = v
      BY <2>1 DEF Tunnel
    <3>3. QED
      BY <3>1, <3>2
  <2> HIDE DEF old
  <2>3. /\ DOMAIN ps = DOMAIN PeersAt(f, i) \ {k} /\ ps = [x \in DOMAIN ps |-> ps[x]]
        /\ \A y \in DOMAIN ps : ps[y] = PeersAt(f, i)[y]
    BY <2>1
  <2>4. ps \in Peers
    <3> HIDE DEF ps
    <3>1. \A y \in DOMAIN ps : ps[y] \in Peer
      BY <2>3, AtFacts, PeersElim
    <3>2. DOMAIN ps \subseteq PeerKey
      BY <2>3, AtFacts, PeersElim
    <3>3. QED
      BY <2>3, <3>1, <3>2, PeersIntro
  <2> HIDE DEF ps
  <2>5. v \in Tunnel /\ v.peers = ps
    BY <2>1, <2>4 DEF Tunnel
  <2> HIDE DEF v
  <2>6. Changed(i, f, h) /\ PeersAt(h, i) = ps
    BY <2>5, PutFacts
  <2> HIDE DEF h
  <2>7. ASSUME NEW e, NEW y
        PROVE  IpsAt(e, i, y) = IF y \in DOMAIN PeersAt(e, i) THEN PeersAt(e, i)[y].ips ELSE {}
    BY NoPeersType DEF IpsAt, PeersAt
  <2>8. ASSUME NEW y, y # k
        PROVE  IpsAt(h, i, y) = IpsAt(f, i, y)
    <3>1. y \in DOMAIN ps <=> y \in DOMAIN PeersAt(f, i)
      BY <2>3, <2>8
    <3>2. y \in DOMAIN ps => ps[y] = PeersAt(f, i)[y]
      BY <2>3, <2>8
    <3>3. QED
      BY <2>6, <2>7, <3>1, <3>2
  <2>9. IpsAt(h, i, k) = {}
    BY <2>3, <2>6, <2>7
  <2>10. QED
    BY <2>2, <2>6, <2>8, <2>9
<1>3. QED
  BY <1>1, <1>2

\* The parts of a call that its writes use.
LEMMA CallFacts ==
  ASSUME NEW j \in Job
  PROVE  /\ j.call \in Call /\ j.call.op \in Ops /\ j.call.key \in PeerKey
         /\ j.call.ips \subseteq Net /\ j.call.up \in BOOLEAN /\ j.iface \in Iface
         /\ j.was \subseteq Net /\ j.alive \in Interval /\ j.live \subseteq PeerKey
         /\ j.call.alive \subseteq Interval /\ j.pc \in Phases
         /\ j.call.op = "merge" => j.call.ips # {}
         /\ Rewritten(j) \subseteq Net /\ Timing(j) \in Interval
<1>1. /\ j.call \in Call /\ j.was \subseteq Net /\ j.alive \in Interval /\ j.iface \in Iface
      /\ j.live \subseteq PeerKey /\ j.pc \in Phases
  BY DEF Job
<1>2. /\ j.call.op \in Ops /\ j.call.key \in PeerKey /\ j.call.up \in BOOLEAN
      /\ j.call.ips \subseteq Net /\ j.call.alive \subseteq Interval
      /\ j.call.op = "merge" => j.call.ips # {}
  BY <1>1 DEF Call
<1>3. Rewritten(j) \subseteq Net
  BY <1>1, <1>2 DEF Rewritten
<1>4. Timing(j) \in Interval
  BY <1>1, <1>2, WireguardAssumption DEF Timing
<1>5. QED
  BY <1>1, <1>2, <1>3, <1>4

LEMMA KeptFacts ==
  ASSUME NEW ips, NEW kept \in Kept(ips)
  PROVE  kept \subseteq ips /\ (ips # {} => kept # {})
BY DEF Kept

LEMMA PeerWrittenFacts ==
  ASSUME NEW f \in Config, NEW j \in Job, NEW o \in PeerWritten(f, j)
  PROVE  /\ o.bad = FALSE /\ Changed(j.iface, f, o.cfg)
         /\ \A y : y # j.call.key => IpsAt(o.cfg, j.iface, y) = IpsAt(f, j.iface, y)
         /\ IpsAt(f, j.iface, j.call.key) \subseteq IpsAt(o.cfg, j.iface, j.call.key)
         /\ Rewritten(j) # {} => IpsAt(o.cfg, j.iface, j.call.key) # {}
<1>1. PICK ips \in Kept(Rewritten(j)) :
        o = Done(WritePeer(f, j.iface, j.call.key, ips, Timing(j)))
  BY DEF PeerWritten
<1>2. ips \in SUBSET Net /\ (Rewritten(j) # {} => ips # {})
  BY CallFacts, KeptFacts
<1>3. o.bad = FALSE /\ o.cfg = WritePeer(f, j.iface, j.call.key, ips, Timing(j))
  BY <1>1 DEF Done
<1> DEFINE i == j.iface
           k == j.call.key
           a == Timing(j)
           g == WritePeer(f, i, k, ips, a)
<1>4. i \in Iface /\ k \in PeerKey /\ a \in Interval
  BY CallFacts
<1> HIDE DEF i, k, a
<1>5. /\ Changed(i, f, g)
      /\ \A y : y # k => IpsAt(g, i, y) = IpsAt(f, i, y)
      /\ IpsAt(g, i, k) = IpsAt(f, i, k) \cup ips
  <2>1. Wrote(f, i, k, ips, g)
    BY <1>2, <1>4, WritePeerFacts
  <2>2. QED
    BY <2>1 DEF Wrote
<1>6. o.cfg = g
  BY <1>3 DEF i, k, a
<1> HIDE DEF g
<1>7. QED
  BY <1>2, <1>3, <1>5, <1>6 DEF i, k

\* What every writing request does to configuration f, an item refused or not.
Made(f, j, o) ==
  /\ o.bad \in BOOLEAN
  /\ Changed(j.iface, f, o.cfg)
  /\ j.call.op \notin Rewriters \cup {"remove", "delete"} =>
       \A y : IpsAt(f, j.iface, y) \subseteq IpsAt(o.cfg, j.iface, y)
  /\ j.call.op # "delete" =>
       \A y : y # j.call.key => IpsAt(f, j.iface, y) \subseteq IpsAt(o.cfg, j.iface, y)
  /\ j.call.op \in Rewriters /\ ~o.bad => IpsAt(o.cfg, j.iface, j.call.key) # {}

LEMMA MadeTwice ==
  ASSUME NEW f, NEW g, NEW h, NEW i, Changed(i, f, g), Changed(i, g, h)
  PROVE  Changed(i, f, h)
BY DEF Changed, SameBut

LEMMA SameMade ==
  ASSUME NEW f \in Config, NEW j \in Job, NEW b \in BOOLEAN,
         j.call.op \in Rewriters => b
  PROVE  Made(f, j, [cfg |-> f, bad |-> b])
<1>1. Changed(j.iface, f, f)
  BY SameFacts
<1>2. QED
  BY <1>1 DEF Made

LEMMA UpMade ==
  ASSUME NEW f \in Config, NEW j \in Job, NEW u \in BOOLEAN, NEW b \in BOOLEAN,
         j.call.op \notin Rewriters
  PROVE  Made(f, j, [cfg |-> Put(f, j.iface, [Ensured(f, j.iface) EXCEPT !.up = u]), bad |-> b])
<1>1. j.iface \in Iface
  BY CallFacts
<1>2. QED
  BY <1>1, UpFacts DEF Made

LEMMA PeerMade ==
  ASSUME NEW f \in Config, NEW j \in Job, NEW o \in PeerWritten(f, j),
         j.call.op \in Rewriters => Rewritten(j) # {}
  PROVE  Made(f, j, o)
<1>1. \A y : IpsAt(f, j.iface, y) \subseteq IpsAt(o.cfg, j.iface, y)
  <2> TAKE y
  <2>1. CASE y = j.call.key
    BY <2>1, PeerWrittenFacts
  <2>2. CASE y # j.call.key
    BY <2>2, PeerWrittenFacts
  <2>3. QED
    BY <2>1, <2>2
<1>2. QED
  BY <1>1, PeerWrittenFacts DEF Made

\* Removing the peer and writing it anew.
LEMMA RewriteMade ==
  ASSUME NEW f \in Config, NEW j \in Job,
         NEW o \in PeerWritten(RemovePeer(f, j.iface, j.call.key), j),
         j.call.op \in Rewriters, Rewritten(j) # {}
  PROVE  Made(f, j, o)
<1> DEFINE g == RemovePeer(f, j.iface, j.call.key)
<1>1. /\ Changed(j.iface, f, g)
      /\ \A y : y # j.call.key => IpsAt(g, j.iface, y) = IpsAt(f, j.iface, y)
  BY CallFacts, RemovePeerFacts
<1> HIDE DEF g
<1>2. g \in Config /\ o \in PeerWritten(g, j)
  BY <1>1 DEF Changed, g
<1>3. /\ o.bad = FALSE /\ Changed(j.iface, g, o.cfg)
      /\ \A y : y # j.call.key => IpsAt(o.cfg, j.iface, y) = IpsAt(g, j.iface, y)
      /\ IpsAt(o.cfg, j.iface, j.call.key) # {}
  BY <1>2, PeerWrittenFacts
<1>4. Changed(j.iface, f, o.cfg)
  BY <1>1, <1>3, MadeTwice
<1>5. QED
  BY <1>1, <1>3, <1>4 DEF Made, Rewriters

LEMMA RemoveMade ==
  ASSUME NEW f \in Config, NEW j \in Job, NEW b \in BOOLEAN,
         j.call.op \in Rewriters \cup {"remove"}, j.call.op \in Rewriters => b
  PROVE  Made(f, j, [cfg |-> RemovePeer(f, j.iface, j.call.key), bad |-> b])
<1> DEFINE g == RemovePeer(f, j.iface, j.call.key)
<1>1. /\ Changed(j.iface, f, g)
      /\ \A y : y # j.call.key => IpsAt(g, j.iface, y) = IpsAt(f, j.iface, y)
  BY CallFacts, RemovePeerFacts
<1> HIDE DEF g
<1>2. Made(f, j, [cfg |-> g, bad |-> b])
  BY <1>1 DEF Made, Rewriters
<1>3. QED
  BY <1>2 DEF g

LEMMA OutcomesMade ==
  ASSUME NEW f \in Config, NEW j \in Job, Ordered(j), j.pc \in {"make", "conf", "write"},
         NEW o \in Outcomes(f, j)
  PROVE  Made(f, j, o)
<1>1. /\ j.pc \in {"make", "conf"} => j.call.op = "conf"
      /\ j.pc = "write" => j.call.op \in Writers
      /\ j.call.op \in Rewriters => j.pc = "write" /\ Rewritten(j) # {}
  BY DEF Ordered, Rewriters
<1>2. CASE o \in Items(f, j)
  <2>1. CASE j.pc \in {"make", "write"} /\ j.call.op \in {"create", "conf", "state"}
    <3> DEFINE u == IF j.call.op = "create" \/ j.pc = "make" THEN Ensured(f, j.iface).up ELSE j.call.up
               e == Ensured(f, j.iface)
               w == [e EXCEPT !.up = IF j.call.op = "create" \/ j.pc = "make" THEN @ ELSE j.call.up]
    <3>1. o = Done(Put(f, j.iface, w))
      BY <1>2, <2>1 DEF Items
    <3>2. u \in BOOLEAN
      BY CallFacts, EnsuredFacts DEF Tunnel
    <3>3. w = [e EXCEPT !.up = u]
      BY EnsuredFacts DEF Tunnel
    <3> HIDE DEF u, w
    <3>4. o = [cfg |-> Put(f, j.iface, [Ensured(f, j.iface) EXCEPT !.up = u]), bad |-> FALSE]
      BY <3>1, <3>3 DEF Done
    <3>5. QED
      BY <2>1, <3>2, <3>4, UpMade DEF Rewriters
  <2>2. CASE j.pc = "conf"
    <3>1. o \in PeerWritten(f, j)
      BY <1>1, <1>2, <2>2 DEF Items
    <3>2. QED
      BY <1>1, <3>1, PeerMade
  <2>3. CASE j.pc = "write" /\ j.call.op = "add"
    <3>1. o \in PeerWritten(f, j)
      BY <1>2, <2>3 DEF Items
    <3>2. QED
      BY <1>1, <3>1, PeerMade
  <2>4. CASE j.pc = "write" /\ j.call.op = "delete"
    <3>1. o = Done(Drop(f, j.iface))
      BY <1>2, <2>4 DEF Items
    <3>2. o.cfg = Drop(f, j.iface) /\ o.bad = FALSE
      BY <3>1 DEF Done
    <3>3. Changed(j.iface, f, o.cfg)
      BY <3>2, DropFacts
    <3>4. QED
      BY <2>4, <3>2, <3>3 DEF Made, Rewriters
  <2>5. CASE j.pc = "write" /\ j.call.op = "remove"
    <3>1. o = [cfg |-> RemovePeer(f, j.iface, j.call.key), bad |-> FALSE]
      BY <1>2, <2>5 DEF Items, Done
    <3>2. QED
      BY <2>5, <3>1, RemoveMade DEF Rewriters
  <2>6. CASE j.pc = "write" /\ j.call.op \in Rewriters
    <3>1. o \in PeerWritten(RemovePeer(f, j.iface, j.call.key), j)
      BY <1>2, <2>6 DEF Items, Rewriters
    <3>2. QED
      BY <1>1, <2>6, <3>1, RewriteMade
  <2>7. QED
    BY <1>1, <2>1, <2>2, <2>3, <2>4, <2>5, <2>6
       DEF Writers, PeerWriters, IfaceWriters, Rewriters
<1>3. CASE o \in Refused(f, j)
  <2>1. \/ o = Bad(f)
        \/ j.call.op = "create" /\ o = Bad(Put(f, j.iface, Ensured(f, j.iface)))
        \/ j.call.op \in Rewriters /\ o = Bad(RemovePeer(f, j.iface, j.call.key))
        \/ j.call.op \in Rewriters /\ \E p \in PeerWritten(f, j) : o = Bad(p.cfg)
    BY <1>3 DEF Refused, Rewriters
  <2>2. CASE o = Bad(f)
    BY <2>2, SameMade DEF Bad
  <2>3. CASE j.call.op = "create" /\ o = Bad(Put(f, j.iface, Ensured(f, j.iface)))
    <3> DEFINE e == Ensured(f, j.iface)
               u == e.up
    <3>1. e \in Tunnel
      BY EnsuredFacts
    <3> HIDE DEF e
    <3>2. e = [e EXCEPT !.up = u] /\ u \in BOOLEAN
      BY <3>1 DEF Tunnel
    <3> HIDE DEF u
    <3>3. o = [cfg |-> Put(f, j.iface, [Ensured(f, j.iface) EXCEPT !.up = u]), bad |-> TRUE]
      BY <2>3, <3>2 DEF Bad, e
    <3>4. QED
      BY <2>3, <3>2, <3>3, UpMade DEF Rewriters
  <2>4. CASE j.call.op \in Rewriters /\ o = Bad(RemovePeer(f, j.iface, j.call.key))
    BY <2>4, RemoveMade DEF Bad
  <2>5. ASSUME j.call.op \in Rewriters, NEW p \in PeerWritten(f, j), o = Bad(p.cfg)
        PROVE  Made(f, j, o)
    <3>1. Made(f, j, p)
      BY <1>1, <2>5, PeerMade
    <3>2. o.cfg = p.cfg /\ o.bad = TRUE
      BY <2>5 DEF Bad
    <3>3. QED
      BY <3>1, <3>2 DEF Made
  <2>6. QED
    BY <2>1, <2>2, <2>3, <2>4, <2>5
<1>4. QED
  BY <1>2, <1>3 DEF Outcomes

-----------------------------------------------------------------------------
(* How a step of one task leaves the others. *)

LEMMA IdleTypes ==
  /\ IdleJob \in Job /\ IdleJob.pc = "idle"
  /\ NoReport \in Report /\ NoReport.op = "none" /\ ~NoReport.ok
  /\ \A op \in Ops : /\ [NoReport EXCEPT !.op = op] \in Report
                     /\ ~[NoReport EXCEPT !.op = op].ok
                     /\ [NoReport EXCEPT !.op = op].ips = {}
<1>1. /\ 0 \in Iface /\ (CHOOSE k \in PeerKey : TRUE) \in PeerKey /\ Keepalive \in Interval
      /\ "idle" \in Phases /\ "diff" \in Ops
  BY WireguardAssumption DEF Iface, Phases, Ops, Readers
<1>2. NoCall \in Call
  <2>1. AutoId \in 0..AutoId
    BY WireguardAssumption DEF AutoId
  <2>2. Cardinality({}) <= 1
    BY FS_EmptySet
  <2>3. QED
    BY <1>1, <2>1, <2>2 DEF NoCall, Call
<1>3. IdleJob \in Job /\ IdleJob.pc = "idle"
  BY <1>1, <1>2 DEF IdleJob, Job
<1>4. NoReport \in Report /\ NoReport.op = "none" /\ ~NoReport.ok /\ NoReport.ips = {}
  BY <1>1 DEF NoReport, Report, NoCall
<1>5. ASSUME NEW op \in Ops
      PROVE  /\ [NoReport EXCEPT !.op = op] \in Report
             /\ [NoReport EXCEPT !.op = op].ok = NoReport.ok
             /\ [NoReport EXCEPT !.op = op].ips = NoReport.ips
  BY <1>4 DEF Report
<1>6. QED
  BY <1>3, <1>4, <1>5

\* Task t makes a request.
Moves(t) ==
  /\ Active(t)
  /\ Observe(t)
  /\ rc' \in Config /\ sc' \in Config
  /\ owed' \in [Iface -> SUBSET (PeerKey \X Net)]
  /\ NoLostIps'
  /\ UNCHANGED calls

LEMMA ActiveFacts ==
  ASSUME Inv, NEW t \in Task, Active(t)
  PROVE  /\ job[t] \in Job /\ report[t] = NoReport /\ seen[t] \in Seen
         /\ Fits(rc, sc, job[t], seen[t])
BY DEF Inv, TypeOK, Good, Active

LEMMA ObserveFacts ==
  ASSUME Inv, NEW t \in Task, Moves(t)
  PROVE  /\ seen' \in [Task -> Seen]
         /\ seen'[t].raced = seen[t].raced
         /\ seen[t].held \subseteq seen'[t].held
         /\ \A u \in Task :
              IF Active(u)
              THEN /\ (seen[u].differed => seen'[u].differed) /\ (rc' # sc' => seen'[u].differed)
                   /\ seen[u].held \cup NetsOn(rc', job[u].iface) \cup NetsOn(sc', job[u].iface)
                        \subseteq seen'[u].held
                   /\ u # t /\ ~seen'[u].raced => ~seen[u].raced /\ rc' = rc /\ sc' = sc
              ELSE seen'[u] = seen[u]
<1> DEFINE new(u) ==
      [differed |-> seen[u].differed \/ rc' # sc',
       raced |-> seen[u].raced \/ (u # t /\ (rc' # rc \/ sc' # sc)),
       held |-> seen[u].held \cup NetsOn(rc', job[u].iface) \cup NetsOn(sc', job[u].iface)]
<1>1. seen' = [u \in Task |-> IF ~Active(u) THEN seen[u] ELSE new(u)]
  BY DEF Moves, Observe
<1>2. ASSUME NEW u \in Task PROVE seen[u] \in Seen /\ new(u) \in Seen
  <2>1. seen[u] \in Seen
    BY DEF Inv, TypeOK
  <2>2. NetsOn(rc', job[u].iface) \subseteq Net /\ NetsOn(sc', job[u].iface) \subseteq Net
    BY PairsFacts DEF Moves
  <2>3. (seen[u].differed \/ rc' # sc') \in BOOLEAN
        /\ (seen[u].raced \/ (u # t /\ (rc' # rc \/ sc' # sc))) \in BOOLEAN
        /\ seen[u].held \subseteq Net
    BY <2>1 DEF Seen
  <2>4. new(u) \in Seen
    BY <2>2, <2>3 DEF Seen
  <2>5. QED
    BY <2>1, <2>4
<1>3. /\ new(t).raced = seen[t].raced /\ seen[t].held \subseteq new(t).held
  BY <1>2 DEF Seen
<1>4. ASSUME NEW u \in Task
      PROVE  /\ (seen[u].differed => new(u).differed) /\ (rc' # sc' => new(u).differed)
             /\ seen[u].held \cup NetsOn(rc', job[u].iface) \cup NetsOn(sc', job[u].iface)
                  \subseteq new(u).held
             /\ u # t /\ ~new(u).raced => ~seen[u].raced /\ rc' = rc /\ sc' = sc
  OBVIOUS
<1> HIDE DEF new
<1>5. seen' \in [Task -> Seen]
  BY <1>1, <1>2
<1>6. seen'[t] = new(t)
  BY <1>1 DEF Moves
<1>7. QED
  BY <1>1, <1>3, <1>4, <1>5, <1>6

\* What another task knows stays true.
LEMMA OthersFit ==
  ASSUME Inv, NEW t \in Task, Moves(t), NEW u \in Task, u # t
  PROVE  Good(rc', sc', job[u], report[u], seen'[u])
<1>1. Good(rc, sc, job[u], report[u], seen[u])
  BY DEF Inv
<1>2. CASE ~Active(u)
  <2>1. seen'[u] = seen[u]
    BY <1>2, ObserveFacts
  <2>2. QED
    BY <1>1, <1>2, <2>1 DEF Good, Active
<1>3. CASE Active(u)
  <2>1. report[u] = NoReport /\ Fits(rc, sc, job[u], seen[u])
    BY <1>3, ActiveFacts
  <2>2. /\ rc' # sc' => seen'[u].differed
        /\ NetsOn(rc', job[u].iface) \cup NetsOn(sc', job[u].iface) \subseteq seen'[u].held
        /\ ~seen'[u].raced => ~seen[u].raced /\ rc' = rc /\ sc' = sc
    BY <1>3, ObserveFacts
  <2>3. Watched(rc', sc', job[u], seen'[u])
    BY <2>2 DEF Watched
  <2>4. ~seen'[u].raced => Alone(rc', sc', job[u])
    BY <2>1, <2>2 DEF Fits
  <2>5. QED
    BY <1>3, <2>1, <2>3, <2>4 DEF Good, Fits, Active
<1>4. QED
  BY <1>2, <1>3

LEMMA StepInv ==
  ASSUME Inv, NEW t \in Task, Moves(t), NEW j \in Job, NEW r \in Report,
         job' = [job EXCEPT ![t] = j], report' = [report EXCEPT ![t] = r],
         Good(rc', sc', j, r, seen'[t])
  PROVE  Inv'
<1>1. \A u \in Task : Good(rc', sc', job'[u], report'[u], seen'[u])
  BY OthersFit DEF Inv, TypeOK
<1>2. TypeOK'
  BY ObserveFacts DEF Inv, TypeOK, Moves
<1>3. QED
  BY <1>1, <1>2 DEF Inv, Moves

-----------------------------------------------------------------------------
(* The ways a request ends. *)

\* An answer is right about `dirty'.
Ends(t) ==
  LET r == report'[t] IN
  Finished(t) /\ ~seen'[t].raced =>
    /\ r.dirty => seen'[t].differed \/ r.unread
    /\ ~r.dirty /\ r.op \in {"update", "merge"} =>
         IpsAt(rc, r.iface, r.key) = IpsAt(sc, r.iface, r.key)
    /\ ~r.dirty /\ r.op = "diff" /\ ~r.unread =>
         \A i \in Iface : Pairs(rc, i) = Pairs(sc, i)

\* The job of t alone changes; the call goes on as it was made, or ends.
OwnJob(t) ==
  \/ job' = [job EXCEPT ![t] = IdleJob]
  \/ \E k \in Job : job' = [job EXCEPT ![t] = k] /\ k.pc # "idle" /\ k.call = job[t].call

Fine(t) == Inv' /\ Ends(t) /\ OwnJob(t)

LEMMA GotoFine ==
  ASSUME Inv, NEW t \in Task, Moves(t), NEW k \in Job, k.pc # "idle", Goto(t, k),
         k.call = job[t].call, Fits(rc', sc', k, seen'[t])
  PROVE  Fine(t)
<1>1. report[t] = NoReport /\ report \in [Task -> Report] /\ job \in [Task -> Job]
  BY ActiveFacts DEF Moves, Inv, TypeOK
<1>2. job' = [job EXCEPT ![t] = k] /\ report' = [report EXCEPT ![t] = NoReport]
  BY <1>1 DEF Goto
<1>3. Good(rc', sc', k, NoReport, seen'[t])
  BY DEF Good
<1>4. Inv'
  BY <1>2, <1>3, StepInv, IdleTypes
<1>5. ~Finished(t)
  BY <1>1, <1>2 DEF Finished
<1>6. OwnJob(t)
  BY <1>2 DEF OwnJob
<1>7. QED
  BY <1>4, <1>5, <1>6 DEF Fine, Ends

LEMMA AnswerFine ==
  ASSUME Inv, NEW t \in Task, Moves(t), NEW r \in Report, Answer(t, r),
         Answered(r, seen'[t]),
         r.ok /\ ~seen'[t].raced =>
           /\ r.dirty => seen'[t].differed \/ r.unread
           /\ ~r.dirty /\ r.op \in {"update", "merge"} =>
                IpsAt(rc, r.iface, r.key) = IpsAt(sc, r.iface, r.key)
           /\ ~r.dirty /\ r.op = "diff" /\ ~r.unread =>
                \A i \in Iface : Pairs(rc, i) = Pairs(sc, i)
  PROVE  Fine(t)
<1>1. job' = [job EXCEPT ![t] = IdleJob] /\ report' = [report EXCEPT ![t] = r]
  BY DEF Answer
<1>2. Good(rc', sc', IdleJob, r, seen'[t])
  BY IdleTypes DEF Good
<1>3. Inv'
  BY <1>1, <1>2, StepInv, IdleTypes
<1>4. report'[t] = r
  BY <1>1 DEF Inv, TypeOK
<1>5. OwnJob(t)
  BY <1>1 DEF OwnJob
<1>6. QED
  BY <1>3, <1>4, <1>5 DEF Fine, Ends, Finished

LEMMA RaiseFine ==
  ASSUME Inv, NEW t \in Task, Moves(t), Raise(t)
  PROVE  Fine(t)
<1> DEFINE r == [NoReport EXCEPT !.op = job[t].call.op]
<1>1. job[t].call.op \in Ops
  BY ActiveFacts, CallFacts DEF Moves
<1>2. r \in Report /\ ~r.ok /\ r.ips = {}
  BY <1>1, IdleTypes
<1>3. Answer(t, r)
  BY DEF Raise, Answer
<1> HIDE DEF r
<1>4. QED
  BY <1>2, <1>3, AnswerFine DEF Answered

\* A request that reads, ...
LEMMA ReadsMoves ==
  ASSUME Inv, NEW t \in Task, Active(t), Reads(t),
         owed' \in [Iface -> SUBSET (PeerKey \X Net)], NoLostIps'
  PROVE  Moves(t) /\ rc' = rc /\ sc' = sc
BY DEF Reads, Moves, Inv, TypeOK

\* ... and one that changes no history either.
LEMMA QuietMoves ==
  ASSUME Inv, NEW t \in Task, Active(t), Reads(t), UNCHANGED owed
  PROVE  Moves(t) /\ rc' = rc /\ sc' = sc
<1>1. NoLostIps'
  BY DEF Reads, Inv, NoLostIps, Pairs, IpsAt, PeersAt
<1>2. owed' \in [Iface -> SUBSET (PeerKey \X Net)]
  BY DEF Inv, TypeOK
<1>3. QED
  BY <1>1, <1>2, ReadsMoves

\* The history of a call that reads goes on.
LEMMA StillWatched ==
  ASSUME Inv, NEW t \in Task, Moves(t), NEW k,
         k.iface = job[t].iface \/ k.call.op \in {"create", "conf"}
  PROVE  Watched(rc', sc', k, seen'[t])
<1>1. /\ rc' # sc' => seen'[t].differed
      /\ NetsOn(rc', job[t].iface) \cup NetsOn(sc', job[t].iface) \subseteq seen'[t].held
  BY ObserveFacts DEF Moves
<1>2. QED
  BY <1>1 DEF Watched

-----------------------------------------------------------------------------
(* Reads before a write. *)

\* The job in another phase.
LEMMA PhaseFacts ==
  ASSUME NEW j \in Job, NEW p \in Phases
  PROVE  LET k == [j EXCEPT !.pc = p] IN
         /\ k \in Job /\ k.pc = p /\ k.call = j.call /\ k.iface = j.iface /\ k.was = j.was
         /\ k.unread = j.unread /\ k.cfg = j.cfg /\ k.other = j.other
BY DEF Job

\* The entries of one peer.
LEMMA EntriesFacts ==
  ASSUME NEW i \in Iface, NEW k \in PeerKey, NEW S \in SUBSET Net
  PROVE  /\ {<<i, k, n>> : n \in S} \subseteq Entry
         /\ NetsIn({<<i, k, n>> : n \in S}) = S
<1> DEFINE E == {<<i, k, n>> : n \in S}
<1>1. E \subseteq Entry
  BY DEF Entry
<1>2. ASSUME NEW n \in S PROVE n \in NetsIn(E)
  <2>1. <<i, k, n>> \in E /\ <<i, k, n>>[3] = n
    OBVIOUS
  <2>2. QED
    BY <2>1 DEF NetsIn
<1>3. ASSUME NEW n \in NetsIn(E) PROVE n \in S
  <2>1. PICK m \in S : n = <<i, k, m>>[3]
    BY DEF NetsIn
  <2>2. QED
    BY <2>1
<1>4. QED
  BY <1>1, <1>2, <1>3

LEMMA ReadFailsFine ==
  ASSUME Inv, NEW t \in Task, ReadFails(t)
  PROVE  Fine(t)
<1>1. Active(t) /\ Reads(t) /\ UNCHANGED owed
  BY DEF ReadFails, Active
<1>2. Moves(t)
  BY <1>1, QuietMoves
<1>3. CASE Raise(t)
  BY <1>2, <1>3, RaiseFine
<1>4. CASE Answer(t, [NoReport EXCEPT !.op = "diff", !.ok = TRUE, !.unread = TRUE])
  <2> DEFINE r == [NoReport EXCEPT !.op = "diff", !.ok = TRUE, !.unread = TRUE]
  <2>1. "diff" \in Ops
    BY DEF Ops, Readers
  <2>2. r \in Report /\ r.op = "diff" /\ r.unread /\ r.dirty = NoReport.dirty
    BY <2>1, IdleTypes DEF Report
  <2>3. ~r.dirty
    BY <2>2 DEF NoReport
  <2> HIDE DEF r
  <2>4. Answered(r, seen'[t])
    BY <2>2 DEF Answered
  <2>5. QED
    BY <1>2, <1>4, <2>2, <2>3, <2>4, AnswerFine DEF r
<1>5. QED
  BY <1>3, <1>4 DEF ReadFails

LEMMA LookForCreateFine ==
  ASSUME Inv, NEW t \in Task, LookForCreate(t)
  PROVE  Fine(t)
<1>1. PICK i \in NextWgId(rc) : Goto(t, [job[t] EXCEPT !.pc = "write", !.iface = i])
  BY DEF LookForCreate
<1> DEFINE k == [job[t] EXCEPT !.pc = "write", !.iface = i]
<1>2. Active(t) /\ job[t].call.op = "create"
  BY DEF LookForCreate, Active
<1>3. Moves(t) /\ rc' = rc
  BY <1>2, QuietMoves DEF LookForCreate
<1>4. i \in Iface /\ i \notin DOMAIN rc /\ "write" \in Phases
  BY DEF NextWgId, Phases
<1>5. k \in Job /\ k.pc = "write" /\ k.iface = i /\ k.call = job[t].call
  BY <1>2, <1>4, ActiveFacts DEF Job
<1> HIDE DEF k
<1>6. Ordered(k) /\ Alone(rc', sc', k)
  BY <1>2, <1>3, <1>4, <1>5 DEF Ordered, Alone, Writers, IfaceWriters, Rewriters
<1>7. Watched(rc', sc', k, seen'[t])
  BY <1>2, <1>3, <1>5, StillWatched
<1>8. QED
  BY <1>1, <1>3, <1>5, <1>6, <1>7, GotoFine DEF Fits, k

LEMMA LookForConfFine ==
  ASSUME Inv, NEW t \in Task, LookForConf(t)
  PROVE  Fine(t)
<1> DEFINE p == IF job[t].iface \in DOMAIN rc THEN "conf" ELSE "make"
           k == [job[t] EXCEPT !.pc = p]
<1>1. Active(t) /\ job[t].call.op = "conf" /\ Goto(t, k)
  BY DEF LookForConf, Active
<1>2. Moves(t)
  BY <1>1, QuietMoves DEF LookForConf
<1>3. p \in {"conf", "make"} /\ p \in Phases
  BY DEF Phases
<1> HIDE DEF p
<1>4. k \in Job /\ k.pc = p /\ k.iface = job[t].iface /\ k.call = job[t].call
  BY <1>1, <1>3, ActiveFacts, PhaseFacts
<1> HIDE DEF k
<1>5. Ordered(k) /\ Alone(rc', sc', k)
  BY <1>1, <1>3, <1>4 DEF Ordered, Alone
<1>6. Watched(rc', sc', k, seen'[t])
  BY <1>2, <1>4, StillWatched
<1>7. QED
  BY <1>1, <1>2, <1>3, <1>4, <1>5, <1>6, GotoFine DEF Fits

LEMMA LookForIfaceFine ==
  ASSUME Inv, NEW t \in Task, LookForIface(t)
  PROVE  Fine(t)
<1> DEFINE j == job[t]
           p == CASE j.call.op \in {"state", "delete"} -> "write"
                  [] j.call.op = "add" -> "check"
                  [] OTHER -> "first"
           live == DOMAIN PeersAt(rc, j.iface)
           k == [j EXCEPT !.live = live, !.pc = p]
<1>1. /\ Active(t) /\ j.call.op \in {"state", "delete", "add", "get", "getSaved", "runtime"}
      /\ Raise(t) \/ Goto(t, k)
  BY DEF LookForIface, Active
<1>2. Moves(t)
  BY <1>1, QuietMoves DEF LookForIface
<1>3. /\ p \in Phases /\ p # "idle"
      /\ \/ p = "write" /\ j.call.op \in {"state", "delete"}
         \/ p = "check" /\ j.call.op = "add"
         \/ p = "first" /\ j.call.op \in Readers
  BY <1>1 DEF Phases, Readers
<1>4. live \subseteq PeerKey
  BY AtFacts DEF Inv, TypeOK
<1> HIDE DEF p, live
<1>5. k \in Job /\ k.pc = p /\ k.iface = j.iface /\ k.call = j.call
  BY <1>1, <1>3, <1>4, ActiveFacts DEF Job
<1> HIDE DEF k
<1>6. Ordered(k) /\ Alone(rc', sc', k)
  BY <1>3, <1>5 DEF Ordered, Alone, Writers, IfaceWriters, Rewriters
<1>7. Watched(rc', sc', k, seen'[t])
  BY <1>2, <1>5, StillWatched
<1>8. QED
  BY <1>1, <1>2, <1>3, <1>5, <1>6, <1>7, GotoFine, RaiseFine DEF Fits

LEMMA CheckDuplicateFine ==
  ASSUME Inv, NEW t \in Task, CheckDuplicate(t)
  PROVE  Fine(t)
<1> DEFINE j == job[t]
<1>1. Active(t) /\ j.pc = "check"
  BY DEF CheckDuplicate, Active
<1>2. Moves(t) /\ rc' = rc
  BY <1>1, QuietMoves DEF CheckDuplicate
<1>3. j.call.op = "add"
  BY <1>1, ActiveFacts DEF Fits, Ordered
<1>4. ASSUME NEW u \in BOOLEAN, Goto(t, [j EXCEPT !.pc = "write", !.unread = u]),
             u \/ j.call.key \notin DOMAIN PeersAt(rc, j.iface)
      PROVE  Fine(t)
  <2> DEFINE k == [j EXCEPT !.pc = "write", !.unread = u]
  <2>1. "write" \in Phases
    BY DEF Phases
  <2>2. k \in Job /\ k.pc = "write" /\ k.iface = j.iface /\ k.call = j.call /\ k.unread = u
    BY <1>1, <2>1, ActiveFacts DEF Job
  <2> HIDE DEF k
  <2>3. Ordered(k) /\ Alone(rc', sc', k)
    BY <1>2, <1>3, <1>4, <2>2 DEF Ordered, Alone, Writers, PeerWriters, Rewriters
  <2>4. Watched(rc', sc', k, seen'[t])
    BY <1>2, <2>2, StillWatched
  <2>5. QED
    BY <1>2, <1>4, <2>2, <2>3, <2>4, GotoFine DEF Fits, k
<1>5. CASE Raise(t)
  BY <1>2, <1>5, RaiseFine
<1>6. CASE /\ j.call.key \notin DOMAIN PeersAt(rc, j.iface)
           /\ Goto(t, [j EXCEPT !.pc = "write"])
  <2>1. j \in Job
    BY <1>1, ActiveFacts
  <2> DEFINE u == j.unread
  <2>2. u \in BOOLEAN /\ [j EXCEPT !.pc = "write"] = [j EXCEPT !.pc = "write", !.unread = u]
    BY <2>1 DEF Job
  <2> HIDE DEF u
  <2>3. QED
    BY <1>4, <1>6, <2>2
<1>7. CASE Goto(t, [j EXCEPT !.pc = "write", !.unread = TRUE])
  BY <1>4, <1>7
<1>8. QED
  BY <1>5, <1>6, <1>7 DEF CheckDuplicate

LEMMA LookForPeerFine ==
  ASSUME Inv, NEW t \in Task, LookForPeer(t)
  PROVE  Fine(t)
<1> DEFINE j == job[t]
           was == IpsAt(rc, j.iface, j.call.key)
           found == j.call.key \in DOMAIN PeersAt(rc, j.iface)
           noop == j.call.op = "merge" /\ j.call.ips \subseteq was
           p == IF noop THEN "saved" ELSE "write"
           alive == rc[j.iface].peers[j.call.key].alive
           cfg == IF noop THEN {<<j.iface, j.call.key, n>> : n \in was} ELSE {}
           k == [j EXCEPT !.pc = p, !.was = was, !.alive = alive, !.cfg = cfg]
<1>1. /\ Active(t) /\ j.call.op \in Rewriters
      /\ Raise(t) \/ (found /\ ~(j.call.ips = {} /\ was = {}) /\ Goto(t, k))
  BY DEF LookForPeer, Active, Rewriters
<1>2. Moves(t) /\ rc' = rc
  BY <1>1, QuietMoves DEF LookForPeer
<1>3. /\ j \in Job /\ j.iface \in Iface /\ j.call.key \in PeerKey /\ rc \in Config
      /\ j.call.op = "merge" => j.call.ips # {}
  BY <1>1, ActiveFacts, CallFacts DEF Inv, TypeOK
<1>4. CASE found /\ ~(j.call.ips = {} /\ was = {}) /\ Goto(t, k)
  <2>1. was \subseteq Net
    BY <1>3, AtFacts
  <2>2. alive \in Interval
    <3>1. j.iface \in DOMAIN rc /\ PeersAt(rc, j.iface) = rc[j.iface].peers
      BY <1>4, NoPeersType DEF PeersAt
    <3>2. QED
      BY <1>3, <1>4, <3>1, ConfigElim, PeersElim
  <2>3. cfg \subseteq Entry /\ (noop => NetsIn(cfg) = was)
    <3>1. NetsIn({<<j.iface, j.call.key, n>> : n \in was}) = was
          /\ {<<j.iface, j.call.key, n>> : n \in was} \subseteq Entry
      BY <1>3, <2>1, EntriesFacts
    <3>2. QED
      BY <3>1
  <2>4. p \in Phases /\ p # "idle" /\ p = IF noop THEN "saved" ELSE "write"
    BY DEF Phases
  <2>5. noop => was # {}
    BY <1>3
  <2> HIDE DEF p, alive, cfg
  <2>6. was = IpsAt(rc, j.iface, j.call.key)
    OBVIOUS
  <2>7. ~noop => (IF j.call.op = "merge" THEN was \cup j.call.ips
                  ELSE IF j.call.ips = {} THEN was ELSE j.call.ips) # {}
    BY <1>4
  <2> HIDE DEF was, noop
  <2>8. /\ k \in Job /\ k.pc = p /\ k.was = was /\ k.cfg = cfg /\ k.call = j.call
        /\ k.iface = j.iface
    BY <1>3, <2>1, <2>2, <2>3, <2>4 DEF Job
  <2> HIDE DEF k
  <2>9. ~noop => Rewritten(k) # {}
    BY <1>1, <2>7, <2>8 DEF Rewritten, Rewriters
  <2>10. Ordered(k) /\ Alone(rc', sc', k)
    BY <1>1, <1>2, <2>3, <2>4, <2>5, <2>6, <2>8, <2>9
       DEF Ordered, Alone, Writers, PeerWriters, Rewriters
  <2>11. Watched(rc', sc', k, seen'[t])
    BY <1>2, <2>8, StillWatched
  <2>12. QED
    BY <1>2, <1>4, <2>4, <2>8, <2>10, <2>11, GotoFine DEF Fits
<1>5. QED
  BY <1>1, <1>2, <1>4, RaiseFine

-----------------------------------------------------------------------------
(* Writes. *)

\* What is owed stays there, when an interface keeps all it has.
LEMMA MoreIps ==
  ASSUME NEW f \in Config, NEW g \in Config, NEW o, NEW x, o \subseteq Pairs(f, x),
         \A y : IpsAt(f, x, y) \subseteq IpsAt(g, x, y)
  PROVE  o \subseteq Pairs(g, x)
<1> SUFFICES ASSUME NEW p \in o PROVE p \in Pairs(g, x)
  OBVIOUS
<1>1. p \in PeerKey \X Net /\ p \in Pairs(f, x)
  BY PairsFacts
<1>2. p[2] \in IpsAt(f, x, p[1])
  BY <1>1, PairsFacts
<1>3. p[2] \in IpsAt(g, x, p[1])
  BY <1>2
<1>4. QED
  BY <1>1, <1>3, PairsFacts

LEMMA OwingFacts ==
  ASSUME Inv, NEW t \in Task, Active(t), NEW o, Made(rc, job[t], o),
         job[t].pc \in {"make", "conf", "write"},
         rc' = o.cfg, owed' = Owing(t, o)
  PROVE  owed' \in [Iface -> SUBSET (PeerKey \X Net)] /\ NoLostIps'
<1> DEFINE j == job[t]
           i == j.iface
           k == j.call.key
           gone == {p \in owed[i] :
                 /\ p[1] = k
                 /\ \/ j.call.op = "remove" \/ o.bad \/ seen[t].raced
                    \/ j.call.op = "update" /\ j.call.ips # {} /\ p[2] \notin j.call.ips
                    \/ p[2] \in Rewritten(j) \ IpsAt(o.cfg, i, p[1])}
           left == CASE j.call.op = "delete" -> {}
                     [] j.call.op \in {"remove", "update", "merge"} -> owed[i] \ gone
                     [] OTHER -> owed[i]
<1>1. /\ j \in Job /\ i \in Iface /\ k \in PeerKey /\ Fits(rc, sc, j, seen[t])
      /\ rc \in Config /\ o.cfg \in Config
      /\ owed \in [Iface -> SUBSET (PeerKey \X Net)]
      /\ \A x \in Iface : owed[x] \subseteq Pairs(rc, x)
      /\ \A x, y : x # i => IpsAt(o.cfg, x, y) = IpsAt(rc, x, y)
  BY ActiveFacts, CallFacts DEF Inv, TypeOK, NoLostIps, Made, Changed
<1>2. owed' = [owed EXCEPT ![i] = left]
  <2>1. CASE j.call.op = "delete"
    BY <2>1 DEF Owing
  <2>2. CASE j.call.op \in {"remove", "update", "merge"}
    BY <2>2 DEF Owing
  <2>3. CASE j.call.op \notin {"delete", "remove", "update", "merge"}
    BY <1>1, <2>3 DEF Owing
  <2>4. QED
    BY <2>1, <2>2, <2>3
<1>3. left \subseteq owed[i]
  OBVIOUS
<1>4. left \subseteq Pairs(o.cfg, i)
  <2>1. CASE j.call.op = "delete"
    BY <2>1
  <2>2. CASE j.call.op \notin {"delete", "remove", "update", "merge"}
    <3>1. \A y : IpsAt(rc, i, y) \subseteq IpsAt(o.cfg, i, y)
      BY <2>2 DEF Made, Rewriters
    <3>2. owed[i] \subseteq Pairs(o.cfg, i)
      BY <1>1, <3>1, MoreIps
    <3>3. QED
      BY <1>3, <3>2
  <2>3. CASE j.call.op \in {"remove", "update", "merge"}
    <3> SUFFICES ASSUME NEW p \in left PROVE p \in Pairs(o.cfg, i)
      OBVIOUS
    <3>1. p \in owed[i] /\ p \notin gone
      BY <2>3
    <3>2. p \in PeerKey \X Net /\ p \in Pairs(rc, i)
      BY <1>1, <3>1
    <3>3. p[2] \in IpsAt(rc, i, p[1])
      BY <1>1, <3>2, PairsFacts
    <3>4. CASE p[1] # k
      <4>1. IpsAt(rc, i, p[1]) \subseteq IpsAt(o.cfg, i, p[1])
        BY <2>3, <3>4 DEF Made
      <4>2. p[2] \in IpsAt(o.cfg, i, p[1])
        BY <3>3, <4>1
      <4>3. QED
        BY <1>1, <3>2, <4>2, PairsFacts
    <3>5. CASE p[1] = k
      <4>1. /\ j.call.op # "remove" /\ ~seen[t].raced
            /\ ~(j.call.op = "update" /\ j.call.ips # {} /\ p[2] \notin j.call.ips)
            /\ ~(p[2] \in Rewritten(j) \ IpsAt(o.cfg, i, p[1]))
        BY <3>1, <3>5
      <4>2. j.pc = "write"
        BY <1>1, <2>3 DEF Fits, Ordered
      <4>3. j.was = IpsAt(rc, i, k)
        BY <1>1, <2>3, <4>1, <4>2 DEF Fits, Alone, Rewriters
      <4>4. p[2] \in Rewritten(j)
        BY <2>3, <3>3, <3>5, <4>1, <4>3 DEF Rewritten
      <4>5. QED
        BY <1>1, <3>2, <4>1, <4>4, PairsFacts
    <3>6. QED
      BY <3>4, <3>5
  <2>4. QED
    BY <2>1, <2>2, <2>3
<1> HIDE DEF left
<1>5. owed' \in [Iface -> SUBSET (PeerKey \X Net)]
  BY <1>1, <1>2, <1>3
<1>6. ASSUME NEW x \in Iface PROVE owed'[x] \subseteq Pairs(rc', x)
  <2>1. CASE x = i
    BY <1>1, <1>2, <1>4, <2>1
  <2>2. CASE x # i
    <3>1. owed'[x] = owed[x]
      BY <1>1, <1>2, <2>2
    <3>2. \A y : IpsAt(rc, x, y) \subseteq IpsAt(o.cfg, x, y)
      BY <1>1, <2>2
    <3>3. QED
      BY <1>1, <3>1, <3>2, MoreIps
  <2>3. QED
    BY <2>1, <2>2
<1>7. QED
  BY <1>5, <1>6 DEF NoLostIps

\* The answer of the calls that do not look back.
LEMMA PlainReport ==
  ASSUME NEW j \in Job, NEW ips \in SUBSET Net
  PROVE  LET r == [NoReport EXCEPT !.op = j.call.op, !.ok = TRUE, !.iface = j.iface,
                      !.key = j.call.key, !.unread = j.unread, !.ips = ips,
                      !.persisted = j.call.save] IN
         r \in Report /\ r.op = j.call.op /\ ~r.dirty
<1> DEFINE op == j.call.op
           i == j.iface
           k == j.call.key
           u == j.unread
           s == j.call.save
           r == [NoReport EXCEPT !.op = op, !.ok = TRUE, !.iface = i,
                      !.key = k, !.unread = u, !.ips = ips, !.persisted = s]
<1>1. op \in Ops /\ i \in Iface /\ k \in PeerKey
  BY CallFacts
<1>2. u \in BOOLEAN /\ s \in BOOLEAN
  BY DEF Job, Call
<1> HIDE DEF op, i, k, u, s
<1>3. r \in Report /\ r.op = op /\ r.dirty = NoReport.dirty
  BY <1>1, <1>2, IdleTypes DEF Report
<1>4. QED
  BY <1>3 DEF NoReport, op, i, k, u, s

LEMMA AfterWriteFine ==
  ASSUME Inv, NEW t \in Task, Moves(t), job[t].pc \in {"make", "conf", "write"},
         AfterWrite(t),
         job[t].call.op \in Rewriters => IpsAt(rc', job[t].iface, job[t].call.key) # {}
  PROVE  Fine(t)
<1> DEFINE j == job[t]
<1>1. /\ j \in Job /\ Ordered(j)
  BY ActiveFacts DEF Moves, Fits
<1>2. /\ j.pc \in {"make", "conf"} => j.call.op = "conf"
      /\ j.pc = "write" => j.call.op \in Writers
  BY <1>1 DEF Ordered
<1>3. ASSUME NEW p \in {"conf", "write", "see", "after"}, Goto(t, [j EXCEPT !.pc = p]),
             p \in {"conf", "write"} => j.call.op = "conf",
             p = "see" => j.call.op \in {"create", "conf", "state"},
             p = "after" => j.call.op \in Rewriters
      PROVE  Fine(t)
  <2> DEFINE k == [j EXCEPT !.pc = p]
  <2>1. p \in Phases
    BY DEF Phases
  <2>2. k \in Job /\ k.pc = p /\ k.iface = j.iface /\ k.call = j.call
    BY <1>1, <2>1, PhaseFacts
  <2> HIDE DEF k
  <2>3. Ordered(k) /\ Alone(rc', sc', k)
    BY <1>3, <2>2 DEF Ordered, Alone, Writers, IfaceWriters, Rewriters
  <2>4. Watched(rc', sc', k, seen'[t])
    BY <2>2, StillWatched
  <2>5. QED
    BY <1>3, <2>2, <2>3, <2>4, GotoFine DEF Fits, k
<1>4. CASE j.pc = "make"
  BY <1>2, <1>3, <1>4 DEF AfterWrite
<1>5. CASE j.pc = "conf"
  BY <1>2, <1>3, <1>5 DEF AfterWrite
<1>6. CASE j.pc = "write" /\ j.call.op \in {"create", "conf", "state"}
  BY <1>3, <1>6 DEF AfterWrite
<1>7. CASE j.pc = "write" /\ j.call.op \in {"update", "merge"}
  BY <1>3, <1>7 DEF AfterWrite, Rewriters
<1>8. CASE j.pc = "write" /\ j.call.op \in {"add", "remove", "delete"}
  <2> DEFINE ips == IF j.call.op = "add" THEN j.call.ips ELSE {}
             r == [NoReport EXCEPT !.op = j.call.op, !.ok = TRUE, !.iface = j.iface,
                      !.key = j.call.key, !.unread = j.unread, !.ips = ips,
                      !.persisted = j.call.save]
  <2>1. ips \in SUBSET Net
    BY <1>1, CallFacts
  <2>2. Answer(t, r)
    BY <1>8 DEF AfterWrite
  <2> HIDE DEF ips
  <2>3. r \in Report /\ r.op = j.call.op /\ ~r.dirty
    BY <1>1, <2>1, PlainReport
  <2> HIDE DEF r
  <2>4. QED
    BY <1>8, <2>2, <2>3, AnswerFine DEF Answered
<1>9. QED
  BY <1>2, <1>4, <1>5, <1>6, <1>7, <1>8 DEF Writers, PeerWriters, IfaceWriters

\* A writing request changes one interface at most.
Single == \E i \in Iface : SameBut(i, rc, rc')

LEMMA WriteFine ==
  ASSUME Inv, NEW t \in Task, Write(t)
  PROVE  Fine(t) /\ Single
<1> DEFINE j == job[t]
<1>1. PICK o \in Outcomes(rc, j) :
        /\ rc' = o.cfg
        /\ sc' = IF Saves(j) THEN o.cfg ELSE sc
        /\ owed' = Owing(t, o)
        /\ \/ ~o.bad /\ AfterWrite(t)
           \/ o.bad /\ Raise(t)
           \/ "lost" \in Faults /\ Raise(t)
  BY DEF Write
<1>2. Active(t) /\ j.pc \in {"make", "conf", "write"}
  BY DEF Write, Active
<1>3. j \in Job /\ Ordered(j) /\ rc \in Config /\ sc \in Config
  BY <1>2, ActiveFacts DEF Fits, Inv, TypeOK
<1>4. Made(rc, j, o)
  BY <1>1, <1>2, <1>3, OutcomesMade
<1>5. Moves(t)
  <2>1. rc' \in Config /\ sc' \in Config
    BY <1>1, <1>3, <1>4 DEF Made, Changed
  <2>2. QED
    BY <1>1, <1>2, <1>4, <2>1, OwingFacts DEF Write, Moves
<1>6. Single
  BY <1>1, <1>3, <1>4, CallFacts DEF Made, Changed, Single
<1>7. QED
  BY <1>1, <1>2, <1>4, <1>5, <1>6, AfterWriteFine, RaiseFine DEF Made

LEMMA ImportFine ==
  ASSUME Inv, NEW t \in Task, Import(t)
  PROVE  Fine(t) /\ Single
<1> DEFINE j == job[t]
<1>1. Active(t) /\ j.pc = "conf" /\ UNCHANGED <<sc, calls, owed>> /\ Observe(t)
  BY DEF Import, Active
<1>2. j \in Job /\ j.call.op = "conf" /\ rc \in Config /\ sc \in Config
  BY <1>1, ActiveFacts DEF Fits, Ordered, Inv, TypeOK
<1>3. CASE rc' = rc /\ Raise(t)
  <2>1. Moves(t)
    BY <1>1, <1>3, QuietMoves DEF Reads
  <2>2. Single
    BY <1>2, <1>3, CallFacts DEF SameBut, Single
  <2>3. QED
    BY <1>3, <2>1, <2>2, RaiseFine
<1>4. ASSUME NEW i \in Iface \ DOMAIN rc, NEW o \in Items(rc, [j EXCEPT !.iface = i]),
             rc' = o.cfg,
             Goto(t, [j EXCEPT !.pc = "write", !.iface = i]) \/ Raise(t)
      PROVE  Fine(t) /\ Single
  <2> DEFINE l == [j EXCEPT !.iface = i]
             k == [j EXCEPT !.pc = "write", !.iface = i]
  <2>1. /\ l \in Job /\ l.iface = i /\ l.call = j.call /\ l.pc = "conf"
        /\ k \in Job /\ k.iface = i /\ k.call = j.call /\ k.pc = "write"
    <3>1. "write" \in Phases
      BY DEF Phases
    <3>2. QED
      BY <1>1, <1>2, <3>1 DEF Job
  <2>2. o \in Outcomes(rc, l)
    BY <1>4 DEF Outcomes
  <2> HIDE DEF l
  <2>3. Ordered(l)
    BY <1>2, <2>1 DEF Ordered
  <2>4. Made(rc, l, o)
    BY <1>2, <2>1, <2>2, <2>3, OutcomesMade
  <2>5. /\ o.cfg \in Config
        /\ \A x, y : IpsAt(rc, x, y) \subseteq IpsAt(o.cfg, x, y)
    BY <1>2, <2>1, <2>4 DEF Made, Changed, Rewriters
  <2>6. NoLostIps'
    <3>1. ASSUME NEW x \in Iface PROVE owed[x] \subseteq Pairs(o.cfg, x)
      BY <1>2, <2>5, MoreIps DEF Inv, NoLostIps
    <3>2. QED
      BY <1>1, <1>4, <3>1 DEF NoLostIps
  <2>7. Moves(t)
    BY <1>1, <1>2, <1>4, <2>5, <2>6 DEF Moves, Inv, TypeOK
  <2>8. ASSUME Goto(t, k) PROVE Fine(t)
    <3> HIDE DEF k
    <3>1. Ordered(k) /\ Alone(rc', sc', k)
      BY <1>2, <2>1 DEF Ordered, Alone, Writers, IfaceWriters, Rewriters
    <3>2. Watched(rc', sc', k, seen'[t])
      BY <1>2, <2>1, <2>7, StillWatched
    <3>3. QED
      BY <2>1, <2>7, <2>8, <3>1, <3>2, GotoFine DEF Fits
  <2>9. Single
    BY <1>4, <2>1, <2>4 DEF Made, Changed, Single
  <2>10. QED
    BY <1>4, <2>7, <2>8, <2>9, RaiseFine
<1>5. QED
  BY <1>3, <1>4 DEF Import

LEMMA LoseFine ==
  ASSUME Inv, NEW t \in Task, Lose(t)
  PROVE  Fine(t)
<1>1. Active(t) /\ Reads(t) /\ UNCHANGED owed
  BY DEF Lose, Active
<1>2. Moves(t)
  BY <1>1, QuietMoves
<1>3. QED
  BY <1>2, RaiseFine DEF Lose

-----------------------------------------------------------------------------
(* Reads after a write. *)

LEMMA SeeFine ==
  ASSUME Inv, NEW t \in Task, See(t)
  PROVE  Fine(t)
<1> DEFINE j == job[t]
           op == j.call.op
           s == j.call.save
           i == j.iface
           r == [NoReport EXCEPT !.op = op, !.ok = TRUE, !.iface = i, !.persisted = s]
<1>1. Active(t) /\ j.pc = "see" /\ Answer(t, r)
  BY DEF See, Active
<1>2. Moves(t)
  BY <1>1, QuietMoves DEF See
<1>3. op \in Ops /\ i \in Iface /\ s \in BOOLEAN /\ op \in {"create", "conf", "state"}
  BY <1>1, ActiveFacts, CallFacts DEF Fits, Ordered, Call
<1> HIDE DEF op, i, s
<1>4. r \in Report /\ r.op = op /\ r.dirty = NoReport.dirty
  BY <1>3, IdleTypes DEF Report
<1>5. ~r.dirty
  BY <1>4 DEF NoReport
<1> HIDE DEF r
<1>6. QED
  BY <1>1, <1>2, <1>3, <1>4, <1>5, AnswerFine DEF Answered

LEMMA ReadAfterFine ==
  ASSUME Inv, NEW t \in Task, ReadAfter(t)
  PROVE  Fine(t)
<1> DEFINE j == job[t]
           ips == IpsAt(rc, j.iface, j.call.key)
           gone == j.call.key \notin DOMAIN PeersAt(rc, j.iface)
           now == IF gone /\ j.call.op = "update" THEN Rewritten(j) ELSE ips
           cfg == {<<j.iface, j.call.key, n>> : n \in now}
           k == [j EXCEPT !.pc = "saved", !.cfg = cfg]
<1>1. Active(t) /\ j.pc = "after" /\ Goto(t, k)
  BY DEF ReadAfter, Active
<1>2. Moves(t) /\ rc' = rc
  BY <1>1, QuietMoves DEF ReadAfter
<1>3. /\ j \in Job /\ j.call.op \in Rewriters /\ rc \in Config
      /\ ~seen[t].raced => ips # {}
  BY <1>1, ActiveFacts DEF Fits, Ordered, Alone, Inv, TypeOK
<1>4. now \in SUBSET Net
  BY <1>3, AtFacts, CallFacts
<1>5. ips # {} => now = ips
  BY <1>3, AtFacts
<1>6. cfg \subseteq Entry /\ NetsIn(cfg) = now
  <2> HIDE DEF now
  <2>1. QED
    BY <1>3, <1>4, CallFacts, EntriesFacts
<1> HIDE DEF cfg, now
<1>7. k \in Job /\ k.pc = "saved" /\ k.cfg = cfg /\ k.call = j.call /\ k.iface = j.iface
  <2>1. "saved" \in Phases
    BY DEF Phases
  <2>2. QED
    BY <1>3, <1>6, <2>1 DEF Job
<1> HIDE DEF k
<1>8. Ordered(k)
  BY <1>3, <1>7 DEF Ordered
<1>9. ~seen'[t].raced => Alone(rc', sc', k)
  <2>1. seen'[t].raced = seen[t].raced
    BY <1>2, ObserveFacts
  <2>2. QED
    BY <1>2, <1>3, <1>5, <1>6, <1>7, <2>1 DEF Alone
<1>10. Watched(rc', sc', k, seen'[t])
  BY <1>2, <1>7, StillWatched
<1>11. QED
  BY <1>1, <1>2, <1>7, <1>8, <1>9, <1>10, GotoFine DEF Fits

LEMMA PeerReportFacts ==
  ASSUME NEW k \in Job, NEW saved \in SUBSET Net
  PROVE  LET r == PeerReport(k, saved) IN
         /\ r \in Report /\ r.op = k.call.op /\ r.iface = k.iface /\ r.key = k.call.key
         /\ r.ips = NetsIn(k.cfg) /\ r.added \subseteq r.ips /\ r.unread = k.unread
         /\ r.dirty = (NetsIn(k.cfg) # saved)
<1> DEFINE op == k.call.op
           i == k.iface
           key == k.call.key
           now == NetsIn(k.cfg)
           added == IF k.call.op = "merge" THEN (k.call.ips \ k.was) \cap now ELSE now \ k.was
           d == now # saved
           s == k.call.save
           u == k.unread
           r == [NoReport EXCEPT !.op = op, !.ok = TRUE, !.iface = i, !.key = key, !.ips = now,
                                 !.added = added, !.dirty = d, !.persisted = s, !.unread = u]
<1>1. PeerReport(k, saved) = r
  BY DEF PeerReport, NetsIn
<1>2. /\ op \in Ops /\ i \in Iface /\ key \in PeerKey /\ s \in BOOLEAN /\ u \in BOOLEAN
      /\ d \in BOOLEAN
  BY CallFacts DEF Job, Call
<1>3. now \subseteq Net
  <2>1. k.cfg \subseteq Iface \X PeerKey \X Net
    BY DEF Job, Entry
  <2>2. QED
    BY <2>1 DEF NetsIn
<1>4. added \subseteq now
  OBVIOUS
<1>5. d = (NetsIn(k.cfg) # saved) /\ now = NetsIn(k.cfg)
  OBVIOUS
<1> HIDE DEF op, i, key, now, added, d, s, u
<1>6. /\ r \in Report /\ r.op = op /\ r.iface = i /\ r.key = key /\ r.ips = now
      /\ r.added = added /\ r.dirty = d /\ r.unread = u
  BY <1>2, <1>3, <1>4, IdleTypes DEF Report
<1> HIDE DEF r
<1>7. QED
  BY <1>1, <1>4, <1>5, <1>6 DEF op, i, key, u

LEMMA ReadSavedFine ==
  ASSUME Inv, NEW t \in Task, ReadSaved(t)
  PROVE  Fine(t)
<1> DEFINE j == job[t]
           key == j.call.key
           ips == IpsAt(rc, j.iface, key)
           there == IpsAt(sc, j.iface, key)
<1>1. Active(t) /\ j.pc = "saved" /\ Reads(t)
  BY DEF ReadSaved, Active
<1>2. /\ j \in Job /\ j.call.op \in Rewriters /\ rc \in Config /\ sc \in Config
      /\ ~seen[t].raced => NetsIn(j.cfg) = ips /\ ips # {}
      /\ key \in PeerKey /\ j.iface \in Iface
      /\ Watched(rc, sc, j, seen[t])
  BY <1>1, ActiveFacts, CallFacts DEF Fits, Ordered, Alone, Inv, TypeOK
<1>3. PICK k, saved : /\ Answer(t, PeerReport(k, saved))
                      /\ \/ k = j /\ saved = there
                         \/ k = [j EXCEPT !.unread = TRUE] /\ saved = {}
  BY DEF ReadSaved
<1>4. /\ k \in Job /\ k.call = j.call /\ k.iface = j.iface /\ k.cfg = j.cfg
      /\ saved \in SUBSET Net
      /\ saved = there \/ (saved = {} /\ k.unread)
  <2>1. there \subseteq Net
    BY <1>2, AtFacts
  <2>2. QED
    BY <1>2, <1>3, <2>1 DEF Job
<1> DEFINE r == PeerReport(k, saved)
<1>5. /\ r \in Report /\ r.op = j.call.op /\ r.iface = j.iface /\ r.key = key
      /\ r.ips = NetsIn(j.cfg) /\ r.added \subseteq r.ips /\ r.unread = k.unread
      /\ r.dirty = (NetsIn(j.cfg) # saved)
  BY <1>4, PeerReportFacts
<1>6. Answer(t, r)
  BY <1>3
<1> HIDE DEF r
<1>7. report'[t] = r
  BY <1>6 DEF Answer, Inv, TypeOK
<1> DEFINE new == {<<key, n>> : n \in {m \in r.added : ~seen[t].raced}}
<1>8. owed' = [owed EXCEPT ![j.iface] = @ \cup new]
  BY <1>7 DEF ReadSaved
<1>9. new \subseteq Pairs(rc, j.iface)
  <2> SUFFICES ASSUME NEW n \in r.added, ~seen[t].raced
               PROVE  <<key, n>> \in Pairs(rc, j.iface)
    OBVIOUS
  <2>1. n \in ips
    BY <1>2, <1>5
  <2>2. <<key, n>> \in PeerKey \X Net
    BY <1>2, <2>1, AtFacts
  <2>3. QED
    BY <1>2, <2>1, <2>2, PairsFacts
<1> HIDE DEF new
<1>10. /\ owed' \in [Iface -> SUBSET (PeerKey \X Net)]
       /\ \A i \in Iface : owed'[i] \subseteq Pairs(rc, i)
  <2>1. owed \in [Iface -> SUBSET (PeerKey \X Net)] /\ \A i \in Iface : owed[i] \subseteq Pairs(rc, i)
    BY DEF Inv, TypeOK, NoLostIps
  <2>2. new \subseteq PeerKey \X Net
    BY <1>2, <1>9, PairsFacts
  <2>3. QED
    BY <1>2, <1>8, <1>9, <2>1, <2>2
<1>11. Moves(t) /\ rc' = rc /\ sc' = sc
  <2>1. NoLostIps'
    BY <1>1, <1>10 DEF NoLostIps, Reads
  <2>2. QED
    BY <1>1, <1>10, <2>1, ReadsMoves
<1>12. /\ seen'[t].raced = seen[t].raced
       /\ rc # sc => seen'[t].differed
       /\ NetsOn(rc, j.iface) \subseteq seen'[t].held
  BY <1>11, ObserveFacts DEF Moves
<1>13. Answered(r, seen'[t])
  <2>1. ips \subseteq NetsOn(rc, j.iface)
    BY <1>2, PairsFacts
  <2>2. QED
    BY <1>2, <1>5, <1>12, <2>1 DEF Answered
<1>14. ~seen'[t].raced /\ ~k.unread /\ r.dirty => seen'[t].differed
  BY <1>2, <1>4, <1>5, <1>12
<1>15. ~seen'[t].raced /\ ~r.dirty => IpsAt(rc, j.iface, key) = IpsAt(sc, j.iface, key)
  BY <1>2, <1>4, <1>5, <1>12
<1>16. r.op # "diff"
  BY <1>2, <1>5 DEF Rewriters
<1>17. QED
  BY <1>5, <1>6, <1>11, <1>13, <1>14, <1>15, <1>16, AnswerFine

-----------------------------------------------------------------------------
(* The readers. *)

LEMMA FoundFacts ==
  ASSUME NEW f \in Config, NEW j \in Job
  PROVE  /\ Found(j, f) \subseteq Entry
         /\ j.call.op # "diff" => NetsIn(Found(j, f)) \subseteq NetsOn(f, j.iface)
<1>1. Found(j, f) \subseteq Entry
  BY DEF Found
<1>2. ASSUME j.call.op # "diff", NEW n \in NetsIn(Found(j, f))
      PROVE  n \in NetsOn(f, j.iface)
  <2>1. PICK e \in Found(j, f) : n = e[3]
    BY <1>2 DEF NetsIn
  <2>2. e \in Entry /\ e[3] \in IpsAt(f, e[1], e[2]) /\ e[1] = j.iface
    BY <1>2 DEF Found
  <2>3. e[2] \in PeerKey
    BY <2>2 DEF Entry
  <2>4. QED
    BY <2>1, <2>2, <2>3, PairsFacts
<1>3. QED
  BY <1>1, <1>2

\* What diff_sc_rc finds tells configurations with different AllowedIPs apart.
LEMMA FoundAll ==
  ASSUME NEW f \in Config, NEW g \in Config, NEW j \in Job, j.call.op = "diff",
         Found(j, f) = Found(j, g), NEW i \in Iface
  PROVE  Pairs(f, i) = Pairs(g, i)
<1>1. ASSUME NEW h \in Config, NEW p \in PeerKey \X Net
      PROVE  p \in Pairs(h, i) <=> <<i, p[1], p[2]>> \in Found(j, h)
  <2>1. <<i, p[1], p[2]>> \in Entry
    BY DEF Entry
  <2>2. <<i, p[1], p[2]>> \in Found(j, h) <=> p[2] \in IpsAt(h, i, p[1])
    BY <2>1 DEF Found
  <2>3. QED
    BY <2>2, PairsFacts
<1>2. Pairs(f, i) \subseteq PeerKey \X Net /\ Pairs(g, i) \subseteq PeerKey \X Net
  BY PairsFacts
<1>3. QED
  BY <1>1, <1>2

LEMMA ShowsFacts ==
  ASSUME NEW f \in Config, NEW j \in Job, NEW v \in Shows(j, f)
  PROVE  /\ v.e \subseteq Entry /\ v.none \in BOOLEAN /\ v.failed \in BOOLEAN
         /\ ~v.failed => v.e = Found(j, f)
         /\ j.call.op # "diff" => NetsIn(v.e) \subseteq NetsOn(f, j.iface)
<1>1. CASE v = [e |-> Found(j, f), none |-> j.call.op # "diff" /\ j.iface \notin DOMAIN f,
                failed |-> FALSE]
  BY <1>1, FoundFacts
<1>2. CASE v = [e |-> {}, none |-> TRUE, failed |-> TRUE]
  BY <1>2 DEF NetsIn
<1>3. QED
  BY <1>1, <1>2 DEF Shows

LEMMA DirtyFacts ==
  ASSUME NEW k \in Job
  PROVE  /\ Dirty(k) \in BOOLEAN
         /\ Dirty(k) => k.cfg # k.other
         /\ k.call.op = "diff" /\ ~Dirty(k) => k.cfg = k.other
BY DEF Dirty

LEMMA ReaderReportFacts ==
  ASSUME NEW k \in Job, NEW r \in ReaderReports(k), k.call.op \in Readers
  PROVE  /\ r \in Report /\ r.op = k.call.op /\ r.unread = k.unread
         /\ r.op # "runtime" => r.dirty = Dirty(k)
         /\ r.op = "runtime" => ~r.dirty /\ r.ips \subseteq NetsIn(k.cfg)
<1> DEFINE op == k.call.op
           i == k.iface
           u == k.unread
           d == Dirty(k)
           base == [NoReport EXCEPT !.op = op, !.ok = TRUE, !.iface = i, !.unread = u]
<1>1. /\ op \in Ops /\ i \in Iface /\ u \in BOOLEAN /\ d \in BOOLEAN
      /\ k.live \subseteq PeerKey
  BY CallFacts, DirtyFacts DEF Job
<1>2. NetsIn(k.cfg) \subseteq Net
  <2>1. k.cfg \subseteq Iface \X PeerKey \X Net
    BY DEF Job, Entry
  <2>2. QED
    BY <2>1 DEF NetsIn
<1>3. ReaderReport(k) = base
  BY DEF ReaderReport
<1>4. \/ op # "runtime" /\ r = [base EXCEPT !.dirty = d]
      \/ op = "runtime" /\ r = base
      \/ op = "runtime" /\ \E x \in k.live : \E S \in ShownIps(k) :
                              r = [base EXCEPT !.key = x, !.ips = S]
  <2> DEFINE b == ReaderReport(k)
             shown == ShownIps(k)
  <2>1. b = base
    BY <1>3
  <2> HIDE DEF base
  <2>2. CASE op # "runtime"
    <3>1. ReaderReports(k) = {[b EXCEPT !.dirty = d]}
      BY <2>2 DEF ReaderReports
    <3>2. QED
      BY <2>1, <2>2, <3>1
  <2>3. CASE op = "runtime" /\ k.live = {}
    <3>1. ReaderReports(k) = {b}
      BY <2>3 DEF ReaderReports
    <3>2. QED
      BY <2>1, <2>3, <3>1
  <2>4. CASE op = "runtime" /\ k.live # {}
    <3>1. ReaderReports(k)
            = UNION {{[b EXCEPT !.key = x, !.ips = S] : S \in shown} : x \in k.live}
      BY <2>4 DEF ReaderReports
    <3> HIDE DEF b, shown
    <3>2. PICK x \in k.live : r \in {[b EXCEPT !.key = x, !.ips = S] : S \in shown}
      BY <3>1
    <3>3. \E S \in shown : r = [b EXCEPT !.key = x, !.ips = S]
      BY <3>2
    <3>4. QED
      BY <2>1, <2>4, <3>3 DEF shown
  <2>5. QED
    BY <2>2, <2>3, <2>4
<1> HIDE DEF op, i, u, d
<1>5. /\ base \in Report /\ base.op = op /\ base.unread = u
      /\ base.dirty = NoReport.dirty /\ base.ips = NoReport.ips
  BY <1>1, IdleTypes DEF Report
<1>6. ~base.dirty /\ base.ips = {}
  BY <1>5 DEF NoReport
<1> HIDE DEF base
<1>7. CASE op # "runtime" /\ r = [base EXCEPT !.dirty = d]
  <2>1. [base EXCEPT !.dirty = d] \in Report /\ [base EXCEPT !.dirty = d].dirty = d
        /\ [base EXCEPT !.dirty = d].op = op /\ [base EXCEPT !.dirty = d].unread = u
    BY <1>1, <1>5 DEF Report
  <2>2. QED
    BY <1>7, <2>1 DEF d, op, u
<1>8. CASE op = "runtime" /\ r = base
  BY <1>5, <1>6, <1>8 DEF op, u
<1>9. ASSUME op = "runtime", NEW x \in k.live, NEW S \in ShownIps(k),
             r = [base EXCEPT !.key = x, !.ips = S]
      PROVE  /\ r \in Report /\ r.op = op /\ r.unread = u /\ ~r.dirty
             /\ r.ips \subseteq NetsIn(k.cfg)
  <2>1. S \subseteq NetsIn(k.cfg)
    BY DEF ShownIps, NetsIn, IpsOf
  <2>2. x \in PeerKey /\ S \subseteq Net
    BY <1>1, <1>2, <2>1
  <2>3. /\ r \in Report /\ r.op = op /\ r.unread = u /\ r.dirty = base.dirty /\ r.ips = S
    BY <1>5, <1>9, <2>2 DEF Report
  <2>4. QED
    BY <1>6, <2>1, <2>3
<1>10. QED
  BY <1>4, <1>7, <1>8, <1>9 DEF op, u

\* A reader answers from job k.
LEMMA ReaderAnswerFine ==
  ASSUME Inv, NEW t \in Task, Moves(t), rc' = rc, sc' = sc,
         NEW k \in Job, NEW r \in ReaderReports(k), Answer(t, r),
         k.call.op \in Readers, k.iface = job[t].iface,
         k.call.op = "runtime" =>
           NetsIn(k.cfg) \subseteq NetsOn(rc, k.iface) \cup NetsOn(sc, k.iface),
         k.call.op # "runtime" /\ ~seen[t].raced /\ ~k.unread =>
           \/ k.cfg = Found(k, rc) /\ k.other = Found(k, sc)
           \/ k.cfg = Found(k, sc) /\ k.other = Found(k, rc)
           \/ k.cfg = k.other /\ k.call.op # "diff"
  PROVE  Fine(t)
<1>1. /\ r \in Report /\ r.op = k.call.op /\ r.unread = k.unread
      /\ r.op # "runtime" => r.dirty = Dirty(k)
      /\ r.op = "runtime" => ~r.dirty /\ r.ips \subseteq NetsIn(k.cfg)
  BY ReaderReportFacts
<1>2. /\ seen'[t].raced = seen[t].raced
      /\ rc # sc => seen'[t].differed
      /\ NetsOn(rc, k.iface) \cup NetsOn(sc, k.iface) \subseteq seen'[t].held
  BY ObserveFacts DEF Moves
<1>3. r.op \notin {"update", "merge"}
  BY <1>1 DEF Readers
<1>4. Answered(r, seen'[t])
  BY <1>1, <1>2, <1>3 DEF Answered
<1>5. ~seen'[t].raced /\ r.dirty /\ ~r.unread => seen'[t].differed
  <2> SUFFICES ASSUME ~seen'[t].raced, r.dirty, ~r.unread PROVE rc # sc
    BY <1>2
  <2>1. k.cfg # k.other /\ r.op # "runtime"
    BY <1>1, DirtyFacts
  <2>2. QED
    BY <1>1, <1>2, <2>1
<1>6. ASSUME ~seen'[t].raced, ~r.dirty, r.op = "diff", ~r.unread, NEW i \in Iface
      PROVE  Pairs(rc, i) = Pairs(sc, i)
  <2>1. k.cfg = k.other
    BY <1>1, <1>6, DirtyFacts
  <2>2. Found(k, rc) = Found(k, sc)
    BY <1>1, <1>2, <1>6, <2>1
  <2>3. rc \in Config /\ sc \in Config
    BY DEF Inv, TypeOK
  <2>4. QED
    BY <1>1, <1>6, <2>2, <2>3, FoundAll
<1>7. QED
  BY <1>1, <1>3, <1>4, <1>5, <1>6, AnswerFine

\* A reader goes on with job k.
LEMMA ReaderGotoFine ==
  ASSUME Inv, NEW t \in Task, Moves(t), rc' = rc, sc' = sc,
         NEW k \in Job, Goto(t, k), k.call = job[t].call, k.call.op \in Readers,
         k.iface = job[t].iface,
         k.pc \in {"second", "again"}, k.pc = "again" => k.call.op \in {"get", "getSaved"},
         ~seen[t].raced => Alone(rc, sc, k)
  PROVE  Fine(t)
<1>1. Ordered(k)
  BY DEF Ordered
<1>2. ~seen'[t].raced => Alone(rc', sc', k)
  BY ObserveFacts
<1>3. Watched(rc', sc', k, seen'[t])
  BY StillWatched
<1>4. QED
  BY <1>1, <1>2, <1>3, GotoFine DEF Fits

\* The job with what a read has shown.
LEMMA ShownJob ==
  ASSUME NEW j \in Job, NEW v, v.e \subseteq Entry, v.none \in BOOLEAN, v.failed \in BOOLEAN
  PROVE  /\ LET k == [j EXCEPT !.cfg = v.e, !.none = v.none, !.unread = @ \/ v.failed] IN
            /\ k \in Job /\ k.call = j.call /\ k.iface = j.iface /\ k.cfg = v.e
            /\ k.other = j.other /\ (~k.unread => ~j.unread /\ ~v.failed)
         /\ LET k == [j EXCEPT !.other = v.e, !.unread = @ \/ v.failed] IN
            /\ k \in Job /\ k.call = j.call /\ k.iface = j.iface /\ k.cfg = j.cfg
            /\ k.other = v.e /\ (~k.unread => ~j.unread /\ ~v.failed)
         /\ LET k == [j EXCEPT !.cfg = v.e, !.unread = @ \/ v.failed] IN
            /\ k \in Job /\ k.call = j.call /\ k.iface = j.iface /\ k.cfg = v.e
            /\ k.other = j.other /\ (~k.unread => ~j.unread /\ ~v.failed)
<1> DEFINE u == j.unread \/ v.failed
<1>1. u \in BOOLEAN /\ (~u => ~j.unread /\ ~v.failed)
  BY DEF Job
<1> HIDE DEF u
<1>2. LET k == [j EXCEPT !.cfg = v.e, !.none = v.none, !.unread = u] IN
      /\ k \in Job /\ k.call = j.call /\ k.iface = j.iface /\ k.cfg = v.e
      /\ k.other = j.other /\ k.unread = u
  BY <1>1 DEF Job
<1>3. LET k == [j EXCEPT !.other = v.e, !.unread = u] IN
      /\ k \in Job /\ k.call = j.call /\ k.iface = j.iface /\ k.cfg = j.cfg
      /\ k.other = v.e /\ k.unread = u
  BY <1>1 DEF Job
<1>4. LET k == [j EXCEPT !.cfg = v.e, !.unread = u] IN
      /\ k \in Job /\ k.call = j.call /\ k.iface = j.iface /\ k.cfg = v.e
      /\ k.other = j.other /\ k.unread = u
  BY <1>1 DEF Job
<1>5. [j EXCEPT !.cfg = v.e, !.none = v.none, !.unread = @ \/ v.failed]
        = [j EXCEPT !.cfg = v.e, !.none = v.none, !.unread = u]
  BY DEF u
<1>6. [j EXCEPT !.other = v.e, !.unread = @ \/ v.failed] = [j EXCEPT !.other = v.e, !.unread = u]
  BY DEF u
<1>7. [j EXCEPT !.cfg = v.e, !.unread = @ \/ v.failed] = [j EXCEPT !.cfg = v.e, !.unread = u]
  BY DEF u
<1>8. QED
  BY <1>1, <1>2, <1>3, <1>4, <1>5, <1>6, <1>7

\* What a reader asks for is rc or sc.
LEMMA WantedFacts ==
  ASSUME Inv, NEW j \in Job
  PROVE  /\ rc \in Config /\ sc \in Config
         /\ IF j.call.op = "getSaved" THEN Wanted(j) = sc /\ Rest(j) = rc
                                      ELSE Wanted(j) = rc /\ Rest(j) = sc
         /\ \A k \in Job, f \in Config : k.call = j.call /\ k.iface = j.iface => Found(k, f) = Found(j, f)
BY DEF Inv, TypeOK, Wanted, Rest, Found

LEMMA ReadFirstFine ==
  ASSUME Inv, NEW t \in Task, ReadFirst(t)
  PROVE  Fine(t)
<1> DEFINE j == job[t]
           f == Wanted(j)
<1>1. Active(t) /\ j.pc = "first"
  BY DEF ReadFirst, Active
<1>2. Moves(t) /\ rc' = rc /\ sc' = sc
  BY <1>1, QuietMoves DEF ReadFirst
<1>3. j \in Job /\ j.call.op \in Readers /\ f \in Config
  BY <1>1, ActiveFacts, WantedFacts DEF Fits, Ordered
<1>4. PICK v \in Shows(j, f) :
        LET k == [j EXCEPT !.cfg = v.e, !.none = v.none, !.unread = @ \/ v.failed] IN
        IF j.call.op = "runtime" /\ ~v.none
        THEN \E r \in ReaderReports(k) : Answer(t, r)
        ELSE Goto(t, [k EXCEPT !.pc = IF j.call.op = "getSaved" /\ v.none
                                      THEN "again" ELSE "second"])
  BY DEF ReadFirst
<1>5. /\ v.e \subseteq Entry /\ v.none \in BOOLEAN /\ v.failed \in BOOLEAN
      /\ ~v.failed => v.e = Found(j, f)
      /\ j.call.op # "diff" => NetsIn(v.e) \subseteq NetsOn(f, j.iface)
  BY <1>3, ShowsFacts
<1> DEFINE k == [j EXCEPT !.cfg = v.e, !.none = v.none, !.unread = @ \/ v.failed]
           p == IF j.call.op = "getSaved" /\ v.none THEN "again" ELSE "second"
<1>6. /\ k \in Job /\ k.call = j.call /\ k.iface = j.iface /\ k.cfg = v.e
      /\ (~k.unread => ~v.failed)
  BY <1>3, <1>5, ShownJob
<1>7. f = rc \/ f = sc
  BY <1>3, WantedFacts
<1>8. IF j.call.op = "runtime" /\ ~v.none
      THEN \E r \in ReaderReports(k) : Answer(t, r)
      ELSE Goto(t, [k EXCEPT !.pc = p])
  BY <1>4
<1>9. p \in {"again", "second"} /\ p \in Phases /\ (p = "again" => j.call.op = "getSaved")
  BY DEF Phases
<1>10. IF j.call.op = "getSaved" THEN f = sc ELSE f = rc
  BY <1>3, WantedFacts
<1> HIDE DEF k, p, f
<1>11. CASE j.call.op = "runtime" /\ ~v.none
  <2>1. PICK r \in ReaderReports(k) : Answer(t, r)
    BY <1>8, <1>11
  <2>2. NetsIn(k.cfg) \subseteq NetsOn(rc, k.iface) \cup NetsOn(sc, k.iface)
    BY <1>5, <1>6, <1>7, <1>11
  <2>3. QED
    BY <1>2, <1>3, <1>6, <1>11, <2>1, <2>2, ReaderAnswerFine
<1>12. CASE ~(j.call.op = "runtime" /\ ~v.none)
  <2> DEFINE m == [k EXCEPT !.pc = p]
  <2>1. /\ m \in Job /\ m.pc = p /\ m.call = j.call /\ m.iface = j.iface /\ m.cfg = v.e
        /\ m.unread = k.unread
    BY <1>6, <1>9, PhaseFacts
  <2>2. Goto(t, m)
    BY <1>8, <1>12
  <2> HIDE DEF m
  <2>3. ASSUME p = "second", ~m.unread
        PROVE  m.cfg = Found(m, IF m.call.op = "getSaved" THEN sc ELSE rc)
    <3>1. Found(m, f) = Found(j, f)
      BY <1>3, <2>1, WantedFacts
    <3>2. m.cfg = Found(m, f)
      BY <1>5, <1>6, <2>1, <2>3, <3>1
    <3>3. QED
      BY <1>10, <2>1, <3>2
  <2>4. Alone(rc, sc, m)
    BY <1>9, <2>1, <2>3 DEF Alone
  <2>5. QED
    BY <1>2, <1>3, <1>9, <2>1, <2>2, <2>4, ReaderGotoFine
<1>13. QED
  BY <1>11, <1>12

LEMMA ReadSecondFine ==
  ASSUME Inv, NEW t \in Task, ReadSecond(t)
  PROVE  Fine(t)
<1> DEFINE j == job[t]
           f == Rest(j)
<1>1. Active(t) /\ j.pc = "second"
  BY DEF ReadSecond, Active
<1>2. Moves(t) /\ rc' = rc /\ sc' = sc
  BY <1>1, QuietMoves DEF ReadSecond
<1>3. j \in Job /\ j.call.op \in Readers /\ f \in Config
  BY <1>1, ActiveFacts, WantedFacts DEF Fits, Ordered
<1>4. PICK v \in Shows(j, f) :
        LET k == [j EXCEPT !.other = v.e, !.unread = @ \/ v.failed] IN
        CASE j.call.op = "runtime" ->
               \E r \in ReaderReports([k EXCEPT !.cfg = v.e]) : Answer(t, r)
          [] j.call.op = "get" /\ j.none -> Goto(t, [k EXCEPT !.pc = "again"])
          [] OTHER -> \E r \in ReaderReports(k) : Answer(t, r)
  BY DEF ReadSecond
<1>5. /\ v.e \subseteq Entry /\ v.none \in BOOLEAN /\ v.failed \in BOOLEAN
      /\ ~v.failed => v.e = Found(j, f)
      /\ j.call.op # "diff" => NetsIn(v.e) \subseteq NetsOn(f, j.iface)
  BY <1>3, ShowsFacts
<1> DEFINE k == [j EXCEPT !.other = v.e, !.unread = @ \/ v.failed]
<1>6. /\ k \in Job /\ k.call = j.call /\ k.iface = j.iface /\ k.cfg = j.cfg /\ k.other = v.e
      /\ (~k.unread => ~j.unread /\ ~v.failed)
  BY <1>3, <1>5, ShownJob
<1>7. IF j.call.op = "getSaved" THEN f = rc ELSE f = sc
  BY <1>3, WantedFacts
<1>8. CASE j.call.op = "runtime"
  <2> DEFINE m == [k EXCEPT !.cfg = v.e]
  <2>1. PICK r \in ReaderReports(m) : Answer(t, r)
    BY <1>4, <1>8
  <2> HIDE DEF k
  <2>2. m \in Job /\ m.call = j.call /\ m.iface = j.iface /\ m.cfg = v.e
    BY <1>5, <1>6 DEF Job
  <2> HIDE DEF m
  <2>3. NetsIn(m.cfg) \subseteq NetsOn(rc, m.iface) \cup NetsOn(sc, m.iface)
    BY <1>5, <1>7, <1>8, <2>2
  <2>4. QED
    BY <1>2, <1>3, <1>8, <2>1, <2>2, <2>3, ReaderAnswerFine
<1>9. CASE j.call.op = "get" /\ j.none
  <2> DEFINE m == [k EXCEPT !.pc = "again"]
  <2>1. Goto(t, m)
    BY <1>4, <1>9
  <2> HIDE DEF k
  <2>2. "again" \in Phases
    BY DEF Phases
  <2>3. /\ m \in Job /\ m.pc = "again" /\ m.call = j.call /\ m.iface = j.iface
        /\ m.unread = k.unread /\ m.other = v.e
    BY <1>6, <2>2, PhaseFacts
  <2> HIDE DEF m
  <2>4. ~m.unread => m.other = Found(m, sc)
    <3>1. Found(m, f) = Found(j, f)
      BY <1>3, <2>3, WantedFacts
    <3>2. QED
      BY <1>5, <1>6, <1>7, <1>9, <2>3, <3>1
  <2>5. Alone(rc, sc, m)
    BY <2>3, <2>4 DEF Alone
  <2>6. QED
    BY <1>2, <1>3, <1>9, <2>1, <2>3, <2>5, ReaderGotoFine
<1>10. CASE j.call.op # "runtime" /\ ~(j.call.op = "get" /\ j.none)
  <2>1. PICK r \in ReaderReports(k) : Answer(t, r)
    BY <1>4, <1>10
  <2> HIDE DEF k
  <2>2. ASSUME ~seen[t].raced, ~k.unread
        PROVE  \/ k.cfg = Found(k, rc) /\ k.other = Found(k, sc)
               \/ k.cfg = Found(k, sc) /\ k.other = Found(k, rc)
    <3>1. Alone(rc, sc, j)
      BY <1>1, <2>2, ActiveFacts DEF Fits
    <3>2. j.cfg = Found(j, IF j.call.op = "getSaved" THEN sc ELSE rc)
      BY <1>1, <1>6, <2>2, <3>1 DEF Alone
    <3>3. Found(k, rc) = Found(j, rc) /\ Found(k, sc) = Found(j, sc)
      BY <1>3, <1>6, WantedFacts
    <3>4. v.e = Found(j, f)
      BY <1>5, <1>6, <2>2
    <3> HIDE DEF f
    <3>5. CASE j.call.op = "getSaved"
      BY <1>6, <1>7, <3>2, <3>3, <3>4, <3>5
    <3>6. CASE j.call.op # "getSaved"
      BY <1>6, <1>7, <3>2, <3>3, <3>4, <3>6
    <3>7. QED
      BY <3>5, <3>6
  <2>3. QED
    BY <1>2, <1>3, <1>6, <1>10, <2>1, <2>2, ReaderAnswerFine
<1>11. QED
  BY <1>8, <1>9, <1>10

LEMMA ReadAgainFine ==
  ASSUME Inv, NEW t \in Task, ReadAgain(t)
  PROVE  Fine(t)
<1> DEFINE j == job[t]
           f == Wanted(j)
<1>1. Active(t) /\ j.pc = "again"
  BY DEF ReadAgain, Active
<1>2. Moves(t) /\ rc' = rc /\ sc' = sc
  BY <1>1, QuietMoves DEF ReadAgain
<1>3. j \in Job /\ j.call.op \in {"get", "getSaved"} /\ f \in Config
  BY <1>1, ActiveFacts, WantedFacts DEF Fits, Ordered
<1>4. PICK v \in Shows(j, f) :
        LET k == [j EXCEPT !.cfg = v.e, !.unread = @ \/ v.failed] IN
        IF j.call.op = "getSaved" THEN Goto(t, [k EXCEPT !.pc = "second"])
        ELSE \E r \in ReaderReports([k EXCEPT !.cfg = IF v.none THEN j.other ELSE v.e]) :
               Answer(t, r)
  BY DEF ReadAgain
<1>5. /\ v.e \subseteq Entry /\ v.none \in BOOLEAN /\ v.failed \in BOOLEAN
      /\ ~v.failed => v.e = Found(j, f)
  BY <1>3, ShowsFacts
<1> DEFINE k == [j EXCEPT !.cfg = v.e, !.unread = @ \/ v.failed]
<1>6. /\ k \in Job /\ k.call = j.call /\ k.iface = j.iface /\ k.cfg = v.e
      /\ k.other = j.other /\ (~k.unread => ~j.unread /\ ~v.failed)
  BY <1>3, <1>5, ShownJob
<1>7. IF j.call.op = "getSaved" THEN f = sc ELSE f = rc
  BY <1>3, WantedFacts
<1>8. "get" \in Readers /\ "getSaved" \in Readers
  BY DEF Readers
<1>9. CASE j.call.op = "getSaved"
  <2> DEFINE m == [k EXCEPT !.pc = "second"]
  <2>1. Goto(t, m)
    BY <1>4, <1>9
  <2> HIDE DEF k
  <2>2. "second" \in Phases
    BY DEF Phases
  <2>3. /\ m \in Job /\ m.pc = "second" /\ m.call = j.call /\ m.iface = j.iface
        /\ m.unread = k.unread /\ m.cfg = v.e
    BY <1>6, <2>2, PhaseFacts
  <2> HIDE DEF m
  <2>4. ~m.unread => m.cfg = Found(m, sc)
    <3>1. Found(m, f) = Found(j, f)
      BY <1>3, <2>3, WantedFacts
    <3>2. QED
      BY <1>5, <1>6, <1>7, <1>9, <2>3, <3>1
  <2>5. Alone(rc, sc, m)
    BY <1>9, <2>3, <2>4 DEF Alone
  <2>6. QED
    BY <1>2, <1>8, <1>9, <2>1, <2>3, <2>5, ReaderGotoFine
<1>10. CASE j.call.op = "get"
  <2> DEFINE c == IF v.none THEN j.other ELSE v.e
             m == [k EXCEPT !.cfg = c]
  <2>1. PICK r \in ReaderReports(m) : Answer(t, r)
    BY <1>4, <1>10
  <2>2. c \subseteq Entry
    BY <1>3, <1>5 DEF Job
  <2> HIDE DEF k
  <2>3. c = j.other \/ c = v.e
    OBVIOUS
  <2> HIDE DEF c
  <2>4. /\ m \in Job /\ m.call = j.call /\ m.iface = j.iface /\ m.cfg = c
        /\ m.other = j.other /\ m.unread = k.unread
    BY <1>6, <2>2 DEF Job
  <2> HIDE DEF m
  <2>5. ASSUME ~seen[t].raced, ~m.unread
        PROVE  m.cfg = m.other \/ (m.cfg = Found(m, rc) /\ m.other = Found(m, sc))
    <3>1. Alone(rc, sc, j)
      BY <1>1, <2>5, ActiveFacts DEF Fits
    <3>2. j.other = Found(j, sc)
      BY <1>1, <1>6, <1>10, <2>4, <2>5, <3>1 DEF Alone
    <3>3. v.e = Found(j, rc)
      BY <1>5, <1>6, <1>7, <1>10, <2>4, <2>5
    <3>4. Found(m, rc) = Found(j, rc) /\ Found(m, sc) = Found(j, sc)
      BY <1>3, <2>4, WantedFacts
    <3>5. QED
      BY <2>3, <2>4, <3>2, <3>3, <3>4
  <2>6. QED
    BY <1>2, <1>8, <1>10, <2>1, <2>4, <2>5, ReaderAnswerFine
<1>11. QED
  BY <1>3, <1>9, <1>10

-----------------------------------------------------------------------------
(* The other steps, and the invariant. *)

LEMMA FirstPhaseFacts ==
  ASSUME NEW c \in Call
  PROVE  /\ FirstPhase(c) \in {"look", "write", "conf", "first"}
         /\ FirstPhase(c) = "write" => \/ c.op = "create" /\ c.iface # AutoId
                                       \/ c.op = "remove"
         /\ FirstPhase(c) = "conf" => c.op = "conf"
         /\ FirstPhase(c) = "first" => c.op = "diff"
BY DEF FirstPhase

LEMMA StartInv ==
  ASSUME Inv, NEW t \in Task, Start(t)
  PROVE  Inv'
<1>1. PICK c \in Calls[t] :
        LET i == IF c.iface = AutoId THEN 0 ELSE c.iface IN
        /\ job' = [job EXCEPT ![t] = [IdleJob EXCEPT !.pc = FirstPhase(c),
                                                     !.call = c, !.iface = i]]
        /\ seen' = [seen EXCEPT ![t] =
             [differed |-> rc # sc, raced |-> FALSE,
              held |-> NetsOn(rc, i) \cup NetsOn(sc, i)]]
  BY DEF Start
<1> DEFINE i == IF c.iface = AutoId THEN 0 ELSE c.iface
           h == NetsOn(rc, i) \cup NetsOn(sc, i)
           j == [IdleJob EXCEPT !.pc = FirstPhase(c), !.call = c, !.iface = i]
           s == [differed |-> rc # sc, raced |-> FALSE, held |-> h]
<1>2. /\ job' = [job EXCEPT ![t] = j] /\ seen' = [seen EXCEPT ![t] = s]
      /\ report' = [report EXCEPT ![t] = NoReport] /\ calls' = calls + 1
      /\ UNCHANGED <<rc, sc, owed>>
  BY <1>1 DEF Start
<1>3. c \in Call
  BY WireguardAssumption
<1>4. i \in Iface
  <2>1. c.iface \in 0..AutoId
    BY <1>3 DEF Call
  <2>2. QED
    BY <2>1, WireguardAssumption DEF Iface, AutoId
<1>5. h \subseteq Net
  <2>1. rc \in Config /\ sc \in Config
    BY DEF Inv, TypeOK
  <2>2. QED
    BY <2>1, PairsFacts
<1>6. FirstPhase(c) \in Phases /\ FirstPhase(c) # "idle"
  BY <1>3, FirstPhaseFacts DEF Phases
<1> HIDE DEF i
<1>7. j \in Job /\ j.pc = FirstPhase(c) /\ j.call = c /\ j.iface = i
  BY <1>3, <1>4, <1>6, IdleTypes DEF Job
<1>8. (rc # sc) \in BOOLEAN
  OBVIOUS
<1> HIDE DEF j, h
<1>9. s \in Seen /\ (rc # sc => s.differed) /\ s.held = h
  BY <1>5, <1>8 DEF Seen
<1> HIDE DEF s
<1>10. Ordered(j)
  BY <1>3, <1>7, FirstPhaseFacts DEF Ordered, Writers, IfaceWriters, PeerWriters, Readers, Rewriters
<1>11. Watched(rc, sc, j, s)
  BY <1>7, <1>9 DEF Watched, h
<1>12. Alone(rc, sc, j)
  BY <1>3, <1>7, FirstPhaseFacts DEF Alone, Rewriters
<1>13. Good(rc, sc, j, NoReport, s)
  BY <1>6, <1>7, <1>10, <1>11, <1>12 DEF Good, Fits
<1>14. \A u \in Task : Good(rc', sc', job'[u], report'[u], seen'[u])
  BY <1>2, <1>13 DEF Inv, TypeOK
<1>15. NoLostIps'
  BY <1>2 DEF Inv, NoLostIps, Pairs, IpsAt, PeersAt
<1>16. TypeOK'
  BY <1>2, <1>7, <1>9, IdleTypes DEF Inv, TypeOK
<1>17. QED
  BY <1>14, <1>15, <1>16 DEF Inv

LEMMA RebootInv ==
  ASSUME Inv, Reboot
  PROVE  Inv'
<1>1. /\ rc' = sc /\ sc' = sc /\ calls' = calls /\ seen' = seen
      /\ job' = [t \in Task |-> IdleJob]
      /\ owed' = [i \in Iface |-> owed[i] \cap Pairs(sc, i)]
  BY DEF Reboot
<1>2. ASSUME NEW t \in Task
      PROVE  report'[t] \in Report /\ Good(rc', sc', job'[t], report'[t], seen'[t])
  <2>1. job'[t] = IdleJob /\ IdleJob.pc = "idle"
    BY <1>1, IdleTypes
  <2>2. CASE Active(t)
    <3>1. report'[t] = [NoReport EXCEPT !.op = job[t].call.op]
      BY <2>2 DEF Reboot
    <3>2. job[t].call.op \in Ops
      BY <2>2, ActiveFacts, CallFacts
    <3>3. report'[t] \in Report /\ report'[t].ips = {}
      BY <3>1, <3>2, IdleTypes
    <3>4. QED
      BY <2>1, <3>3 DEF Good, Answered
  <2>3. CASE ~Active(t)
    <3>1. report'[t] = report[t]
      BY <2>3 DEF Reboot
    <3>2. report[t] \in Report /\ Good(rc, sc, job[t], report[t], seen[t])
      BY DEF Inv, TypeOK
    <3>3. QED
      BY <1>1, <2>1, <2>3, <3>1, <3>2 DEF Good, Active
  <2>4. QED
    BY <2>2, <2>3
<1>3. report' \in [Task -> Report]
  <2>1. report' = [t \in Task |-> report'[t]]
    BY DEF Reboot
  <2>2. QED
    BY <1>2, <2>1
<1>4. NoLostIps'
  <2>1. \A i \in Iface : owed'[i] \subseteq Pairs(sc, i)
    BY <1>1
  <2>2. QED
    BY <1>1, <2>1 DEF NoLostIps
<1>5. TypeOK'
  BY <1>1, <1>3, IdleTypes DEF Inv, TypeOK
<1>6. QED
  BY <1>2, <1>4, <1>5 DEF Inv

LEMMA InitInv == Init => Inv
<1> SUFFICES ASSUME Init PROVE Inv
  OBVIOUS
<1>1. /\ rc \in Config /\ sc = rc
      /\ job = [t \in Task |-> IdleJob] /\ report = [t \in Task |-> NoReport] /\ calls = 0
      /\ owed = [i \in Iface |-> Pairs(rc, i)]
      /\ seen = [t \in Task |-> [differed |-> FALSE, raced |-> FALSE, held |-> {}]]
  BY WireguardAssumption DEF Init
<1>2. NoLostIps
  BY <1>1 DEF NoLostIps
<1>3. [differed |-> FALSE, raced |-> FALSE, held |-> {}] \in Seen
  BY DEF Seen
<1>4. owed \in [Iface -> SUBSET (PeerKey \X Net)]
  BY <1>1, PairsFacts
<1>5. TypeOK
  BY <1>1, <1>3, <1>4, IdleTypes DEF TypeOK
<1>6. \A t \in Task : Good(rc, sc, job[t], report[t], seen[t])
  BY <1>1, IdleTypes DEF Good, Answered
<1>7. QED
  BY <1>2, <1>5, <1>6 DEF Inv

LEMMA StepFine ==
  ASSUME Inv, NEW t \in Task, Step(t)
  PROVE  Fine(t)
BY ReadFailsFine, LookForCreateFine, LookForConfFine, LookForIfaceFine, LookForPeerFine,
   CheckDuplicateFine, WriteFine, ImportFine, LoseFine, SeeFine, ReadAfterFine, ReadSavedFine,
   ReadFirstFine, ReadSecondFine, ReadAgainFine DEF Step

LEMMA NextInv == Inv /\ [Next]_vars => Inv'
<1> SUFFICES ASSUME Inv, [Next]_vars PROVE Inv'
  OBVIOUS
<1>1. CASE Reboot
  BY <1>1, RebootInv
<1>2. ASSUME NEW t \in Task, Start(t) PROVE Inv'
  BY <1>2, StartInv
<1>3. ASSUME NEW t \in Task, Step(t) PROVE Inv'
  BY <1>3, StepFine DEF Fine
<1>4. CASE UNCHANGED vars
  <2>1. /\ rc' = rc /\ sc' = sc /\ job' = job /\ report' = report /\ calls' = calls
        /\ owed' = owed /\ seen' = seen
    BY <1>4 DEF vars
  <2>2. \A t \in Task : Good(rc', sc', job'[t], report'[t], seen'[t])
    BY <2>1 DEF Inv
  <2>3. TypeOK' /\ NoLostIps'
    BY <2>1 DEF Inv, TypeOK, NoLostIps
  <2>4. QED
    BY <2>2, <2>3 DEF Inv
<1>5. QED
  BY <1>1, <1>2, <1>3, <1>4 DEF Next

LEMMA InvAlways == Spec => []Inv
BY InitInv, NextInv, PTL DEF Spec

\* Types are right, and the AllowedIPs update, merge and runtime show were on the
\* interface during the call.
THEOREM PeersCorrect == Spec => []PeersInv
<1>1. Inv => PeersInv
  <2> SUFFICES ASSUME Inv, NEW t \in Task,
                      report[t].op \in {"update", "merge", "runtime"}, ~seen[t].raced
               PROVE  report[t].ips \subseteq seen[t].held
    BY DEF Inv, PeersInv, ShownWereThere
  <2>1. Good(rc, sc, job[t], report[t], seen[t])
    BY DEF Inv
  <2>2. report[t] # NoReport
    BY IdleTypes
  <2>3. QED
    BY <2>1, <2>2 DEF Good, Answered
<1>2. QED
  BY <1>1, InvAlways, PTL

\* update, merge and the calls around them lose no AllowedIPs that are owed.
THEOREM KeepsIps == Spec => []NoLostIps
<1>1. Inv => NoLostIps
  BY DEF Inv
<1>2. QED
  BY <1>1, InvAlways, PTL

-----------------------------------------------------------------------------
(* What a step may never do. *)

LEMMA EndsAlways ==
  ASSUME Inv, [Next]_vars, NEW t \in Task
  PROVE  Ends(t)
<1>1. job \in [Task -> Job]
  BY DEF Inv, TypeOK
<1>2. ASSUME NEW u \in Task, Step(u) PROVE Ends(t)
  <2>1. Fine(u)
    BY <1>2, StepFine
  <2>2. u # t => job'[t] = job[t]
    BY <1>1, <2>1 DEF Fine, OwnJob
  <2>3. QED
    BY <2>1, <2>2 DEF Fine, Ends, Finished, Active
<1>3. ASSUME NEW u \in Task, Start(u) PROVE Ends(t)
  <2>1. ~Active(u) /\ (u # t => job'[t] = job[t])
    BY <1>1, <1>3 DEF Start
  <2>2. ~Finished(t)
    BY <2>1 DEF Finished, Active
  <2>3. QED
    BY <2>2 DEF Ends
<1>4. CASE Reboot
  <2>1. ASSUME Active(t) PROVE ~report'[t].ok
    <3>1. report'[t] = [NoReport EXCEPT !.op = job[t].call.op]
      BY <1>4, <2>1 DEF Reboot
    <3>2. job[t].call.op \in Ops
      BY <2>1, ActiveFacts, CallFacts
    <3>3. QED
      BY <3>1, <3>2, IdleTypes
  <2>2. ~Finished(t)
    BY <2>1 DEF Finished
  <2>3. QED
    BY <2>2 DEF Ends
<1>5. CASE UNCHANGED vars
  <2>1. job' = job
    BY <1>5 DEF vars
  <2>2. ~Finished(t)
    BY <2>1 DEF Finished, Active
  <2>3. QED
    BY <2>2 DEF Ends
<1>6. QED
  BY <1>2, <1>3, <1>4, <1>5 DEF Next

\* `dirty' is right both ways, as far as undisturbed reads can tell.
THEOREM DirtyRight == Spec => DirtyIsRight
<1>1. Inv /\ [Next]_vars =>
        [\A t \in Task :
           LET r == report'[t] IN
           Finished(t) /\ ~seen'[t].raced =>
             /\ r.dirty => seen'[t].differed \/ r.unread
             /\ ~r.dirty /\ r.op \in {"update", "merge"} =>
                  IpsAt(rc, r.iface, r.key) = IpsAt(sc, r.iface, r.key)
             /\ ~r.dirty /\ r.op = "diff" /\ ~r.unread =>
                  \A i \in Iface : Pairs(rc, i) = Pairs(sc, i)]_vars
  BY EndsAlways DEF Ends
<1>2. QED
  BY <1>1, InvAlways, PTL DEF Spec, DirtyIsRight

\* A new interface takes a free number and a new peer a new key, as long as no
\* other call writes meanwhile.
THEOREM NewAreNew == Spec => NewIsNew
<1>1. ASSUME Inv, NEW t \in Task, job[t].pc = "write", ~seen[t].raced
      PROVE  LET j == job[t] IN
             /\ j.call.op = "create" /\ j.call.iface = AutoId => j.iface \notin DOMAIN rc
             /\ j.call.op = "add" /\ ~j.unread => j.call.key \notin DOMAIN PeersAt(rc, j.iface)
  <2>1. Active(t)
    BY <1>1 DEF Active
  <2>2. Alone(rc, sc, job[t])
    BY <1>1, <2>1, ActiveFacts DEF Fits
  <2>3. QED
    BY <1>1, <2>2 DEF Alone
<1>2. Inv /\ [Next]_vars =>
        [\A t \in Task :
           LET j == job[t] IN
           j.pc = "write" /\ (job'[t].pc = "see" \/ Finished(t)) /\ ~seen[t].raced =>
             /\ j.call.op = "create" /\ j.call.iface = AutoId => j.iface \notin DOMAIN rc
             /\ j.call.op = "add" /\ ~j.unread =>
                  j.call.key \notin DOMAIN PeersAt(rc, j.iface)]_vars
  BY <1>1
<1>3. QED
  BY <1>2, InvAlways, PTL DEF Spec, NewIsNew

-----------------------------------------------------------------------------
(* Every step does to (rc, sc) what SavedConfig allows. *)

\* The state functions the refinement mapping substitutes.
OpenTasks == {t \in Task : Active(t)}
ConsentTasks == {t \in Task : Active(t) /\ AsksSave(job[t].call)}

\* A step of t's call leaves both sets alone, or ends the call.
LEMMA OwnSets ==
  ASSUME NEW t \in Task, job \in [Task -> Job], Active(t), OwnJob(t)
  PROVE  \/ OpenTasks' = OpenTasks /\ ConsentTasks' = ConsentTasks
         \/ OpenTasks' = OpenTasks \ {t} /\ ConsentTasks' = ConsentTasks \ {t}
<1>1. CASE job' = [job EXCEPT ![t] = IdleJob]
  <2>1. ~Active(t)' /\ \A u \in Task \ {t} : job'[u] = job[u]
    BY <1>1, IdleTypes DEF Active
  <2>2. \A u \in Task \ {t} : Active(u)' = Active(u)
    BY <2>1 DEF Active
  <2>3. QED
    BY <2>1, <2>2 DEF OpenTasks, ConsentTasks
<1>2. ASSUME NEW k, job' = [job EXCEPT ![t] = k], k.pc # "idle", k.call = job[t].call
      PROVE  OpenTasks' = OpenTasks /\ ConsentTasks' = ConsentTasks
  <2>1. \A u \in Task : Active(u)' = Active(u) /\ job'[u].call = job[u].call
    BY <1>2 DEF Active
  <2>2. QED
    BY <2>1 DEF OpenTasks, ConsentTasks
<1>3. QED
  BY <1>1, <1>2 DEF OwnJob

LEMMA StartOpens ==
  ASSUME Inv, NEW t \in Task, Start(t)
  PROVE  SC!Open(t)
<1>1. ~Active(t) /\ rc' = rc /\ sc' = sc
  BY DEF Start
<1>2. PICK c \in Calls[t] :
        \E i : job' = [job EXCEPT ![t] = [IdleJob EXCEPT !.pc = FirstPhase(c), !.call = c, !.iface = i]]
  BY DEF Start
<1>3. FirstPhase(c) # "idle"
  BY WireguardAssumption, FirstPhaseFacts
<1>4. job'[t].pc # "idle" /\ \A u \in Task \ {t} : job'[u] = job[u]
  BY <1>2, <1>3 DEF Inv, TypeOK, IdleJob
<1>5. Active(t)' /\ \A u \in Task \ {t} : Active(u)' = Active(u)
  BY <1>4 DEF Active
<1>6. OpenTasks' = OpenTasks \cup {t} /\ t \notin OpenTasks
  BY <1>1, <1>5 DEF OpenTasks
<1>7. ConsentTasks' \in {ConsentTasks, ConsentTasks \cup {t}}
  BY <1>1, <1>4, <1>5 DEF ConsentTasks
<1>8. QED
  BY <1>1, <1>6, <1>7 DEF SC!Open, OpenTasks, ConsentTasks

\* A step of t that writes nothing is one SavedConfig does not see, or the end
\* of t's call.
LEMMA ReadingStep ==
  ASSUME Inv, NEW t \in Task, Active(t), OwnJob(t), UNCHANGED <<rc, sc>>
  PROVE  SC!Close(t) \/ UNCHANGED SC!scVars
<1>1. t \in OpenTasks
  BY DEF OpenTasks
<1>2. \/ OpenTasks' = OpenTasks /\ ConsentTasks' = ConsentTasks
      \/ OpenTasks' = OpenTasks \ {t} /\ ConsentTasks' = ConsentTasks \ {t}
  BY OwnSets DEF Inv, TypeOK
<1>3. QED
  BY <1>1, <1>2 DEF SC!Close, SC!scVars, OpenTasks, ConsentTasks

LEMMA WritingStep ==
  ASSUME Inv, NEW t \in Task, Write(t) \/ Import(t)
  PROVE  SC!Request(t)
<1>1. Active(t)
  BY DEF Write, Import, Active
<1>2. Fine(t) /\ Single
  BY WriteFine, ImportFine
<1>3. rc' \in Config
  BY <1>2 DEF Fine, Inv, TypeOK
<1>4. SC!IsConfig(rc')
  <2>1. DOMAIN rc' \subseteq Iface /\ rc' \in [DOMAIN rc' -> Tunnel]
    BY <1>3, ConfigElim
  <2>2. QED
    BY <2>1 DEF SC!IsConfig, Tunnel
<1>5. SC!DifferInOne(rc, rc')
  BY <1>2 DEF Single, SameBut, SC!DifferInOne
<1>6. t \in OpenTasks
  BY <1>1 DEF OpenTasks
<1>7. sc' = sc \/ (t \in ConsentTasks /\ sc' = rc')
  <2>1. CASE Import(t)
    BY <2>1 DEF Import
  <2>2. CASE Write(t) /\ ~Saves(job[t])
    BY <2>2 DEF Write
  <2>3. CASE Write(t) /\ Saves(job[t])
    <3>1. sc' = rc'
      BY <2>3 DEF Write
    <3>2. job[t].call.op \in Writers /\ job[t].call.save
      BY <1>1, <2>3, ActiveFacts DEF Saves, Fits, Ordered
    <3>3. QED
      BY <1>1, <3>1, <3>2 DEF ConsentTasks, AsksSave
  <2>4. QED
    BY <2>1, <2>2, <2>3
<1>8. \/ OpenTasks' = OpenTasks /\ ConsentTasks' = ConsentTasks
      \/ OpenTasks' = OpenTasks \ {t} /\ ConsentTasks' = ConsentTasks \ {t}
  BY <1>1, <1>2, OwnSets DEF Inv, TypeOK, Fine
<1>9. QED
  BY <1>4, <1>5, <1>6, <1>7, <1>8 DEF SC!Request, OpenTasks, ConsentTasks

LEMMA RebootIsReboot ==
  ASSUME Reboot
  PROVE  SC!Reboot
<1>1. \A t \in Task : ~Active(t)'
  BY IdleTypes DEF Reboot, Active
<1>2. OpenTasks' = {} /\ ConsentTasks' = {}
  BY <1>1 DEF OpenTasks, ConsentTasks
<1>3. QED
  BY <1>2 DEF Reboot, SC!Reboot, OpenTasks, ConsentTasks

LEMMA InitRefines == Init => SC!SCInit
<1> SUFFICES ASSUME Init PROVE SC!SCInit
  OBVIOUS
<1>1. rc \in Config /\ sc = rc
  BY WireguardAssumption DEF Init
<1>2. \A t \in Task : ~Active(t)
  BY IdleTypes DEF Init, Active
<1>3. DOMAIN rc \subseteq Iface /\ rc \in [DOMAIN rc -> Tunnel]
  BY <1>1, ConfigElim
<1>4. QED
  BY <1>1, <1>2, <1>3 DEF SC!SCInit, SC!IsConfig, Tunnel

LEMMA NextRefines == Inv /\ [Next]_vars => [SC!SCNext]_SC!scVars
<1> SUFFICES ASSUME Inv, [Next]_vars PROVE [SC!SCNext]_SC!scVars
  OBVIOUS
<1>1. CASE Reboot
  BY <1>1, RebootIsReboot DEF SC!SCNext
<1>2. ASSUME NEW t \in Task, Start(t) PROVE SC!SCNext
  BY <1>2, StartOpens DEF SC!SCNext
<1>3. ASSUME NEW t \in Task, Step(t) PROVE [SC!SCNext]_SC!scVars
  <2>1. CASE Write(t) \/ Import(t)
    BY <2>1, WritingStep DEF SC!SCNext
  <2>2. CASE ~(Write(t) \/ Import(t))
    <3>1. Active(t) /\ Reads(t)
      BY <1>3, <2>2 DEF Step, Active, ReadFails, LookForCreate, LookForConf, LookForIface,
         LookForPeer, CheckDuplicate, Lose, See, ReadAfter, ReadSaved, ReadFirst, ReadSecond,
         ReadAgain
    <3>2. OwnJob(t)
      BY <1>3, StepFine DEF Fine
    <3>3. QED
      BY <3>1, <3>2, ReadingStep DEF Reads, SC!SCNext
  <2>3. QED
    BY <2>1, <2>2
<1>4. CASE UNCHANGED vars
  BY <1>4 DEF vars, SC!scVars, Active, AsksSave
<1>5. QED
  BY <1>1, <1>2, <1>3, <1>4 DEF Next

\* A request changes one interface of rc at most, and sc changes only in the batch
\* of a call that asked for a save, and then becomes rc.
THEOREM WireguardSavesOnRequest == Spec => ImplementsSavedConfig
<1>1. Init => SC!SCInit
  BY InitRefines
<1>2. Inv /\ [Next]_vars => [SC!SCNext]_SC!scVars
  BY NextRefines
<1>3. QED
  BY <1>1, <1>2, InvAlways, PTL DEF Spec, ImplementsSavedConfig, SC!SCSpec
=============================================================================
