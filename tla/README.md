# netcraze-mcp in TLA+

`netcraze-mcp` is an MCP server: an agent calls its tools, and each tool talks
to a Keenetic/Netcraze router over HTTP (the RCI JSON interface).  The
interesting part is not the formatting of answers.  It is that a *tool call is
several requests*, that any number of calls run as asyncio tasks without a
lock, that each request may be refused by the router or lost on the way, and
that the router keeps two configurations: the running one (`rc`) and the saved
one (`sc`), which replaces the running one when the router restarts.

The modules here model the tools request by request: those that write, and
those whose answer is put together from several reads.

1. [The parts of the system](#the-parts-of-the-system)
2. [The modules](#the-modules)
3. [What the runs check](#what-the-runs-check)
4. [Fairness](#fairness)
5. [What is proved](#what-is-proved)
6. [Where the code does not do what it says](#where-the-code-does-not-do-what-it-says)
7. [What is not modelled](#what-is-not-modelled)
8. [Plan](#plan)

## The parts of the system

Paths are relative to `netcraze_mcp/`.

| part | state | operations | hard behaviour | correct when |
|---|---|---|---|---|
| **HTTP client** `client.py` | session cookie, host of the router | login (digest, host candidates), `rci`, `rci_get`, `rci_continued`, `_raise_on_rci_errors` | fallback from host to host, a request whose answer is lost, a polled request that never completes | a write is not repeated on another host; polling ends |
| **Router selection** `config.py`, `router_ctx.py`, `tools/cross.py` | table of routers, a context variable | load, select, `with_router` | a context variable around concurrent awaits | a call reaches the router it names |
| **Reads with fallback** `tools/sc_rc.py` | none | `fetch_fqdn_groups`, `fetch_dns_routes` | up to four requests on two roots; an empty root is replaced by the other | what is returned is what the asked-for configuration holds |
| **Domain lists** `tools/dns_routes.py` | `object-group fqdn` in `rc`, `sc` | get, set, add, remove, create, delete, `diff_sc_rc` | read-modify-write of whole lists in concurrent calls; clear-then-write; reboot before save | no entry is lost, reports are true, `dirty` is right |
| **Explicit save** `tools/txn.py: save_config`, `config.py: save_payload` | `sc` | save, then a diff | a save that is answered and not made | `sc` changes only on request |
| **CLI batches** `tools/txn.py`, behind `cli.py` and `firewall.py` | baseline snapshots (memory and disk) | `apply_cli_batch`, `rollback_hint`, `snapshot_config`, `diff_config` | partial failure of a block, two rollback paths, order and place of inverses, destructive inverses, undo limit | all or nothing, or a verdict that says so; never destructive unasked |
| **IPsec site-to-site** `tools/ipsec.py` | profiles, crypto maps, the ipsec service | create, update, clone, rename, enable/disable, delete | six requests per call, compensation in `rename`, verification after writing | no key is lost, rename is all or nothing, only verified profiles are saved |
| **WireGuard** `tools/wireguard.py` | interfaces and peers in `rc`, `sc` | create, import, state, delete, add/update/remove peer, additive AllowedIPs, get, runtime | id allocation from an old read, remove-then-write of a whole peer in one batch, caught reads | no AllowedIP is lost unless a rewrite was overtaken; what is new is new |
| **DNS-proxy routes** `tools/dns_routes.py` | dns routes in `rc`, `sc` | get, add, delete | same fallback reads; the answer to a write is not looked at | `created`, `deleted` and `dirty` are true |
| **Packet capture** `tools/capture.py` | captures on the router | status, list, ensure, start, stop, download, delete, summary | a limit enforced by a polling loop, five commands before it runs, cleanup after any failure | a limited capture is stopped, no summary leaves one behind |
| **FQDN sync** `tools/fqdn_sync.py`, `static_routes.py` | plans in memory, static routes with a tag | plan, apply, add, delete | a plan applied later; tags that are prefixes of each other | only tagged routes are removed, a fresh plan is reached |
| **Conntrack and flows** `tools/firewall.py`, `tools/flow.py` | none | polls aggregated to sessions, verdicts | rows that come and go between polls, failures taken for empty answers | no session is dropped, a verdict is true |
| **Policy, datapath** `tools/policy.py`, `tools/datapath.py` | none | pairing of tables and routes, explanations | tables and routes read at different moments | a table belongs to one route, the path named is the path |
| **Components, storage, backup** | firmware components, files | install, remove, commit, copy | one selection shared by all commits | what is called pending is pending |
| **Status tools, redaction, registration** | none | reads | - | - |

The parts interact through the router only: every tool opens a client of its
own, and what one call writes another reads.  There is no lock, no queue and no
shared Python state except the snapshots of `txn.py`, the table of routers and
the context variable of `router_ctx.py`.  So the models have one shared state,
the router's configurations, one job record per task, and one action per
request.

## The modules

| module | models | extends or instantiates |
|---|---|---|
| `SavedConfig` | the promise of every write tool, abstractly | - |
| `ScRc` | the reads of `sc_rc.py` with their fallbacks | - |
| `DomainLists` | the domain-list tools, `diff_sc_rc`, `save_config` | `ScRc`; `INSTANCE SavedConfig` |
| `CliBatch` | `apply_cli_batch` with both rollbacks | - |
| `SiteToSite` | the IPsec write tools | `INSTANCE SavedConfig` |
| `WireguardPeers` | the WireGuard tools | `INSTANCE SavedConfig` |
| `Routes` | dns-proxy routes, static routes, plans of the FQDN sync | `ScRc`; `INSTANCE SavedConfig` |
| `Capture` | packet captures and the components they rest on | - |
| `RouterClient` | router selection, hosts, login, posting and polling | - |
| `PolicyPath` | which lists, routes and tables apply to a destination: operators only | - |
| `FlowPath` | the tools that explain or judge a flow, request by request | `PolicyPath` |
| `*_proofs` | theorems about the module of that name | that module, `TLAPS` |
| `MC*` | small instances for TLC | that module |

In every module an operator whose comment begins *Mutant of* is a small
deliberate mistake, kept beside the definition it varies; `PROJECT.json` says
which property it breaks.

### SavedConfig

`running` and `saved` are partial functions from slots to things.  A client with
an open call may change *one slot* of `running` per request; `saved` becomes a
copy of `running`, in one step, and only on behalf of a client whose open call
asked for a save; a reboot makes `running` what `saved` is.  Four modules
implement it.  A slot is a list in `DomainLists`, a profile or the ipsec service
in `SiteToSite`, an interface with its peers in `WireguardPeers`, and all the
routes to one destination, or one dns-proxy route, in `Routes`.

### ScRc and DomainLists

A read of the lists is not a read: `fetch_fqdn_groups` asks up to four times,
twice at the root that is preferred and twice at the other one, and takes the
first answer with a list in it.  `ScRc!ProbedRoot` is the order of these
requests and `Shown` what each one shows.  (The nested form of the answer that
the code also accepts shows the same, one probe later.)

| code | model |
|---|---|
| a tool call in flight | `job[t]`: phase, parameters, and what the call has read |
| one probe of a read | `ProbeNext`, `ProbeRaise`; the last one in `ReadNamed`, `ReadForCreate`, `ReadForDiff`, `ReadAfter`, `Finish` |
| the batch that writes (`_write_list_entries` and its save) | `Write`: the items run one by one; one that is refused does not stop the next, and the answer is not looked at |
| `save_config` | `Commit`, then the reads of the diff |
| the answer of a tool | `report[t]` |
| failures | `Faults`: a read fails, an item is refused, a save is not made, a write or its answer is lost, the router restarts |

Which of several lists with one description is meant depends on the router's
order, so `ResolveListKey` may take any of them.  A call that is refused
before its first request (`assert_writable`, a missing `confirm`) does not
appear.  `save_config` also compares dns routes and WireGuard; only domain lists
are in the model.  A reboot ends the calls in flight: their next request
fails.

### CliBatch

The state is the call's own: the next block, the records of what was applied,
what is left to roll back, the flags `needs_manual` and `rolled_back`; and the
router's running and saved configuration, as the set of items that are set,
each at its place.  A line sets or unsets an item.  Its text matters only by how
`_inverse_cli` and `_is_destructive_cli` classify it, so items come in four
families (see the head of the module).  Values of settings are abstracted: an
item is set or not.

| code | model |
|---|---|
| `snapshot_config` before the batch | `Snapshot` |
| one block | `Apply`: all lines succeed and are recorded; some are refused and *none* is recorded; or the request is lost |
| verify commands | `Verify` |
| `save` | `Save` |
| rollback after a failure that is reported: inverses of the records, then `rollback_hint` | `Hint`, `RollbackNext`, `RollbackEnd` |
| rollback after an exception | `Except`, `ExceptNext`, `ExceptEnd` |
| the verdict | `Verdict` |
| another client of the router | `Other` |

To enter an interface always succeeds.  `interface X up` and `down` behave like
the family `Routes` and are not a family of their own.  The baseline is redacted
by the code; a redacted line is an item like any other here.

### SiteToSite

Of a profile the model keeps the pre-shared key, whether its crypto map is
enabled, and one value for everything else, which is what
`_verify_rc_against_payload` compares.  Of three things that function only warns:
two fields the firmware is known to rewrite, which are left out, and a key that
is empty after the write, which is in the model: the router may store a profile
without its key (`mangle`), `create` and `update` then warn (`job.warned`) and go
on to enable and save it, and `rename` does not look.  A save may be answered and
not made (`nosave`): `create` warns, `delete` raises, the others do not look.

| code | model |
|---|---|
| first reads and the checks after them | `LoadFor...`, `ReadPsk`, `StatusFor...` |
| `_apply_s2s` | `Apply`; the router may store other data than it was sent, or no key |
| read back and verify | `Verify` |
| `_set_map_enabled` | `Enable`, `Service` |
| delete and its check | `Delete`, `Gone` |
| `_save_config` | `Save` |
| last reads, warnings and the check of a saved delete | `Answer` |
| exception in `rename_ipsec` | `Fail`, `Recover`, `Drop`, `Partial` |

Every name in the status map is in `rc` and the other way round; whether a new
new profile starts enabled is left to the firmware.  `keep_psk=False` behaves as a
source without a key and has no parameter of its own.  `job.alone` is history: no
other call was in flight since this one began.  What the answers and the saved
profiles promise is stated for such calls, in whatever state the calls before
them, of any client, have left the router.

### WireguardPeers

Of a peer the model keeps its AllowedIPs and its keepalive interval, of an
interface its peers and whether it is up.  The other fields are handed over
unchanged by `_build_wg_peer_payload`.

| code | model |
|---|---|
| first read of a tool, and its refusals | `LookForCreate`, `LookForConf`, `LookForIface`, `LookForPeer`; add's own `CheckDuplicate`, whose failure is passed over |
| the batch: remove, write, save | `Write`; its items run one by one (`Items`), one or both may be refused (`Refused`), and then the call raises |
| `add_wireguard_from_conf` without an interface | `Import`: the router picks the number |
| `update`, `merge`: the peer once more, then `sc` | `ReadAfter`, `ReadSaved`, `PeerReport` |
| `get`, `get(saved)`, `runtime`, `diff_sc_rc` | `ReadFirst`, `ReadSecond`, `ReadAgain`: which configuration is asked first, and what stands in for one that shows nothing |

### Routes

Static routes have a destination and a comment.  A plan is a set of
destinations to add and to remove, made from `sc`, kept in `plans` and applied
at any later time.  `Prefixes` says which list's tag is a prefix of another's.
`delete_static_route` names only the destination, so the router removes every
route to it.  A restart of the router ends the calls about dns routes, whose one
client fails with it; an apply, and `add_static_route` and `delete_static_route`,
open a client per request, and an apply catches what fails, so that it goes on
after the restart (`Survives`).

| code | model |
|---|---|
| `plan_fqdn_static_sync` | `Resolve` (any subset of the addresses a list may have), `ListAndPlan` |
| `apply_fqdn_static_sync` | `Begin` (limit and dry run), `Recheck`, `Removal`, then for each route `Find` and `Write`; `Conclude` saves if there was no error |
| `add_dns_route`, `delete_dns_route`, `get_dns_routes` | `Look`, then up to three reads of up to four requests: `ProbeNext`, `DnsRead`, around a `Write` whose answer is not looked at |
| an exception inside an apply | `Failed`: it becomes an entry of `errors` |

A save whose answer is lost has saved all the same: `seen.saved` remembers it, since
`deleted` and `dirty` may then be about a configuration that fell back.  A plan is
fresh as long as nothing wrote but applies of it; two plans made equal are one
plan here, so one made while an equal one is being applied does not count as
fresh.

### Capture

One action is one request.  Buffer size, capture size and direction are three
requests without a choice between them and are one phase (`tune`).  A filter is
known by the call that set it, and a capture remembers under which filters its
packets passed.

| code | model |
|---|---|
| the commands of start, stop and delete | `Command`, with `Following` as their order; `Refuse` and `Lose` are its failures |
| the watch loop of `start_packet_capture` | `Poll`, `Sleep`, `Enough` |
| `capture_flow_summary`: start, stop, download, delete | `ToolReturns`; its `except` is `ToolFails`: stop and delete once more |
| `_status_all` with its fallback | `Scan`, `Each`, `Fallback` |
| `install_component`, `remove_component`, the commit | `Queue`, `Commit`; the router installs some time later (`Install`) |
| packets | `Traffic` |

### RouterClient

A call is a list of legs.  A leg names a router or takes the call's, may swallow
its exceptions, and opens one or more clients; every client looks up the
context variable when it is made.

| code | model |
|---|---|
| `set_current_router`, `reset_current_router` | `WithContext` in `NextLeg` and `End` |
| `get_router`, `host_candidates` | `Resolved`, `Candidates` |
| `__aenter__`, `_auth` | `Auth`, `Login`, `LetIn`; `HostFails` takes the next host, unless the answer was "forbidden" |
| `rci`, `rci_get` | `Post`; `ExchangeFails` tries nothing again |
| `rci_continued` | `Chunk`, `Pause`, `Poll`, up to `MaxPolls` and the deadline |

### PolicyPath and FlowPath

`PolicyPath` holds the rules, as operators on what has been read: which lists
a destination hits (`Hits`), which routes follow (`Links`, `Primary`), how tables
and routes are paired (`Linked`), which table belongs to a link (`TableOf`,
`Matches`), the longest match (`BestRoute`).  The auto tables are paired with all
routes of their interface, the disabled ones as well, because `policy.py:303`
looks for `disable` where `get_dns_routes` has put `enabled`.  The other entries of
`show/ip/policy` link the first `MaxLinked` routes (10) whose interface is their
name, their description or the interface they leave by (`PolicyLinked`); `Hints` and
`Related` find a table by its name too.  Where the code sorts routes by list and
index, or takes them as they come, the model gives each its rank in that order
(`InOrder` with `ByList` or `ByPlace`).  `FlowPath` reads what the rules are
applied to, one request after the other, while the router changes.  `rt` is the
router as seen for one destination: its lists and routes, the saved ones that
stand in for them, the tables, the sessions, the peer of the tunnel.

| code | model |
|---|---|
| the requests of a tool | `Reads(op, host)`, worked off by `Resolve`, `ReadLists`, ..., `ReadRuntime` |
| a failure that ends the call | `Raise`, for the requests in `Fatal` |
| a failure that is caught | `LoseLists`, `LoseRoutes`, `LoseCaught`, `LoseRule`, `LoseTable`, `LoseTables`, `LosePoll`, `LoseWireguard`: what the code goes on with |
| `get_conntrack`: polls and their aggregate | `Poll`, `Collect`, `Wake`; `Report` shows at most `limit` of the sessions (any of them: the order of the router decides), with the count of all and `truncated` |
| its uses in `flow.py`, with `limit=20` and `limit=50` | `ReadLive`, `Polled`, with `LiveLimit` and `PollLimit` |
| the verdicts | `Failure`, `Judged` (batch), `Diagnosed`, `PathOf` |
| everybody else | `EditList`, `EditRoute`, `RebuildTable`, `Traffic`, `PeerChanges` |

These tools do not write, so one call at a time shows all there is.

## What the runs check

Every bound is a constant of its module: `MaxCalls` (calls in a behaviour),
`MaxFaults` (failures), `MaxLists` and `MaxIfaces` (numbers to choose from),
`MaxOther` and `MaxChanges` (writes of others; in `Routes` the code's own limit of
a plan), `UndoLimit` (50 in the code), `MaxLinked` (10), `LiveLimit` and `PollLimit`
(20 and 50), `MaxFrames`, `MaxSeconds`, `MaxPolls`,
`MaxTime` (packets and ticks), `MaxPackets`.  Deadlock is not
checked: calls end, and when `MaxCalls` is used up the system stops.

| run | instance | properties | what it shows |
|---|---|---|---|
| `lists_session` | 1 client, 3 calls of any kind, all write faults | `NamesStable` `AnswersHold` | the answers of consecutive calls are true of `rc` and `sc`, whatever was refused, lost or not saved |
| `lists_pair` | 2 clients, 3 calls, each rewriting a list of its own by key, failing reads, lost requests, reboots | `NoLostAdd` `ImplementsSavedConfig` `CallsEnd` | read-modify-write is safe for clients that keep to lists of their own; the abstract promise; every call ends |
| `batch` | every batch of two blocks of 13, every batch of three undoable lines, 6 choices of options; a router that refuses lines, checks and saves, or one that loses requests and answers and refuses undo commands; another client writes one item; undo limit 3 | `OkMeansApplied` `OthersUntouched` `DeniedIsReported` `FailureRestores` `NeverDestroys` `SavedOnlyWhenClean` `BatchEnds` | what each verdict means, and what holds whatever happens |
| `batch_where` | see below | `UndoneWhereApplied` | a finding |
| `s2s_pair` | 1 client makes any of 32 calls, 1 clones, overwrites, enables and deletes on the same names; 2 calls, any failure, 4 configurations | `KeyKept` `ImplementsSavedConfig` `RenameAllOrNothing` `SavedAsAsked` `AnswersHold` | interleavings do not lose a key; a call nobody overlapped renames all or nothing, saves as asked and answers what is so |
| `s2s_renamers` | see below | `DropsACopy` | a finding |
| `wg_pair` | any 2 of 20 calls, interleaved, 4 configurations, every fault | `PeersInv` `NoLostIps` `ImplementsSavedConfig` `DirtyIsRight` `NewIsNew` | what a rewrite of a whole peer can lose, and that the answers are true |
| `routes_sync` | one client plans, applies and works on dns routes, one writes static routes; 4 calls, every fault | `RoutesInv` `ImplementsSavedConfig` `OnlyTaggedDests` `Converged` | an apply deletes only where it saw its tag, and reaches its plan when nothing has overtaken it |
| `routes_foreign` | see below | `NeverTouchesOthers` | a finding |
| `capture` | 2 calls on one interface and one selection of components, one failure each, traffic | `CaptureInv` `FilterHolds` `CleanedUp` `AutoStopped` `CallsEnd` | captures are filtered, stopped and cleaned up |
| `client` | 2 calls of one to four legs, 2 routers, 3 hosts, every kind of answer | `ClientInv` `OnlyNamedRouter` `ObeyedOnce` `CallsEnd` | a call reaches the router it names, once |
| `flow` | each tool on 9 routers, one change (two for conntrack), any failures, one session shown of a poll | `FlowInv` `VerdictsHold` `SessionsKept` `CallsEnd` | verdicts are true part by part, and exact for a router that stands still |

Some properties are conjunctions of named parts, which the modules define one by
one: `AnswersHold` of `DomainLists` is `ReportsHonest` and `DirtyIsRight`; `PeersInv`,
`RoutesInv`, `CaptureInv`, `ClientInv` and `FlowInv` are the type invariant of their
module and one or two state invariants; `FilterHolds` is `SummaryIsOurs` and
`NeverUnfiltered`; `ObeyedOnce` is `PostedOnce` and `OnlyAfterLogin`; `VerdictsHold` is
`PassWasTrue` and `StillRouter`.

Why these bounds.  A lost update needs two calls on one object, and a stale
answer needs a call, a fault and another call.  Two numbers in use and a free one
are enough for an allocation to choose wrongly.  A rollback goes wrong by the
order of two lines about one item or by the place of two lines with one inverse:
batches of two and three lines have both, and `UndoLimit` 3 with four commands
cuts a rollback short.  Every request of a rename may be the one that
fails, and `RenameAllOrNothing` promises nothing for a second failure.  A plan
goes stale through one write of another client, and routes with the tag of the list,
with one it is a prefix of, and with neither, have every case of `Tagged`.  The
cleanup of a summary must survive one failure: with two there is no promise.  Three
hosts, one of them named twice, have a fallback, a forbidden host and a repeated
one.  Pairing goes wrong
with two tables and three routes of one interface, one of them disabled;
aggregation with three polls and two changes between them, and an answer is cut
short as soon as there are two sessions and room for one.  The theorems have no such
bounds.

What the runs deliberately leave out, because the code promises nothing there:

- `NoLostAdd` is false when two clients rewrite *one* list, or when the router
  refuses the write that follows the clear; and it gives up what a rewrite
  drops that could not read `rc` and took `sc` for it.  The code has no lock and
  no retry.
- `NoLostIps` gives up a peer's AllowedIPs in the same cases: the rewrite was
  overtaken, refused or shortened by the router.  `NewIsNew`, `DirtyIsRight` and
  the answers of `Routes` are about calls that nothing overtakes; `NewIsNew`
  excepts an add that could not read `rc`.
- `FailureRestores` holds for batches that can be undone at all (`Reversible`),
  with nothing lost and nobody else writing.
- `RenameAllOrNothing` is stated for renames that meet at most one failure, not
  a lost write: when the answer to the create is lost, the handler
  leaves both profiles.  When the router stores the new profile without its key, the
  rename deletes the old one all the same: the name is kept, the key is not.  For the
  same reason `KeyKept` gives up a key the router left out of a profile.
- `AnswersHold` of `SiteToSite` says nothing of `sc` when a save was answered and not
  made, except of a delete, which reads `sc` and raises, and of a create, which
  warns.  With `SavedAsAsked` and `RenameAllOrNothing` it is about calls that no other
  call overlapped.
- When two clients rename, a connection can be lost (`s2s_renamers`); in `s2s_pair`
  one client renames.
- `AnswersHold` of `DomainLists` needs both configurations to hold something
  for `dirty=false`: the fallback of `ScRc` compares an empty one with itself.
- `OnlyTaggedDests` says at which destinations an apply deletes, not which routes: see
  `routes_foreign`.
- `FilterHolds`, `CleanedUp` and `AutoStopped` are about captures that no other call
  touched meanwhile: nothing ties a capture to the call that made it.
- `PassWasTrue` asks for each part of a verdict at *some* moment of the call, not
  for all of them at one; when a request failed, list and route may be the saved
  ones.
- `StillRouter` takes the tables as the code pairs them with routes, disabled ones
  included, and the sessions that `verify_flow_path` had room for.

## Fairness

`FairSpec` adds weak fairness of `Step(t)` for each task (of `Call` in `CliBatch`,
of `Step` in `FlowPath`), and of nothing else: no call has to be started, nobody
else has to write, no packet has to come, a commit need never be carried out, and
the router never has to fail or to restart.  It is used by the runs
`lists_pair`, `batch`, `capture`, `client` and `flow`.  The code
justifies it: every request has a timeout in `client.py`, a sleep ends, so each
await ends, by an answer or by an exception, and the event loop resumes the task.
`CallsEnd` and `BatchEnds` then say that no tool waits for another one, no read goes
round in circles, and every polling loop meets its deadline.  One loop has none: a
`start_packet_capture` with `max_packets` and without `max_seconds` waits for
packets as long as they do not come, and `CallsEnd` of `Capture` excepts it.

## What is proved

All theorems hold for every value of the constants that meets the module's
assumption (`ListsAssumption`, `BatchAssumption`, `S2SAssumption`,
`WireguardAssumption`, `RoutesAssumption`, `CaptureAssumption`,
`RouterClientAssumption`, `PolicyPathAssumption`, `FlowPathAssumption`): the
parameters have their types, and a few sets are not empty (interfaces in
`Capture`, keys in `WireguardPeers`, destinations, lists and dns routes in
`Routes`), without which the module has no behaviour to speak of.  Nothing bounds
the number of tasks, lists, peers, routes, tables, calls, faults, polls or the
length of a batch.  `FlowPathAssumption` also says that the routes of a router have
different indexes, which is how `delete_dns_route` names them, and that the router
has finitely many table numbers.

Most of the invariants the runs check are not inductive: they are about answers,
and an answer is true because of what the call knew before.  Each proof therefore
goes by one invariant of its module that says, phase by phase, what a call in
flight knows and where it knows it from.  The tables name it.

The write tools and the client:

| module | theorem | argument |
|---|---|---|
| `DomainLists_proofs` | `TypeCorrect` | by induction; one lemma per action, and one per operator on stores |
| `DomainLists_proofs` | `SavedOnlyOnRequest`: `Spec => ImplementsSavedConfig` | reads are stuttering steps or the end of a call; a write changes one key (`EffectsDifferInOne`), and `sc` only if the call asked |
| `DomainLists_proofs` | `AddsStay` (`NoLostAdd`), for `KeepApart` and `"reject" \notin Faults` | `KeepApart`: calls of different tasks that rewrite or delete a list name it by its key, and never the same one; creates are free.  Strengthened by `Kept`: a call works on the list it names, what it is about to write holds all that is owed, and what was added is there |
| `DomainLists_proofs` | `NamesKept` (`NamesStable`), `AnswersTrue` (`AnswersHold`), for a single task (`Alone`) and `"read" \notin Faults` | strengthened by `Knows`, phase by phase: what the probes of a read under way have shown (`Probing`), which list the call is about (`Aims`), what the write left behind (`Landed`) and what the call still holds of its reads (`Holds`); `Seen` is what a read with its fallback returns |
| `CliBatch_proofs` | `TypeCorrect` | by induction |
| `CliBatch_proofs` | `NothingDestroyedUnasked` (`NeverDestroys`) | strengthened by `Filtered`: what is left to roll back, records and hints, has passed `_filter_rollback_commands`; the flag alone is not inductive |
| `CliBatch_proofs` | `DenialReported` (`DeniedIsReported`) | strengthened by `DenialNoted`: from the start of a rollback on, `manual` is true if some inverse was denied |
| `CliBatch_proofs` | `OnlyCleanSaved` (`SavedOnlyWhenClean`) | strengthened by `RecordedSoFar`: the blocks before `next` are in the records and, until the save, nothing failed |
| `CliBatch_proofs` | `OthersAlone` (`OthersUntouched`) | strengthened by `OwnItems`: the records and the hints are about items of the batch, because the configuration differs from the baseline only there |
| `CliBatch_proofs` | `OkIsDone` (`OkMeansApplied`) | strengthened by the replay of the records: with no other writers, running the recorded lines from the baseline gives the configuration, and appending a record extends the replay by one line (`RunAppend`) |
| `CliBatch_proofs` | `FailuresStayUnsaved` (`FailureNotSaved`, where no answer is lost) | strengthened by `SavedAtTheEnd`: `sc` has changed only once the call is done and nothing failed |
| `CliBatch_proofs` | `FailureIsUndone` (`FailureRestores`) | strengthened by `Backwards`: after each rollback command the configuration is the baseline after the records that are still left (`After`), so that it is the baseline when none is.  An inverse is at the place of its line (`SamePlace`), a refused block of an undoable batch leaves nothing (`RefusedLeaves`), and then there is nothing to hint at (`NothingHinted`) |
| `SiteToSite_proofs` | `TypeCorrect`, `SavedOnlyOnRequest` | invariant `TypeOK /\ SaveAsked`: a call in phase `save` asked for it.  Each step of a call is classified once, as a move to another phase or an end, and each write as a change of one slot |
| `SiteToSite_proofs` | `KeyNeverLost` (`KeyKept`), for a single task (`Alone`) | strengthened by `Held`, which says for each phase where the key of the call is: an update writes the key it read; from the answered write of a rename on, its key is under the new name, or was given up when the router left it out, so that the old profile may go; the handler drops the new profile only while the old one has the key |
| `SiteToSite_proofs` | `AnswersTrue` (`AnswersHold`), `SavesAsAsked` (`SavedAsAsked`), `RenameWhole` (`RenameAllOrNothing`), for any tasks | strengthened by `Course` for a call that is `alone`, phase by phase: the phases of each tool (`CourseOf`), what a create, update or switch has written, verified and set (`Made`), what a delete has left (`Deleted`), under which of its two names a renamed connection is (`Renamed`), and that a call that asked for it is saved when it reads for its answer (`SavedFor`).  `Mild` counts the failures: with one of them used up, the handler meets none (`NotMild`).  Only the call's own answer says that the work is done (`WhoEnds`, `StepEnds`) |
| `WireguardPeers_proofs` | `PeersCorrect` (`PeersInv`), `KeepsIps` (`NoLostIps`), `DirtyRight` (`DirtyIsRight`), `NewAreNew` (`NewIsNew`) | one invariant `Inv`: a job is at a phase of its tool (`Ordered`), what `rc` and `sc` show now is in the history of every call (`Watched`), and as long as nothing raced what a call read is still there (`Alone`), so that a rewrite of the whole peer puts back what it found.  A write changes one interface, and of that one peer's AllowedIPs (`Changed`, `Wrote`) |
| `WireguardPeers_proofs` | `WireguardSavesOnRequest`: `Spec => ImplementsSavedConfig` | a batch is the items one by one on one interface, so one slot; the save is its last item |
| `Routes_proofs` | `RoutesCorrect` (`RoutesInv`) | `Undisturbed`: a fallback read under way has shown nothing up to its probe, so that what it ends with is the one thing all its probes agree on (`ReadAs`, `EndsAt`) |
| `Routes_proofs` | `OnlyTagged` (`OnlyTaggedDests`) | `Watched`: destinations with the tag that an apply holds were tagged during the call; what it removes it has just looked for among these |
| `Routes_proofs` | `Converges` (`Converged`) | the plans themselves are part of the invariant.  While plan `p` is fresh, `rc` lies between what it was made from and what it makes (`Between`), what an apply of `p` in flight no longer has on its list is done (`OnCourse`), and each step of such an apply moves `rc` only towards the end (`Progress`) |
| `Routes_proofs` | `RoutesSavesOnRequest`: `Spec => ImplementsSavedConfig` | each write is about one destination or one index (`SameBut`) |
| `Capture_proofs` | `CaptureCorrect` (`CaptureInv`), `FilterAlways` (`FilterHolds`), `StopsItself` (`AutoStopped`), `SummaryCleansUp` (`CleanedUp`) | one invariant `Inv`: what is there, running or due now is in the history of every call (`Watched`), what a call found was there (`Found`), and while no other call touched its interface, a call knows the state of its capture in each phase (`Alone`): off while it prepares, filtered by itself from `filter` on, off or gone behind the last command that could fail |
| `RouterClient_proofs` | `ClientCorrect` (`ClientInv`), `NamedRouterOnly` (`OnlyNamedRouter`), `PayloadObeyedOnce` (`ObeyedOnce`) | one invariant `Inv`: the context variable holds the router of the running leg (`Placed`), nothing has been posted before the phase `post` ends, and in that phase the host has let this client in (`Staged`), and what was collected is what was sent (`Collects`).  That `Candidates` lists each host of the router needs a rank argument (`NthExists`) |

The tools that judge what they read (`FlowPath_proofs`):

| theorem | argument |
|---|---|
| `CallsKnow` (`CallInv`) | `CallInv` is `World /\ Underway /\ Closed`.  A call in flight is `Sound`: its requests are worked off in turn (`InTurn`), and what it knows of each request that is done was `Seen`, that is, shown by some router of `past`, or by its saved configuration if a request failed; hits, links, tables and matches are the operators of `PolicyPath` on things seen.  An answer is `Told` by some call that was sound when it ended.  One lemma per request and per failure |
| `FlowTyped` (`FlowInv`) | ranks.  The indexes of a router's routes are different, so the routes of one interface, disabled ones included, are ordered, the n-th table and the n-th route determine each other, and each route has one table (`PairedOnce`); `Matches` drops a table that an earlier link has (`MatchLeavesByLink`) |
| `ConntrackShows` (`SessionsKept`) | `Kept`: after each poll the aggregate is, session by session, the maximum of the counters polled so far and the disjunction of UNREPLIED; one more poll keeps that; the answer is a part of it of `limit` sessions, or all |
| `VerdictsTrue` (`VerdictsHold`) | `PassWasTrue` reads the parts of the verdict off what was `Seen`.  For a router that stands still, everything seen is that router: a table is found for some link exactly if one of the routes used has a table (`HasTable`), by way of the three cases of `TableOf`, and the cascade of `Failure` is the least letter of `Wrong`, for the sessions it had room for |

`TypeOK` of the first three modules and `FailureNotSaved` are proved and so are not
run; elsewhere `TypeOK` is a part of an invariant that is run.

The installed provers cannot instantiate the induction theorems of the library,
which take a predicate; but a *set* of numbers can be given to a lemma, and that
sets of numbers have a least member is enough for induction (`LeastOf`,
`SetInduction` in `FlowPath_proofs`).

Only model-checked: the liveness properties, which are out of the prover's reach;
`KeyKept` for two clients of which one renames (`s2s_pair`; the theorem is for one
client, and for two that both rename it is false).  The hypotheses about `Faults` of
`DomainLists_proofs` are those of its runs: when the router refuses the write that follows a clear, entries are
lost, and the names and answers of `DomainLists` are not claimed for reads that fail and
show `sc` for `rc`.  `Alone` restricts who is at work, never what a call finds, how many
calls are made or what fails.

## Where the code does not do what it says

Three disagreements are runs, each with one property that says what a comment or
docstring says:

- `batch_where`: `txn.py:557` says that inverses run "with original context when
  present".  The context is looked up by the text of the inverse, so that two
  interfaces with the same tuning are both rolled back on the first one; the
  verdict is `rolled_back`.
- `s2s_renamers`: `ipsec.py:1704` says that the handler of `rename_ipsec` drops the
  new profile "if new created and old still exists".  It takes whatever is under
  the new name for its own.  When two clients rename two connections to one name
  and one of them fails, it drops the profile of the other, whose old profile is
  deleted already: the connection and its key are gone.  (Two equal renames lose it
  too: the check and the drop are two requests, and the other call deletes the old
  profile in between.)
- `routes_foreign`: `fqdn_sync.py:42` says "Only manages routes with comment
  `fqdnsync:<list_name>`. Never touches others".  The re-check asks whether a comment
  begins with the tag, so that the routes of a list whose name begins with the
  name of this one go too, and the delete takes every route to the destination,
  tagged or not.

Others were met while modelling.  They are not runs; the properties above are
stated so as to say what is left:

- `diff_sc_rc` says "Diff saved (sc) vs running (rc)".  When the last list is
  deleted and not saved, `rc` is empty, the read of `rc` falls back to `sc`, and
  the diff is empty: `dirty=false`.
- `created` is to be reported only if `rc` really changed.  Two concurrent creates
  pick the same number, the second one adds its entries to the list of the first
  or changes nothing at all, and both answer `created=true`.
- An incomplete rollback is to be answered with a verdict that asks for a restore
  by hand.  A block with a refused line leaves its other lines in force and is
  not recorded; the verdict is `failed`.
- `create` and `update` of a site-to-site connection verify the profile before they
  enable and save it, and only warn when its key is missing ("ike-psk empty in RC
  after write"); `rename` checks the name only, deletes the old profile and answers
  without a warning.  An update, a rename or a switch reports `config_saved` without
  looking whether the save was made.
- `policy.py:303` means to leave out disabled dns routes and tests a key that the views
  of `get_dns_routes` do not have: a disabled route takes part in the pairing of tables
  with routes, and the tables of the routes after it are called after their
  neighbours.
- `add_wireguard_allowed_ips` with nothing to add answers `persisted` and
  `config_saved` as `save` was given, and sends no save.
- A merge sets the keepalive interval of the peer to 25 whatever it was.
- `get_wireguard_runtime` shows the AllowedIPs of the first configured peer for every
  peer of the interface.
- `delete_dns_route` with `save` answers `deleted: true` though `rc` had no route to
  delete, when the last route was deleted before without a save: the first read
  falls back to `sc`, the save empties `sc`, and the second read shows nothing.
- A summary that fails before its own capture exists still stops and deletes the
  capture of its interface, whoever made it.

## What is not modelled

- Parsing and formatting: IP and CIDR validation, include types, JSON shapes,
  redaction, `.conf` and pcap files, the text of answers.  They carry no state
  between requests.
- The tools that read once and reformat (status, health, interfaces, firewall and
  NAT rules, IPsec diagnosis and proposals, connection priorities, storage,
  backup), and the probes (http, tcp, speed): one request and no decision that a
  model checker could tell apart.
- `_normalize_blocks` and the on-disk snapshots of `txn.py`; loading the table of
  routers.

`PROJECT.json` lists every component with its status, and under `hazards` what
is hard to test, with the properties that cover it.

## Plan

1. Done: every module above; for each that has state, type correctness, the
   refinement to `SavedConfig` where it implements it, and the safety and action
   properties its runs check, proved for every value of the constants under the
   hypotheses named above.
2. Left to prove: `KeyKept` for several tasks of which one renames, whose invariant
   has to say what the others may do to the two names meanwhile; the parts of
   `AnswersHold` of `DomainLists` and `SiteToSite` that survive other clients, stated
   as what was so at some moment of the call.
3. Left to model: `_normalize_blocks` with `_inverse_cli` on whole command lists,
   `diff_config` with the snapshot files, and the dns-route part of `save_config`.
