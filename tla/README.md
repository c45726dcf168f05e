# TLA+ models of the network topology exporter

The exporter discovers network topology over SNMP (LLDP, CDP, FDB, BGP, OSPF, IS-IS, MPLS), publishes it as
Prometheus metrics, change events and OTLP, persists it in a snapshot, and federates: *spokes* push their
graphs to a *hub*, which merges them and may itself be replicated.

These modules model what is hard to test in it: goroutines that share state across several critical sections,
bounded queues, leader election, retries, shutdown, panics and crashes, tables that change while they are read,
and algorithms whose result must not depend on the order of their inputs.

## The parts of the system

| Part | Source | Module |
|---|---|---|
| Hub: push handlers, generation fence, eviction | `internal/federation/hub*.go` | `Hub`, `HubProofs` |
| Hub snapshot writer | `internal/federation/hub_snapshot.go` | `HubSnapshot` (extends `Hub`), `HubProofs` |
| Hub merge | `internal/federation/hub_merge.go` | `HubMerge`, `GraphProofs` |
| Payload and its validation | `internal/federation/hub_validate.go`, `internal/snapshot` | `PushPath`, `SnapshotProofs` |
| Leader election, fenced snapshot | `elector*.go`, `internal/app/app.go`, `internal/snapshot` | `LeaseFence`, `HubProofs` |
| Snapshot file | `internal/snapshot/snapshot.go` | `SnapshotFile`, `HubProofs` |
| Spoke pusher and client | `internal/app/spoke_pusher.go`, `internal/federation/spoke.go` | `SpokePusher`, `Mailbox`, `LoopProofs` |
| Spokes, hub replicas, Lease and push Service together | `app.go`, `hub.go`, `spoke.go` | `Federation`, `GraphProofs` |
| Discovery loop, snapshot writer, watchdog, admin rediscover | `internal/app/loop.go`, `rediscover.go` | `DiscoveryLoop`, `LoopProofs` |
| Fan-out of a cycle, credential trials | `cycle.go`, `probe.go`, `device_walk.go`, `internal/credentials` | `CycleFanout`, `Sweep`, `FanoutProofs` |
| Edge synthesis | `internal/app/helpers.go`, `cycle.go` | `EdgeSynthesis`, `DiscoveryProofs` |
| Reconciliation, diff, keys, port names | `internal/graph/graph.go` | `TopologyGraph`, `Observations`, `GraphProofs` |
| Ageing of one-sided links | `graph.go`, `loop.go`, `cycle.go` | `LinkLifecycle`, `SnapshotProofs` |
| SNMP session pool | `internal/discovery/snmp/pool.go` | `SessionPool`, `SnmpProofs` |
| One SNMP call | `internal/discovery/snmp/snmp.go` | `SnmpWalk`, `SnmpProofs` |
| LLDP, CDP, IS-IS, OSPF, MPLS walkers | `internal/discovery/*` | `NeighbourWalk`, `DiscoveryProofs` |
| FDB walker | `internal/discovery/fdb` | `FdbWalk`, `DiscoveryProofs` |
| BGP walker | `internal/discovery/bgp` | `BgpWalk`, `SnmpProofs` |
| Target overrides, credential assignments | `internal/config`, `internal/credentials` | `TargetRules`, `DiscoveryProofs` |
| OTLP publisher | `internal/app/otlp_publisher.go`, `internal/output/otlp` | `OtlpPublisher`, `LoopProofs` |
| Log limiter | `internal/loglimit` | `LogLimiter`, `LoopProofs` |

`Places` (lists as the loops of the code build them) and `SeqProofs` (lemmas about sequences)
serve several modules. `PROJECT.json` lists every part, the ones that are not modelled with the reason.

How they interact: the configuration says what to walk at an address and with which credentials (`TargetRules`).
A discovery loop (`DiscoveryLoop`) runs cycles; each fans out over the targets (`CycleFanout`), takes sessions from
the pool (`SessionPool`), calls the device (`SnmpWalk`) and walks its tables (`NeighbourWalk`, `FdbWalk`, `BgpWalk`).
The results are joined (`EdgeSynthesis`), reconciled (`Observations` over the operators of `TopologyGraph`) and aged
(`LinkLifecycle`). The loop publishes the graph, pushes it over OTLP (`OtlpPublisher`), saves it (`SnapshotFile`) and
hands it to the pusher (`SpokePusher`). The pusher posts it to a hub replica (`Federation` is about which one), which
validates it (`PushPath`), merges it with the other spokes' graphs (`HubMerge`, and `Hub` for the concurrency) and
queues the result for the snapshot (`HubSnapshot`); the hubs of an HA deployment share that file (`LeaseFence`).

## How state and actions correspond to the code

* **Hub.** A payload is its `CycleAt`; a combined graph is the function from spokes to the `CycleAt` merged in.
  `Receive`, `Validate`, `Admit`, `Publish`, `Finish` are the stretches of `handlePush` between its lock
  operations; `Admit` is the first critical section (candidate and generation), `Publish` is `publishIfWinner`.
  `EvictTick` ... `EvictFinish` split `evictSilentSpokes` in the same way. `Abort` and `EvictPanic` are a panic in
  `buildCombinedGraph`, recovered by net/http or by the tick's `recoverGoroutine`. Time is a bounded counter.
* **HubSnapshot.** Adds `runSnapshotWriter`, the goroutine of each write (which may outlive the writer's
  timeout, fail or panic), and a crash followed by a restart from the file.
* **HubMerge.** `BuildCombinedGraph` over the payloads of the spokes that reported so far: one device per name, the
  spokes' edges, links from boundary hints that name each other, configured inter-domain links, then `Reconcile`.
* **PushPath.** One payload from the walker's output through sanitising, the hub's validator and the snapshot's
  loader. A text is its length and whether it has control characters.
* **LeaseFence.** Each hub's elector callbacks, the epoch it read, its queued graph and the write in progress;
  the read of the fence and the rename are separate steps. Any hub may stall between any two steps.
* **SnapshotFile.** `Load`, `quarantine` and `Write` of two processes, one system call a step. What is written is in
  the cache until it is synced; a kill loses the process, a power failure also what was not synced.
* **SpokePusher.** The three selects of `Enqueue` are three steps, each interleaved with `run`. Push's retry loop
  appears twice, under `run`'s context and under `drainOnce`'s. Encoding a payload is taken not to fail.
  It implements `Mailbox`, a slot that always holds the newest payload not yet taken.
* **Federation.** The hub reduced to the leader gate, `firstLive` and `IsReady`; the spoke to its cycles, attempts
  and keep-alive connection. `Gated` chooses between the readiness-gated Service of `deploy/` and a `hub_url`
  that resolves to every hub.
* **DiscoveryLoop.** One cycle is lock, walk, publish (events, then metrics, then the snapshot offer). `RunCycle`
  returns any graph. Time is the age of the last completed cycle in watchdog intervals.
* **CycleFanout.** One goroutine per target: the wait for a slot, the cached profile and its expiry, the trials with
  the token bucket between them, the modules, the collection under `mu`; budget, cancellation and panics at any
  point. `FinishCycle` is what follows `wg.Wait`. It implements `Sweep`: each target gets one verdict, and the report
  counts them all.
* **EdgeSynthesis.** Results arrive in any order; each arrival is checked against `SynthesizeEdges` and the helpers
  around it. `prev` and the first-seen times go through accepted and rejected cycles.
* **TopologyGraph, Observations.** Pure operators, and a machine that lets observations arrive one by one so that the
  properties are evaluated at every sequence of them. A port name is its number and one of two spellings.
* **LinkLifecycle.** What a cycle saw of each link, the counters, the filter, the size budget, the snapshot with its
  text keys and a restart. `past` is history that only the properties read.
* **SessionPool.** The two critical sections of `acquire` with the dial between them; idle times become a choice.
* **SnmpWalk.** `BulkWalk` as caller, transport goroutine and context; the fallback to `WalkAll` is its second round.
* **NeighbourWalk.** One table, read one column at a time, whose rows the device changes between two columns; the
  columns, the required-table policy, the scope and the outcome are those of the chosen protocol.
* **FdbWalk.** The bridge and Q-BRIDGE tables, then one goroutine per VLAN with a slot each, then the classification of
  ports. A table is a function from addresses to rows.
* **BgpWalk.** The decoders of the vendors' indices on octet sequences, and the order in which tables are tried.
* **TargetRules.** Prefixes over addresses of `Bits` bits; loading refuses or accepts a list of rules, and the properties
  are evaluated for every address.
* **OtlpPublisher.** `Push` with its slot, the goroutine that stores the graph, flushes and is counted, the heartbeat, and
  the shutdown. A failure is its fault and the numbers that appear in its text, from which the reason is derived.
* **LogLimiter.** `warnEvery` in two steps, the clock and the critical section, by several callers.

## Runs

Bounds are in the `.cfg` files. The modules `MCShared`, `MCDiscovery` and `MCEventually` hold several independent
components: a variable `part` picks one of them in the initial state, its steps leave the other components' variables
alone, and an invariant of a component is checked in the states of its part. One run asks one question of
all of them, and the state count is the sum and not the product of the parts.

| Run | Result | What it shows |
|---|---|---|
| `hub_safety` | pass | Two concurrent pushes and the eviction loop on one replica of an HA hub, with leadership flips, a rate limit, a size budget and panics: the generation fence keeps the served graph in step with the registry. |
| `hub_served` | violation | Two spokes push at the same time and both get a 204; the graph that is served in the end lacks one of them. |
| `shared` | pass | State that several goroutines, processes or restarts share: the fan-out of a cycle with its credential trials, the OTLP publisher, the hub's snapshot writer, the fence of two hubs on one file, and the snapshot file itself under failing writes, killed processes and power failures. |
| `discovery` | pass | From the devices to the graph: what the configuration selects, the session pool, the table walks of a device that changes meanwhile, the per-VLAN fan-out, the BGP index decoders, edge synthesis, reconciliation, ageing across restarts, payload validation, the hub's merge and the log limiter. |
| `eventually` | pass | What must happen: silent spokes leave the hub's graph, queued payloads settle and the pusher's shutdown returns, a cycle completes, and an SNMP call returns and leaves its session alone; with the mailbox the pusher implements. |
| `federation_direct` | pass | With spokes that reach every hub, each leader becomes fresh again after lost leases, step-downs, crashes and restarts. |
| `federation_gated` | violation | Behind the readiness-gated push Service no leader ever becomes fresh: readiness waits for the first push, and a push needs a ready endpoint. |
| `loop_safety` | pass | The discovery loop with its snapshot writer and watchdog, rejected graphs and panics: events and snapshots follow the served graph. |
| `loop_live` | pass | Cycles, admin requests and panics contend for CycleMu: cycles go on, requests are answered and shutdown returns unless a panic struck a walk, and then graph_stale reports it. |
| `loop_panic` | violation | A panic in RunCycle leaves CycleMu locked: the recovered loop never runs another cycle. |
| `push_rejected` | violation | A spoke that discovers a BGP or OSPF adjacency pushes an edge without a source port, and the hub refuses the whole payload. |
| `module_status` | violation | A module that failed in one cycle and is well in the next keeps its failed status on the gauge. |

Why the bounds are enough:

* `hub_safety`: two spokes and two handlers are enough for one to overtake the other while the eviction runs, which is
  the shape of every race in the hub; a third of either adds no new pair of critical sections. Time runs to 3
  with a timeout of 1, so that a spoke can register, fall silent and be evicted. The parts of `shared` and
  `eventually` that extend the hub have one handler, which races the eviction, the writer and leadership.
* `shared`: two targets behind one address share a slot, a cache entry and the token bucket, over two
  cycles; OTLP pushes of graphs and of changes contend for two slots; two hubs and three elections; two processes and three writes on a
  file, with two quarantine names, so that they run out.
* `discovery`: up to three rules that overlap; three walkers on one key, so that one session is out, one is dialled and one
  is returned (the proof covers any keys and walkers); one change of a table between columns, which tears a row, and four neighbours of different kinds; four VLANs
  with two slots; every vendor with both address families, a short index and an empty table; three results in
  every order; three observations in every order; links with TTL 2, through expiry and return; three log
  keys with a map of two.
* `eventually`: four cycles for the pusher, one payload each in its hands, in the mailbox and under way, and one to
  overtake them; one worker for two targets; three SNMP calls in a row on one session.
* `loop_safety` has two edges and a budget of one, so that graphs are accepted and refused, and no admin request;
  `loop_live` has a request and no edges, since nothing it checks looks at the graph.

Deadlock is not checked in the loop runs: a panic inside a walk leaves the program blocked, which `loop_panic` shows.

### Disagreements with the documents

Each run above marked *violation* states what a document or comment says and shows a behaviour of the code that
contradicts it; `PROJECT.json` quotes the line. They are:

* a 204 for a graph that is not served in the end (`hub_served`);
* readiness and push routing that wait for each other (`federation_gated`);
* `CycleMu` left locked by a panic (`loop_panic`);
* a payload with a BGP or OSPF adjacency that the hub refuses as a whole, for want of a source port (`push_rejected`);
* a module status that never returns to 0 (`module_status`).

### What the conditions leave room for

Some properties carry a condition, because the code does not give the stronger statement. Without it TLC finds:

* `SilentSpokesLeave` (`rebuildRefused`, `rebuildPanics`): entries are deleted before the rebuild, so after a panic
  or a refused size in it no later tick rebuilds; the edges stay until some spoke pushes. `hub_eviction.go:30-31`
  has the next tick try again. (`isLeader`): a standby does not evict.
* `StaleTenureRefused` (`epoch > 0`): the first leader of a new Lease has epoch 0, which `snapshot.Write` does not
  fence. `EpochCoversTenure` is an inequality: a hub that stalls before the epoch read takes its successor's epoch.
* `FileIsDurable` (`raced`): a process that quarantines a text it read earlier removes the file by its name, also when
  another process has replaced it since. `EvidenceIsKept` (`gaveUp`): a quarantine that fails leaves the text for the
  next `Write` to replace.
* `AcceptedIsLoadable`: seven fields have a tighter cap in the snapshot than in a push; `limits.go:4-11` calls them
  lockstep. A snapshot refused for a field is not quarantined.
* `DiskFollowsTopology` (`drops`, `writeFailures`): the file is behind after a snapshot that was dropped or not written, until the
  next one. `EventsFollowTopology`, `DiskFollowsTopology` (`panics`): a panic between the change events and the assignment of
  `prevGraph` makes the next cycle emit them again. After a panicked write the writer drops every later
  snapshot as `write_in_flight`.
* `NeverAliased`, `UsedIsOpen`, `InUseHasUser` (`pulled`): `InvalidateProfile` removes entries in use, and the release of
  such a session frees whatever entry the key has by then. Nothing calls it yet.
* `ProfileKeptUnlessRejected` (the count of `auth`): a candidate list that is empty, and a cancellation, are counted as
  authentication failures as well.
* `WithdrawnOnTime` (a row of accepted cycles): an expired counter is reset, so a link that stays one-sided is
  left out of one graph in every TTL + 1 and comes back; and when the graph that leaves it out is rejected,
  the served graph keeps it.
* `SynthesisOrderFree` (`Conflicting`): when two ARP tables disagree about a MAC, the first result to be collected
  wins.
* `TrunksAreNotLinks` (`quiet`): a failed Q-BRIDGE walk beside a filled bridge table, and a failed list of VLANs, leave no
  sign; a trunk may then look like a link.
* `PeersAreExact`: a vendor table that is absent makes the walker fall back to `bgpPeerTable`, which has no IPv6.
* `EdgesAreWhole`: an LLDP row removed between the columns names its device by the chassis, not by the name.
* `NarrowestRuleDecides` (`canonical`): an exact address in another spelling than Go's is never matched.
* `CooldownHolds` (`early.others`): eviction takes the key emitted longest ago, also when it is in its cooldown; the
  comment at `loglimit.go:171-173` speaks of cold keys.
* `ReceiverIsCurrent` (`overtaken`): the exporter's `latest` is stored by the push goroutine, so of two graphs the older may
  be stored last.
* `ReasonNamesTheFault` (the assumption on `Port`): the status of a failed push is searched in the text of the error, which
  also holds the port; with 443 a refused connection counts as `http_4xx`.

Three statements have no property: the per-spoke rate limit lets two racing pushes both pass (`lastSeen` is
written in the second critical section, `hub_push.go:258-259`), a 409 does not mean that a newer payload of
that spoke was published (all spokes share the generation counter), and two winners may hand their graphs to
the hub's snapshot writer in the other order, so that the file keeps the older one.

## Fairness

Each component states its fairness beside its specification; `MCEventually` states the same, part by part: `Turn(i)` is
the `i`-th goroutine or timer of the part that runs, and `PartsFairness` is weak fairness of each `Turn(i)`.

* `FairHubSpec`: time passes, the eviction goroutine runs (its ticker fires every half timeout), and handlers that
  passed the gate go on. No fairness on incoming pushes.
* `FairPusherSpec`: both goroutines are scheduled, timers fire and a POST ends (the client has a timeout).
* `FairFanSpec`: every worker goes on (each trial and walk has its deadline), the token bucket refills, and `wg.Wait`
  returns when it may. None on the end of the budget, nor on panics.
* `FairWalkSpec`: caller and transport goroutine are scheduled, and a read ends (gosnmp's timeout, or `SetDeadline`).
* `Federation!Spec`: electors contend and notice a lost Lease, probes and discovery cycles go on, and a spoke that
  reconnects again and again is not sent to the same replica for ever. None on crashes or lost Leases, which are
  bounded by `MaxFlips`.
* `FairLoopSpec`: goroutines are scheduled and walks end at their deadlines; `sync.Mutex` hands the lock to a
  waiter after a millisecond (its starvation mode), hence strong fairness on taking it. A snapshot write may
  hang for ever.

## Proofs

Each theorem holds for every value of the constants that the modules' `ASSUME`s allow, and TLC evaluates these in the runs.
Every safety property that a passing run checks is stated by a theorem; `PROJECT.json` names it. Proofs go further
than runs: what is proved for every instance, types and counting in particular, is not all repeated by a run. A leaf
that names no prover is Zenon's; leaves about numbers, sequences and records name SMT.

The proof of an invariant has one shape: an inductive invariant holds initially, one lemma shows that each action
preserves it, and the theorem follows by PTL. A refinement adds that each step maps to a step of the abstract
specification or to none.

* **`HubProofs`**
  * *Hub*: types, the safety properties of `hub_safety`, that the liveness series agree with the registry and that
    generations are distinct, for any spokes, handlers and limits. `NoSilentGhost` is not inductive: a handler
    admitted before an eviction holds a graph with the evicted spoke and could publish it later. `HubInv` adds
    `StaleCandidatesFenced`: such a handler's generation is below the one the eviction took or will take, or was
    overtaken already. It also needs that generations are distinct, that an eviction's graph holds registered
    spokes only, that a registered spoke implies `firstLive`, and that the evictor's `now` is not ahead of the clock.
  * *Snapshot writer*: types, `OneWriteAtATime`, `DiskWasServed`. `SnapInv` follows a graph from `served` through queue and
    write to the file.
  * *Fence*: five properties, for any number of hubs and elections. In `FenceInv` no epoch in a hub, in a write in progress
    or in the file exceeds the Lease's transitions, and an epoch that was read covers its tenure.
  * *File*: `FileIsDurable` and `EvidenceIsKept`, for any number of processes and writes. In `FileInv` only
    synced files are renamed, so no text is torn; what `Write` reported is at the path and survives a power failure
    (`AckedIsThere`); an unread text is in quarantine as soon as a process may remove or replace it (`TextIsSafe`).
* **`SnapshotProofs`**
  * *Links*: `WithdrawnOnTime`, for any links and TTL. `LifeInv` ties each counter to the cycles behind it, in memory and in
    the snapshot. The restart is the reason for `KeyIsReadBack`: escaping and splitting give every key back, for
    names of any characters, the separator and the escape included.
  * *Payloads*: `AcceptedIsLoadable` for texts of any length. `PushPathInv` records which checks a payload has passed; the
    lemmas compare the caps of walker, hub and snapshot field by field. `RefusedForCause` says for any walks and
    answers when a spoke's own payload is refused: a device without a name, an edge without a source port or an end,
    or control characters in the text cut from sysDescr, and nothing else.
* **`LoopProofs`**
  * *Discovery loop*: `EventsFollowTopology`, `DiskFollowsTopology`, and that the loop and the admin endpoint never walk at the
    same time. `LoopInv` follows a graph through publish, queue and write. `StruckIsFinal`: after a panic under `CycleMu`
    nothing is walked again, so what `loop_panic` shows of one behaviour holds of every one.
  * *Pusher*: types, `FreshestIsQueued`, `SupersededNeverSent`, and that `SpokePusher` implements `Mailbox` under the mapping
    in which the payload between the drop and the re-insert counts as waiting. `PusherInv` orders the payloads:
    accepted and in hand below what waits, what waits at most the current cycle's.
  * *OTLP*: `FlightsMatch`, `EveryPushCounted`, `DrainedIsIdle` by counting the set of flights; `ReasonNamesTheFault` for every
    port outside 400..599; `ReceiverIsCurrent`, from the order of the graphs in flight, stored and delivered.
  * *Log limiter*: `CooldownHolds`. `LimitInv` adds `MapIsRecent`: a key that was let through and is not in the map has at
    least `MaxKeys - 1` keys there that were let through at its time or later.
* **`FanoutProofs`**
  * *Cycle*: `SecretsWiped`, `ProfileKeptUnlessRejected` and that `CycleFanout` implements `Sweep`, for any targets, profiles
    and slots. `FanInv` has the types, the secrets of every probe, and that each probe that ended is counted once.
* **`SnmpProofs`**
  * *Call*: after its return a call leaves the session alone, and asks the device at most once more after its context
    ended. `WalkInv` ties the caller's place to that of the transport goroutine.
  * *Pool*: exclusion, ownership and liveness of sockets and entries, for any keys and walkers. None of them is inductive
    alone. `PoolInv` says who holds a socket: what is pooled is open and pooled once, a freshly dialled or transient
    session is open and nobody else's, and a walker whose pooled session is open finds it in the pool (`PoolOwns`);
    until a rotation removes an entry in use, users have different sessions, each that of its key (`PoolUses`).
  * *BGP*: `PeersAreExact`, from `SpeakerAssumption`: a row of the vendor's table has the index its MIB gives to a peer, or
    one that cannot be decoded. The decoders are proved to return the address of every such index.
* **`DiscoveryProofs`**
  * *Rules*: `NarrowestRuleDecides`, for addresses of any length. A running process has accepted its rules, so at most one
    override of each length holds an address; the lemmas show what a search for the longest match returns.
  * *Neighbours*: `EdgesAreWhole`, for any neighbours and any number of changes. `NeighbourInv` says of every cell read so far
    which neighbour it is of, and that the walk witnessed that neighbour.
  * *FDB*: `TrunksAreNotLinks`, for any VLANs and slots. `FdbInv` says what has been read at each place of the walk when
    nothing was left out.
  * *Synthesis*: `FirstSeenSticks`, `SynthesisOrderFree`, `FdbEndsAtDevices`. `SynthInv` has that the answers are such as a walk
    returns and that the previous graph has one entry for a neighbour. That the order of arrival has no influence
    rests on the sort of the results: it depends on the set of targets only.
* **`GraphProofs`**
  * *Reconcile*: `GraphIsCanonical`, for any observations and any number of them. Every part of `Reconcile` is shown to depend
    on the observations as a bag or a set and on normalised names only; equal parts give equal graphs.
  * *Merge*: `MergeIsExact`, for any number of spokes. `MergeInv` has the types; the rest is about the operators: which
    observations a link of a graph comes from, and that reconciling reconciled edges again loses none of them.
  * *Federation*: `ConnectedWasAccepted` (a spoke keeps a connection only to a running hub that accepted a push of it), and
    `GateStaysShut`: behind the readiness-gated Service no hub ever accepts a push, for any number of hubs and spokes.
    `federation_gated` shows one behaviour without a fresh leader; by the theorem no behaviour has one. It
    needs `ConnectedWasAccepted`, which rules out a connection from before the gate, and that the endpoints stay empty.
* **`SeqProofs`** has the lemmas the others share: concatenation, folds, the places of a list that satisfy a condition, the
  parts between separators. Where they need induction over a length, they take the least length for which the
  statement fails and derive it from the one below; the library's induction theorems are not used. The
  existence of a recursive function, such as the one behind `FlattenSeq`, is proved in the same way.

Only model-checked: liveness (`SilentSpokesLeave`, `QueuedSettles`, `ShutdownReturns`, `CycleCompletes`, `CallReturns`,
`LeaderBecomesFresh`, `CyclesContinue`, `RequestsAnswered`, `LoopReturns`, `WedgeIsReported`), which needs fairness and
ENABLED, beyond the provers at hand.

## Not modelled

* Wire formats, TLS, logging, tracing, metric rendering, YANG output, the CLI: formatting and I/O without state of their
  own. The collectors render state that other modules own; two label values that agree up to the truncation limit would
  collide (`topology_collector.go:26`).
* Conversions of single SNMP values, OID tables and vendor identification: total functions of one value, taken as
  classes (decodes or not) by the walkers' modules.
* Parsing and range checks of the configuration, apart from the target rules: they run once, before anything else,
  and their bounds are the `ASSUME`s.
* The set-up of the hub's server and of the admin endpoint's authorisation.
* The cluster (Lease, client-go, kubelet, Service), the file system, the OTLP SDK and gosnmp are external: they are
  modelled from how the code uses them.
