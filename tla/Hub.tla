-------------------------------- MODULE Hub --------------------------------
(***************************************************************************)
(* The federation hub of internal/federation: concurrent /spoke/push       *)
(* handlers and the eviction loop, which read the registry h.spokes under  *)
(* h.mu, build a combined graph outside the lock, and publish it under     *)
(* h.mu through the generation fence publishIfWinner.                      *)
(*                                                                         *)
(* Data.  A payload is its CycleAt; a combined graph is the function that  *)
(* gives, for every spoke, the CycleAt of the payload merged in (0: none), *)
(* and its size the sum of theirs.  Time starts at 1 so that 0 is Go's     *)
(* zero time, and the zero entry is an absent map key.                     *)
(***************************************************************************)
EXTENDS Naturals, FiniteSetsExt

CONSTANTS Spokes,           \* spoke ids
          Requests,         \* goroutines net/http may run handlePush in
          SpokeTimeout,     \* federation.spoke_timeout
          MinPushInterval,  \* federation.hub.min_push_interval, 0 = off
          MaxGraph,         \* federation.hub.max_graph_*, 0 = no budget
          Size,             \* what a payload adds to the size of a graph
          FutureSlack,      \* the five minutes handlePush allows
          HA,               \* an elector drives SetLeader
          MayPanic,         \* buildCombinedGraph may panic
          MaxTime,          \* bound on the clock
          MaxGen            \* bound: no push arrives past this generation

ASSUME HubAssumption ==
    /\ SpokeTimeout \in Nat /\ MinPushInterval \in Nat /\ MaxGraph \in Nat
    /\ FutureSlack \in Nat /\ MaxTime \in Nat \ {0} /\ MaxGen \in Nat
    /\ HA \in BOOLEAN /\ MayPanic \in BOOLEAN

VARIABLES
    clock,             \* the wall clock
    isLeader,          \* h.isLeader
    spokes,            \* h.spokes
    gauge,             \* spoke_up / last_push series: their timestamp, 0 = no series
    topology,          \* the graph /metrics serves (m.Topology)
    firstLive,         \* h.firstLive; GraphStale is 1 until it is set
    publishGen,        \* h.publishGen
    lastPublishedGen,  \* h.lastPublishedGen
    rebuildRefused,    \* the size budget refused the graph of an eviction
    rebuildPanics,     \* PanicsRecoveredTotal{hub_rebuild} > 0
    snapshotCh,        \* h.snapshotCh, capacity 1: {} or {the queued graph}
    req,               \* the local state of each handlePush
    ev                 \* the local state of evictSilentSpokes

hubVars == <<clock, isLeader, spokes, gauge, topology, firstLive, publishGen,
             lastPublishedGen, rebuildRefused, rebuildPanics, snapshotCh, req, ev>>

Time    == 0..MaxTime
Cycle   == 0..(MaxTime + FutureSlack + 1)
Entry   == [cycleAt : Cycle, lastSeen : Time]
Absent  == [cycleAt |-> 0, lastSeen |-> 0]
Graph   == [Spokes -> Cycle]
NoGraph == [id \in Spokes |-> 0]
NoId    == "none"

\* Where a handler is, or the status code it ended with.
Running  == {"gated", "timed", "admitted", "won"}
Replied  == {"idle", "204", "400", "409", "413", "429", "503", "aborted"}

Request == [pc : Running \cup Replied, id : Spokes \cup {NoId}, entry : Entry, gen : Nat,
            graph : Graph]
Evictor == [pc : {"idle", "gated", "deleted", "admitted", "won"}, now : Time,
            gen : Nat, graph : Graph]

Handling(pc, id, entry, gen, graph) ==
    [pc |-> pc, id |-> id, entry |-> entry, gen |-> gen, graph |-> graph]
Finished(reply) == Handling(reply, NoId, Absent, 0, NoGraph)
Evicting(pc, now, gen, graph) == [pc |-> pc, now |-> now, gen |-> gen, graph |-> graph]
NoEviction == Evicting("idle", 0, 0, NoGraph)

Registered(id) == spokes[id] # Absent

\* buildCombinedGraph, as far as which payload of which spoke it merges.
buildCombinedGraph(sp) == [id \in Spokes |-> sp[id].cycleAt]

GraphSize(g) == MapThenSumSet(LAMBDA id : Size[g[id]], Spokes)
OverBudget(g) == MaxGraph > 0 /\ GraphSize(g) > MaxGraph

\* NewHub, then RestoreGraph with whatever graph an earlier process left.
Init ==
    /\ clock = 1
    /\ isLeader = ~HA
    /\ spokes = [id \in Spokes |-> Absent]
    /\ gauge = [id \in Spokes |-> 0]
    /\ topology \in [Spokes -> {0, 1}]
    /\ firstLive = FALSE
    /\ publishGen = 0
    /\ lastPublishedGen = 0
    /\ rebuildRefused = FALSE
    /\ rebuildPanics = FALSE
    /\ snapshotCh = {}
    /\ req = [r \in Requests |-> Finished("idle")]
    /\ ev = NoEviction

-----------------------------------------------------------------------------
(* handlePush.  Receive is everything up to the decoded body, Validate the *)
(* checks on the payload and on CycleAt, Admit the first critical section, *)
(* Publish the second, Finish the snapshot hand-off and the 204.           *)

Reply(r, code) == req' = [req EXCEPT ![r] = Finished(code)]

\* The leader gate, then the body is decoded.
Receive(r, id, cycleAt) ==
    /\ req[r].pc \in Replied
    /\ publishGen < MaxGen
    /\ req' = [req EXCEPT ![r] =
                 IF isLeader
                 THEN Handling("gated", id, [cycleAt |-> cycleAt, lastSeen |-> 0], 0, NoGraph)
                 ELSE Finished("503")]
    /\ UNCHANGED <<clock, isLeader, spokes, gauge, topology, firstLive, publishGen,
                   lastPublishedGen, rebuildRefused, rebuildPanics, snapshotCh, ev>>

\* The three CycleAt checks, with now := time.Now() read before the lock.
AcceptableCycle(cycleAt, now) ==
    /\ cycleAt # 0
    /\ cycleAt <= now + FutureSlack
    /\ now <= cycleAt + SpokeTimeout

\* A payload that fails validateSpokePayload (or the size, id and certificate
\* checks around it) and one whose CycleAt is out of range are both refused.
Validate(r) ==
    /\ req[r].pc = "gated"
    /\ \/ /\ AcceptableCycle(req[r].entry.cycleAt, clock)
          /\ req' = [req EXCEPT ![r] = Handling("timed", req[r].id,
                      [cycleAt |-> req[r].entry.cycleAt, lastSeen |-> clock], 0, NoGraph)]
       \/ Reply(r, "400")
    /\ UNCHANGED <<clock, isLeader, spokes, gauge, topology, firstLive, publishGen,
                   lastPublishedGen, rebuildRefused, rebuildPanics, snapshotCh, ev>>

\* The rate limit: the registered entry is younger than MinPushInterval.
TooSoon(id, now) ==
    /\ MinPushInterval > 0
    /\ Registered(id)
    /\ now < spokes[id].lastSeen + MinPushInterval

\* h.publishGen.Add(1).
NextGen == publishGen + 1

\* Under h.mu: the rate limit, or the candidate and its generation.
Admit(r) ==
    /\ req[r].pc = "timed"
    /\ \/ /\ TooSoon(req[r].id, req[r].entry.lastSeen)
          /\ Reply(r, "429")
          /\ UNCHANGED publishGen
       \/ /\ ~TooSoon(req[r].id, req[r].entry.lastSeen)
          /\ publishGen' = NextGen
          /\ req' = [req EXCEPT ![r] = Handling("admitted", req[r].id, req[r].entry, NextGen,
                      buildCombinedGraph([spokes EXCEPT ![req[r].id] = req[r].entry]))]
    /\ UNCHANGED <<clock, isLeader, spokes, gauge, topology, firstLive,
                   lastPublishedGen, rebuildRefused, rebuildPanics, snapshotCh, ev>>

\* publishIfWinner refuses: a newer generation is out, or the size budget.
StaleNever(gen) == FALSE
Stale(gen) == gen <= lastPublishedGen
Wins(gen, graph) == ~Stale(gen) /\ ~OverBudget(graph)

Publish(r) ==
    /\ req[r].pc = "admitted"
    /\ LET id == req[r].id IN
       \/ /\ Wins(req[r].gen, req[r].graph)
          /\ lastPublishedGen' = req[r].gen
          /\ spokes' = [spokes EXCEPT ![id] = req[r].entry]
          /\ gauge' = [gauge EXCEPT ![id] = req[r].entry.lastSeen]
          /\ firstLive' = TRUE
          /\ topology' = req[r].graph
          /\ req' = [req EXCEPT ![r] =
                      Handling("won", id, req[r].entry, req[r].gen, req[r].graph)]
       \/ /\ Stale(req[r].gen)
          /\ Reply(r, "409")
          /\ UNCHANGED <<lastPublishedGen, spokes, gauge, firstLive, topology>>
       \/ /\ ~Stale(req[r].gen) /\ OverBudget(req[r].graph)
          /\ Reply(r, "413")
          /\ UNCHANGED <<lastPublishedGen, spokes, gauge, firstLive, topology>>
    /\ UNCHANGED <<clock, isLeader, publishGen, rebuildRefused, rebuildPanics, snapshotCh, ev>>

\* writeSnapshotAsync: a full queue drops the new graph.
writeSnapshotAsync(graph) ==
    snapshotCh' = IF snapshotCh = {} THEN {graph} ELSE snapshotCh

Finish(r) ==
    /\ req[r].pc = "won"
    /\ writeSnapshotAsync(req[r].graph)
    /\ Reply(r, "204")
    /\ UNCHANGED <<clock, isLeader, spokes, gauge, topology, firstLive, publishGen,
                   lastPublishedGen, rebuildRefused, rebuildPanics, ev>>

\* A panic in buildCombinedGraph is net/http's to recover: the connection is
\* aborted and nothing has been committed.
Abort(r) ==
    /\ MayPanic
    /\ req[r].pc = "admitted"
    /\ Reply(r, "aborted")
    /\ UNCHANGED <<clock, isLeader, spokes, gauge, topology, firstLive, publishGen,
                   lastPublishedGen, rebuildRefused, rebuildPanics, snapshotCh, ev>>

-----------------------------------------------------------------------------
(* evictSilentSpokes, run by the ticker of runEviction.                    *)

\* The leader gate and now := time.Now().
EvictTick ==
    /\ SpokeTimeout > 0
    /\ ev.pc = "idle"
    /\ isLeader
    /\ ev' = Evicting("gated", clock, 0, NoGraph)
    /\ UNCHANGED <<clock, isLeader, spokes, gauge, topology, firstLive, publishGen,
                   lastPublishedGen, rebuildRefused, rebuildPanics, snapshotCh, req>>

SilentAtTimeout(now) ==
    {id \in Spokes : Registered(id) /\ now >= spokes[id].lastSeen + SpokeTimeout}
Silent(now) ==
    {id \in Spokes : Registered(id) /\ now > spokes[id].lastSeen + SpokeTimeout}

\* The series of the silent spokes are deleted with their entries.
DeleteSeries(silent) == [id \in Spokes |-> IF id \in silent THEN 0 ELSE gauge[id]]

\* A rebuild follows only when something was evicted.
NeedsRebuildAlways(silent) == TRUE
NeedsRebuildNever(silent) == FALSE
NeedsRebuild(silent) == silent # {}

\* The first critical section: silent entries and their series go.
EvictDelete ==
    /\ ev.pc = "gated"
    /\ LET silent == Silent(ev.now) IN
       /\ spokes' = [id \in Spokes |-> IF id \in silent THEN Absent ELSE spokes[id]]
       /\ gauge' = DeleteSeries(silent)
       /\ ev' = IF NeedsRebuild(silent) THEN Evicting("deleted", ev.now, 0, NoGraph) ELSE NoEviction
    /\ UNCHANGED <<clock, isLeader, topology, firstLive, publishGen,
                   lastPublishedGen, rebuildRefused, rebuildPanics, snapshotCh, req>>

\* The second critical section: the survivors and a generation.
EvictAdmit ==
    /\ ev.pc = "deleted"
    /\ publishGen' = NextGen
    /\ ev' = Evicting("admitted", ev.now, NextGen, buildCombinedGraph(spokes))
    /\ UNCHANGED <<clock, isLeader, spokes, gauge, topology, firstLive,
                   lastPublishedGen, rebuildRefused, rebuildPanics, snapshotCh, req>>

EvictPublish ==
    /\ ev.pc = "admitted"
    /\ \/ /\ Wins(ev.gen, ev.graph)
          /\ lastPublishedGen' = ev.gen
          /\ topology' = ev.graph
          /\ ev' = Evicting("won", ev.now, ev.gen, ev.graph)
          /\ UNCHANGED rebuildRefused
       \/ /\ ~Wins(ev.gen, ev.graph)
          /\ rebuildRefused' = (rebuildRefused \/ ~Stale(ev.gen))
          /\ ev' = NoEviction
          /\ UNCHANGED <<lastPublishedGen, topology>>
    /\ UNCHANGED <<clock, isLeader, spokes, gauge, firstLive, publishGen,
                   rebuildPanics, snapshotCh, req>>

EvictFinish ==
    /\ ev.pc = "won"
    /\ writeSnapshotAsync(ev.graph)
    /\ ev' = NoEviction
    /\ UNCHANGED <<clock, isLeader, spokes, gauge, topology, firstLive, publishGen,
                   lastPublishedGen, rebuildRefused, rebuildPanics, req>>

\* recoverGoroutine of one tick: the entries are gone, the republish is not made.
EvictPanic ==
    /\ MayPanic
    /\ ev.pc = "admitted"
    /\ rebuildPanics' = TRUE
    /\ ev' = NoEviction
    /\ UNCHANGED <<clock, isLeader, spokes, gauge, topology, firstLive, publishGen,
                   lastPublishedGen, rebuildRefused, snapshotCh, req>>

-----------------------------------------------------------------------------
(* The environment: the clock and the elector's callbacks.                 *)

Tick ==
    /\ clock < MaxTime
    /\ clock' = clock + 1
    /\ UNCHANGED <<isLeader, spokes, gauge, topology, firstLive, publishGen,
                   lastPublishedGen, rebuildRefused, rebuildPanics, snapshotCh, req, ev>>

SetLeader(v) ==
    /\ HA
    /\ isLeader # v
    /\ isLeader' = v
    /\ UNCHANGED <<clock, spokes, gauge, topology, firstLive, publishGen,
                   lastPublishedGen, rebuildRefused, rebuildPanics, snapshotCh, req, ev>>

Push(r) ==
    \/ \E id \in Spokes, cycleAt \in 0..(clock + FutureSlack + 1) : Receive(r, id, cycleAt)
    \/ Validate(r) \/ Admit(r) \/ Publish(r) \/ Finish(r) \/ Abort(r)

Evict == EvictTick \/ EvictDelete \/ EvictAdmit \/ EvictPublish \/ EvictFinish \/ EvictPanic

HubNext ==
    \/ \E r \in Requests : Push(r)
    \/ Evict
    \/ Tick
    \/ \E v \in BOOLEAN : SetLeader(v)

HubSpec == Init /\ [][HubNext]_hubVars

\* The ticker keeps ticking, the eviction goroutine and the handlers are
\* scheduled, and time passes.  No fairness on Receive (spokes may go silent),
\* nor on the panics and the elector.
HubFairness ==
    /\ WF_hubVars(Tick)
    /\ WF_hubVars(EvictTick \/ EvictDelete \/ EvictAdmit \/ EvictPublish \/ EvictFinish)
    /\ \A r \in Requests : WF_hubVars(Validate(r) \/ Admit(r) \/ Publish(r) \/ Finish(r))

FairHubSpec == HubSpec /\ HubFairness

-----------------------------------------------------------------------------
(* Properties.                                                             *)

\* Every variable and every goroutine's local state has its Go type.
HubTypeOK ==
    /\ clock \in Time
    /\ isLeader \in BOOLEAN
    /\ spokes \in [Spokes -> Entry]
    /\ gauge \in [Spokes -> Time]
    /\ topology \in Graph
    /\ firstLive \in BOOLEAN
    /\ publishGen \in Nat
    /\ lastPublishedGen \in Nat
    /\ rebuildRefused \in BOOLEAN
    /\ rebuildPanics \in BOOLEAN
    /\ snapshotCh \in SUBSET Graph
    /\ req \in [Requests -> Request]
    /\ ev \in Evictor

\* The liveness series of a spoke exists exactly while the spoke is registered,
\* and carries the time of the registered push (publishIfWinner and
\* evictSilentSpokes change both in one critical section).
GaugeMatchesRegistry == \A id \in Spokes : gauge[id] = spokes[id].lastSeen

\* No two goroutines that hold an unpublished candidate hold the same
\* generation, and none holds one that was already published by another: the
\* equality in publishIfWinner's test never refuses a first publication.
Holding(r) == req[r].pc = "admitted"
GenerationsDistinct ==
    /\ \A r \in Requests : Holding(r) =>
          /\ req[r].gen \in 1..publishGen
          /\ req[r].gen # lastPublishedGen
          /\ ev.pc = "admitted" => ev.gen # req[r].gen
          /\ \A q \in Requests \ {r} : Holding(q) => req[q].gen # req[r].gen
    /\ ev.pc = "admitted" => ev.gen \in 1..publishGen /\ ev.gen # lastPublishedGen
    /\ lastPublishedGen <= publishGen

\* A spoke the served graph still shows although it is not registered.
Ghost(id) == topology[id] # 0 /\ ~Registered(id)

\* Once the hub is live, a graph that still holds an evicted spoke's edges is
\* about to be replaced by the eviction in progress, unless a counter has told
\* the operator: the size budget refused an eviction's graph, or building it
\* panicked.
NoSilentGhost ==
    firstLive =>
      \A id \in Spokes : Ghost(id) =>
        \/ ev.pc = "deleted"
        \/ ev.pc = "admitted" /\ ev.gen > lastPublishedGen
        \/ rebuildRefused \/ rebuildPanics

\* The restored graph is served unchanged, with GraphStale = 1, until the first
\* accepted push; no eviction publishes before it.
RestoredUntilLive == [][~firstLive' => UNCHANGED <<topology, lastPublishedGen>>]_hubVars

\* A spoke leaves the registry only when its last accepted push is older than
\* SpokeTimeout: a push that lands between the tick and the lock saves it.
EvictsOnlySilent ==
    [][\A id \in Spokes : Registered(id) /\ ~Registered(id)' =>
          clock > spokes[id].lastSeen + SpokeTimeout]_hubVars

\* The served graph never goes back to a candidate of an older generation, and
\* a refused or late publication leaves it alone.
PublishedOnlyForward ==
    [][topology' # topology => lastPublishedGen' > lastPublishedGen]_hubVars

\* A spoke that stays silent past SpokeTimeout is evicted, or pushes again, or
\* the hub loses its leadership; and the edges of an evicted spoke leave the served
\* graph (or it comes back), if no eviction's graph was refused or panicked:
\* runEviction does not try those again.
SilentSpokesLeave ==
    \A id \in Spokes :
      /\ (Registered(id) /\ clock > spokes[id].lastSeen + SpokeTimeout)
           ~> (~Registered(id) \/ clock <= spokes[id].lastSeen + SpokeTimeout \/ ~isLeader)
      /\ (firstLive /\ Ghost(id)) ~> (~Ghost(id) \/ rebuildRefused \/ rebuildPanics)

\* Why NoSilentGhost is inductive.  A handler whose candidate still holds a
\* spoke that has since been evicted is fenced off: the eviction will take, or
\* took, a higher generation.
StaleCandidatesFenced ==
    \A r \in Requests : Holding(r) =>
      \A id \in Spokes \ {req[r].id} : req[r].graph[id] # 0 /\ ~Registered(id) =>
        \/ req[r].gen <= lastPublishedGen
        \/ ev.pc = "deleted"
        \/ ev.pc = "admitted" /\ ev.gen > req[r].gen
        \/ rebuildRefused \/ rebuildPanics

\* What a handler at a point of the code has established.
SaneHandler(q) ==
    /\ q.pc \in Running => q.id \in Spokes
    /\ q.pc \in {"timed", "admitted", "won"} => q.entry.cycleAt # 0
    /\ q.pc \in {"admitted", "won"} => q.graph[q.id] = q.entry.cycleAt
HandlersSane == \A r \in Requests : SaneHandler(req[r])

RegistryMeansLive   == (\E id \in Spokes : Registered(id)) \/ ev.pc \in {"deleted", "admitted"}
                          => firstLive
SurvivorsRegistered == ev.pc = "admitted" =>
                          \A id \in Spokes : ev.graph[id] # 0 => Registered(id)

\* The inductive invariant.
HubInv ==
    /\ HubTypeOK
    /\ GaugeMatchesRegistry
    /\ GenerationsDistinct
    /\ HandlersSane
    /\ ev.now <= clock
    /\ RegistryMeansLive
    /\ SurvivorsRegistered
    /\ StaleCandidatesFenced
    /\ NoSilentGhost

\* What a document says, refuted by a run marked as a violation.

\* No handler or eviction is between its two critical sections.
AtRest == ev.pc \in {"idle", "gated"} /\ \A r \in Requests : req[r].pc \notin {"admitted"}

\* docs/operator/federation.md:134: a 204 means the spoke's graph is part of
\* active hub state and was published.  At rest, the served graph then holds
\* the registered payload of every registered spoke.
AcceptedIsServed ==
    AtRest => \A id \in Spokes : Registered(id) => topology[id] = spokes[id].cycleAt
=============================================================================
