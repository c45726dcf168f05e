--------------------------- MODULE DiscoveryLoop ---------------------------
(***************************************************************************)
(* The discovery scheduler of internal/app/loop.go: the cycle and its      *)
(* publish, the snapshot writer behind it, the graph-stale watchdog beside *)
(* it, and the admin rediscover requests that share CycleMu with it.       *)
(*                                                                         *)
(* A graph is its set of edges.  RunCycle returns any graph; what it does  *)
(* inside is not modelled here.  Time is the age of the last completed     *)
(* cycle, in watchdog intervals, saturating past the threshold.            *)
(***************************************************************************)
EXTENDS Naturals, FiniteSets

CONSTANTS Edges,       \* edges a cycle may find
          Admins,      \* concurrent POST /admin/rediscover
          MaxTargets,  \* bound on the targets of one request
          MaxEdges,    \* discovery.max_graph_edges, 0 = no budget
          MaxStale,    \* liveness_max_stale_cycles
          CyclePanics, WritePanics  \* where a panic may strike

ASSUME LoopAssumption ==
    /\ MaxTargets \in Nat \ {0} /\ MaxEdges \in Nat /\ MaxStale \in Nat \ {0}
    /\ CyclePanics \in BOOLEAN /\ WritePanics \in BOOLEAN
    /\ Admins \cap {"free", "loop"} = {}

VARIABLES
    loopCtxDone,     \* the process context is cancelled
    cycleMu,     \* who locked CycleMu
    loop,        \* the scheduler: where it is, and the graph of its cycle
    prevGraph,   \* st.prevGraph
    served,    \* the graph /metrics serves
    graphStale,  \* the graph_stale gauge
    age,         \* age of Status.LastCycleAt, Never while Status is nil
    rejects,     \* GraphUpdatesRejectedTotal > 0
    panics,      \* PanicsRecoveredTotal{discovery_loop} > 0
    struck,      \* history: a panic has struck a walk, under CycleMu
    seen,        \* the graph a reader of the change events has put together
    loopSnapshotCh,  \* capacity 1: {} or {graph}
    writer,      \* pc of the snapshot writer
    write,       \* writeDone: nil, or the state of the goroutine behind it
    disk,        \* the graph in the snapshot file
    drops,       \* SnapshotDropsTotal > 0
    writeFailures,    \* some write returned an error
    watchdog,    \* pc of RunStaleWatchdog
    admin        \* per request: where it is, and the targets left

cycleVars  == <<cycleMu, loop, prevGraph, served, graphStale, age, rejects, panics, struck,
                seen>>
writerVars == <<writer, write, disk, writeFailures>>
loopVars == <<loopCtxDone, cycleVars, loopSnapshotCh, drops, writerVars, watchdog, admin>>

LoopGraphs  == SUBSET Edges
Free   == "free"
Loop   == "loop"
Never  == MaxStale + 2
NoCall == [pc |-> "idle", left |-> 0]
Nil    == [state |-> "nil", graph |-> {}]

\* The snapshot is loaded, or there is none; the first cycle starts at once.
LoopInit ==
    /\ loopCtxDone = FALSE
    /\ cycleMu = Free
    /\ loop = [pc |-> "lock", graph |-> {}]
    /\ disk \in LoopGraphs
    /\ prevGraph = disk /\ served = disk /\ seen = disk
    /\ graphStale = TRUE
    /\ age = Never
    /\ rejects = FALSE /\ panics = FALSE /\ struck = FALSE
    /\ loopSnapshotCh = {} /\ drops = FALSE /\ writeFailures = FALSE
    /\ writer = "recv" /\ write = Nil
    /\ watchdog = "idle"
    /\ admin = [a \in Admins |-> NoCall]

-----------------------------------------------------------------------------
(* One cycle.                                                              *)

LoopAt(pc)    == loop' = [loop EXCEPT !.pc = pc]
CycleOver == loop' = [pc |-> "select", graph |-> {}]

CycleTick ==
    /\ loop.pc = "select" /\ ~loopCtxDone
    /\ LoopAt("lock")
    /\ UNCHANGED <<loopCtxDone, cycleMu, prevGraph, served, graphStale, age, rejects, panics,
                   struck, seen, loopSnapshotCh, drops, writerVars, watchdog, admin>>

Lock ==
    /\ loop.pc = "lock" /\ cycleMu = Free
    /\ cycleMu' = Loop
    /\ LoopAt("walk")
    /\ UNCHANGED <<loopCtxDone, prevGraph, served, graphStale, age, rejects, panics,
                   struck, seen, loopSnapshotCh, drops, writerVars, watchdog, admin>>

\* The early return on a cancelled context leaves the mutex locked.
WalkedKeepsLock ==
    /\ loop.pc = "walk"
    /\ \/ /\ loopCtxDone
          /\ CycleOver
          /\ UNCHANGED <<cycleMu, age>>
       \/ /\ ~loopCtxDone
          /\ \E g \in LoopGraphs : loop' = [pc |-> "publish", graph |-> g]
          /\ cycleMu' = Free /\ age' = 0
    /\ UNCHANGED <<loopCtxDone, prevGraph, served, graphStale, rejects, panics,
                   struck, seen, loopSnapshotCh, drops, writerVars, watchdog, admin>>

\* RunCycle returned: unlock; unless the context ended, the status is stored.
Walked ==
    /\ loop.pc = "walk"
    /\ cycleMu' = Free
    /\ \/ /\ loopCtxDone
          /\ CycleOver
          /\ UNCHANGED age
       \/ /\ ~loopCtxDone
          /\ \E g \in LoopGraphs : loop' = [pc |-> "publish", graph |-> g]
          /\ age' = 0
    /\ UNCHANGED <<loopCtxDone, prevGraph, served, graphStale, rejects, panics,
                   struck, seen, loopSnapshotCh, drops, writerVars, watchdog, admin>>

\* The per-cycle recover: the loop goes on, and what the cycle held stays held.
CyclePanic ==
    /\ CyclePanics
    /\ loop.pc \in {"walk", "publish", "update", "enqueue"}
    /\ panics' = TRUE
    /\ struck' = (struck \/ loop.pc = "walk")
    /\ CycleOver
    /\ UNCHANGED <<loopCtxDone, cycleMu, prevGraph, served, graphStale, age, rejects,
                   seen, loopSnapshotCh, drops, writerVars, watchdog, admin>>

OverEdgeBudget(g) == MaxEdges > 0 /\ Cardinality(g) > MaxEdges

\* publish, as far as the change events: Diff against the old prevGraph.
DiffAfterAssignment(g) == [added |-> {}, removed |-> {}]
Diff(g) == [added |-> g \ prevGraph, removed |-> prevGraph \ g]

\* The size budget refuses the graph and keeps the published one, or the changes
\* are emitted.
Emit ==
    /\ loop.pc = "publish"
    /\ \/ /\ OverEdgeBudget(loop.graph)
          /\ rejects' = TRUE
          /\ CycleOver
          /\ UNCHANGED seen
       \/ /\ ~OverEdgeBudget(loop.graph)
          /\ seen' = (seen \ Diff(loop.graph).removed) \cup Diff(loop.graph).added
          /\ LoopAt("update")
          /\ UNCHANGED rejects
    /\ UNCHANGED <<loopCtxDone, cycleMu, prevGraph, served, graphStale, age, panics, struck,
                   loopSnapshotCh, drops, writerVars, watchdog, admin>>

\* GraphStale.Set(0), Topology.Update, then the snapshot is offered to the writer;
\* publish returns the advanced state.
Update ==
    /\ loop.pc = "update"
    /\ graphStale' = FALSE
    /\ served' = loop.graph
    /\ LoopAt("enqueue")
    /\ UNCHANGED <<loopCtxDone, cycleMu, prevGraph, age, rejects, panics, struck,
                   seen, loopSnapshotCh, drops, writerVars, watchdog, admin>>

\* A full queue drops the graph and counts nothing.
EnqueueSilent ==
    /\ loop.pc = "enqueue"
    /\ prevGraph' = loop.graph
    /\ loopSnapshotCh' = IF loopSnapshotCh = {} THEN {loop.graph} ELSE loopSnapshotCh
    /\ CycleOver
    /\ UNCHANGED <<loopCtxDone, cycleMu, served, graphStale, age, rejects, panics, struck, seen,
                   drops, writerVars, watchdog, admin>>

EnqueueSnapshot ==
    /\ loop.pc = "enqueue"
    /\ prevGraph' = loop.graph
    /\ loopSnapshotCh' = IF loopSnapshotCh = {} THEN {loop.graph} ELSE loopSnapshotCh
    /\ drops' = (drops \/ loopSnapshotCh # {})
    /\ CycleOver
    /\ UNCHANGED <<loopCtxDone, cycleMu, served, graphStale, age, rejects, panics, struck, seen,
                   writerVars, watchdog, admin>>

\* The context is cancelled: close(snapshotCh), wait for the writer, return.
Close ==
    /\ loop.pc = "select" /\ loopCtxDone
    /\ LoopAt("closed")
    /\ UNCHANGED <<loopCtxDone, cycleMu, prevGraph, served, graphStale, age, rejects, panics,
                   struck, seen, loopSnapshotCh, drops, writerVars, watchdog, admin>>

Return ==
    /\ loop.pc = "closed" /\ writer = "done"
    /\ LoopAt("returned")
    /\ UNCHANGED <<loopCtxDone, cycleMu, prevGraph, served, graphStale, age, rejects, panics,
                   struck, seen, loopSnapshotCh, drops, writerVars, watchdog, admin>>

-----------------------------------------------------------------------------
(* The snapshot writer and the goroutine of one write.                     *)

\* writeDone is nil or holds a result: a new write may start.
MayWrite == write.state \in {"nil", "ready"}

WriterReceive ==
    /\ writer = "recv" /\ loopSnapshotCh # {}
    /\ loopSnapshotCh' = {}
    /\ \/ /\ MayWrite
          /\ write' = [state |-> "running", graph |-> CHOOSE g \in loopSnapshotCh : TRUE]
          /\ writer' = "wait"
          /\ UNCHANGED drops
       \/ /\ ~MayWrite
          /\ drops' = TRUE
          /\ UNCHANGED <<write, writer>>
    /\ UNCHANGED <<loopCtxDone, cycleVars, disk, writeFailures, watchdog, admin>>

\* The writer waits for the result, however long it takes.
WriterWaitsForEver ==
    /\ writer = "wait" /\ write.state = "ready"
    /\ writer' = "recv" /\ write' = Nil
    /\ UNCHANGED <<loopCtxDone, cycleVars, loopSnapshotCh, drops, disk, writeFailures, watchdog, admin>>

\* The result arrives, or the timeout fires and writeDone stays as it is.
WriterWaited ==
    /\ writer = "wait"
    /\ writer' = "recv"
    /\ \/ write.state = "ready" /\ write' = Nil
       \/ UNCHANGED write
    /\ UNCHANGED <<loopCtxDone, cycleVars, loopSnapshotCh, drops, disk, writeFailures, watchdog, admin>>

WriterExit ==
    /\ writer = "recv" /\ loopSnapshotCh = {} /\ loop.pc = "closed"
    /\ writer' = "done"
    /\ UNCHANGED <<loopCtxDone, cycleVars, loopSnapshotCh, drops, write, disk, writeFailures, watchdog, admin>>

\* snapshot.Write renames the new file over the old one, or fails.
WriteEnds ==
    /\ write.state = "running"
    /\ write' = [write EXCEPT !.state = "ready"]
    /\ \/ disk' = write.graph /\ UNCHANGED writeFailures
       \/ writeFailures' = TRUE /\ UNCHANGED disk
    /\ UNCHANGED <<loopCtxDone, cycleVars, loopSnapshotCh, drops, writer, watchdog, admin>>

\* recoverGoroutine of the write: nothing is sent on done.
WritePanic ==
    /\ WritePanics
    /\ write.state = "running"
    /\ write' = [write EXCEPT !.state = "lost"]
    /\ writeFailures' = TRUE
    /\ UNCHANGED <<loopCtxDone, cycleVars, loopSnapshotCh, drops, writer, disk, watchdog, admin>>

-----------------------------------------------------------------------------
(* The watchdog: it loads the status, and sets the gauge if that was stale. *)

IsStale == age # Never /\ age > MaxStale

\* The watchdog takes CycleMu to read the status.
WatchdogTickLocking ==
    /\ watchdog = "idle" /\ ~loopCtxDone
    /\ cycleMu = Free
    /\ IsStale
    /\ watchdog' = "set"
    /\ UNCHANGED <<loopCtxDone, cycleVars, loopSnapshotCh, drops, writerVars, admin>>

WatchdogTick ==
    /\ watchdog = "idle" /\ ~loopCtxDone
    /\ IsStale
    /\ watchdog' = "set"
    /\ UNCHANGED <<loopCtxDone, cycleVars, loopSnapshotCh, drops, writerVars, admin>>

WatchdogSet ==
    /\ watchdog = "set"
    /\ graphStale' = TRUE
    /\ watchdog' = "idle"
    /\ UNCHANGED <<loopCtxDone, cycleMu, loop, prevGraph, served, age, rejects, panics, struck,
                   seen, loopSnapshotCh, drops, writerVars, admin>>

\* An interval passes.
Age ==
    /\ age <= MaxStale
    /\ age' = age + 1
    /\ UNCHANGED <<loopCtxDone, cycleMu, loop, prevGraph, served, graphStale, rejects, panics,
                   struck, seen, loopSnapshotCh, drops, writerVars, watchdog, admin>>

-----------------------------------------------------------------------------
(* POST /admin/rediscover: CycleMu is taken once per target.               *)

AdminAt(a, pc, left) == admin' = [admin EXCEPT ![a] = [pc |-> pc, left |-> left]]

AdminCall(a) ==
    /\ admin[a].pc = "idle" /\ ~loopCtxDone
    /\ \E n \in 1..MaxTargets : AdminAt(a, "next", n)
    /\ UNCHANGED <<loopCtxDone, cycleVars, loopSnapshotCh, drops, writerVars, watchdog>>

AdminLock(a) ==
    /\ admin[a].pc = "next" /\ admin[a].left > 0
    /\ cycleMu = Free
    /\ cycleMu' = a
    /\ AdminAt(a, "walk", admin[a].left)
    /\ UNCHANGED <<loopCtxDone, loop, prevGraph, served, graphStale, age, rejects, panics, struck,
                   seen, loopSnapshotCh, drops, writerVars, watchdog>>

\* The batch deadline or the client's context ended: the target is not walked.
AdminSkip(a) ==
    /\ admin[a].pc = "next" /\ admin[a].left > 0
    /\ AdminAt(a, "next", admin[a].left - 1)
    /\ UNCHANGED <<loopCtxDone, cycleVars, loopSnapshotCh, drops, writerVars, watchdog>>

\* A walk that fails returns with the mutex locked.
AdminUnlockMissing(a) ==
    /\ admin[a].pc = "walk"
    /\ AdminAt(a, "next", admin[a].left - 1)
    /\ UNCHANGED <<loopCtxDone, cycleVars, loopSnapshotCh, drops, writerVars, watchdog>>

AdminUnlock(a) ==
    /\ admin[a].pc = "walk"
    /\ cycleMu' = Free
    /\ AdminAt(a, "next", admin[a].left - 1)
    /\ UNCHANGED <<loopCtxDone, loop, prevGraph, served, graphStale, age, rejects, panics, struck,
                   seen, loopSnapshotCh, drops, writerVars, watchdog>>

AdminReply(a) ==
    /\ admin[a].pc = "next" /\ admin[a].left = 0
    /\ AdminAt(a, "idle", 0)
    /\ UNCHANGED <<loopCtxDone, cycleVars, loopSnapshotCh, drops, writerVars, watchdog>>

\* net/http recovers the handler; the mutex stays locked.
AdminPanic(a) ==
    /\ CyclePanics
    /\ admin[a].pc = "walk"
    /\ struck' = TRUE
    /\ AdminAt(a, "idle", 0)
    /\ UNCHANGED <<loopCtxDone, cycleMu, loop, prevGraph, served, graphStale, age, rejects, panics,
                   seen, loopSnapshotCh, drops, writerVars, watchdog>>

LoopCancel ==
    /\ ~loopCtxDone
    /\ loopCtxDone' = TRUE
    /\ UNCHANGED <<cycleVars, loopSnapshotCh, drops, writerVars, watchdog, admin>>

CycleSteps    == CycleTick \/ Walked \/ Emit \/ Update \/ EnqueueSnapshot \/ Close \/ Return
Writer   == WriterReceive \/ WriterWaited \/ WriterExit
Watchdog == WatchdogTick \/ WatchdogSet
AnswerRequest(a) == AdminSkip(a) \/ AdminUnlock(a) \/ AdminReply(a)

\* Everything has returned.
LoopTerminated ==
    /\ loop.pc = "returned" /\ watchdog = "idle" /\ \A a \in Admins : admin[a].pc = "idle"
    /\ UNCHANGED loopVars

LoopNext ==
    \/ CycleSteps \/ Lock \/ CyclePanic \/ Writer \/ WriteEnds \/ WritePanic
    \/ Watchdog \/ Age \/ LoopCancel \/ LoopTerminated
    \/ \E a \in Admins : AdminCall(a) \/ AdminLock(a) \/ AnswerRequest(a) \/ AdminPanic(a)

LoopSpec == LoopInit /\ [][LoopNext]_loopVars

\* Goroutines are scheduled, walks end at their deadlines, time passes, and a
\* sync.Mutex does not starve a waiter.  A write may hang for ever.
LoopFairness ==
    /\ WF_loopVars(CycleSteps) /\ SF_loopVars(Lock)
    /\ WF_loopVars(Writer) /\ WF_loopVars(Watchdog) /\ WF_loopVars(Age)
    /\ \A a \in Admins : WF_loopVars(AdminUnlock(a) \/ AdminReply(a)) /\ SF_loopVars(AdminLock(a))

FairLoopSpec == LoopSpec /\ LoopFairness

-----------------------------------------------------------------------------
(* Properties.                                                             *)

\* Whoever rebuilds the topology from the change events has the served graph
\* whenever no publish is under way: no change is lost or taken against the wrong
\* graph, over rejected cycles too, as long as no cycle panicked.
EventsFollowTopology ==
    loop.pc \notin {"update", "enqueue"} /\ ~panics => seen = served /\ prevGraph = served

\* Once nothing is queued or being written, and nothing was dropped or failed and no
\* cycle panicked, a restart would load the served graph, at every moment but the one
\* between Topology.Update and the offer to the writer (one producer, one writer at a
\* time: the order is kept even over write timeouts).
DiskFollowsTopology ==
    /\ loop.pc # "enqueue"
    /\ loopSnapshotCh = {} /\ write.state # "running"
    /\ ~drops /\ ~writeFailures /\ ~panics
    => disk = served

\* CycleMu keeps the walks apart: the cycle's and those of all rediscover requests run
\* one at a time, and the mutex is locked by a walk under way, unless a panic struck one.
WalksExclude ==
    /\ loop.pc = "walk" => cycleMu = Loop
    /\ \A a \in Admins : admin[a].pc = "walk" => cycleMu = a
    /\ ~struck => \/ cycleMu = Free
                  \/ cycleMu = Loop /\ loop.pc = "walk"
                  \/ cycleMu \in Admins /\ admin[cycleMu].pc = "walk"

\* A loop that can never run another cycle after a first completed one is
\* reported: /healthz fails, and the watchdog raises graph_stale.
WedgeIsReported ==
    (struck /\ loop.pc = "lock" /\ age # Never /\ ~loopCtxDone)
      ~> (loopCtxDone \/ (graphStale /\ IsStale))

\* Cycles go on, over rejected graphs, stuck writes, admin requests and panics in
\* publish; only a panic in a walk, which leaves CycleMu locked, ends them.
CyclesContinue == []<>(loopCtxDone \/ loop.pc = "walk" \/ struck)

\* A rediscover request is answered, however the cycles contend for CycleMu.
RequestsAnswered ==
    \A a \in Admins : (admin[a].pc = "next") ~> (admin[a].pc = "idle" \/ struck)

\* The loop returns after a cancelled context, even with a write that never ends.
LoopReturns == loopCtxDone ~> (loop.pc = "returned" \/ struck)

\* loop.go:442-447: after a panic in a cycle the next tick runs a fresh cycle.
CyclesGoOn == []<>(loopCtxDone \/ loop.pc = "walk")

\* A panic under CycleMu is the end of all walks: the mutex has no owner left to unlock
\* it, so the loop and every rediscover request wait for it, or are not walking.
StruckIsFinal ==
    struck => cycleMu # Free /\ loop.pc # "walk" /\ \A a \in Admins : admin[a].pc # "walk"
=============================================================================
