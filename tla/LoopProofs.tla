----------------------------- MODULE LoopProofs -----------------------------
(***************************************************************************)
(* The discovery loop and its outputs, for any edges, requests, budget and *)
(* staleness: events and snapshots follow the served graph, CycleMu keeps  *)
(* the walks apart, the mailbox of the pusher keeps the newest payload,    *)
(* the OTLP publisher counts every push, and warnings are limited.         *)
(***************************************************************************)
EXTENDS DiscoveryLoop, SpokePusher, OtlpPublisher, LogLimiter, FiniteSetTheorems, TLAPS

\* A leaf that names no prover is for Zenon; SMT has those with numbers or sequences.
USE ZenonT(60)

-----------------------------------------------------------------------------
(* DiscoveryLoop                                                           *)

\* The types of the loop, its writer and the requests.
LoopTypeOK ==
    /\ loop \in [pc : {"select", "lock", "walk", "publish", "update", "enqueue", "closed", "returned"},
                 graph : LoopGraphs]
    /\ prevGraph \in LoopGraphs /\ served \in LoopGraphs /\ seen \in LoopGraphs /\ disk \in LoopGraphs
    /\ write \in [state : {"nil", "running", "ready", "lost"}, graph : LoopGraphs]
    /\ loopSnapshotCh \in SUBSET LoopGraphs
    /\ admin \in [Admins -> [pc : {"idle", "next", "walk"}, left : 0..MaxTargets]]
    /\ \A a \in Admins : admin[a].pc = "walk" => admin[a].left > 0
    /\ cycleMu \in {Free, Loop} \cup Admins
    /\ panics \in BOOLEAN /\ struck \in BOOLEAN /\ drops \in BOOLEAN /\ writeFailures \in BOOLEAN

\* What publish has done so far to the graph that is served, to the one the next Diff is
\* taken against, and to the reader of the events.
PublishInOrder ==
    ~panics => /\ loop.pc \notin {"update", "enqueue"} => seen = prevGraph /\ served = prevGraph
               /\ loop.pc = "update" => seen = loop.graph /\ served = prevGraph
               /\ loop.pc = "enqueue" => seen = loop.graph /\ served = loop.graph

\* The last graph offered to the writer is queued, or else being written, or else on disk.
SnapshotInOrder ==
    ~drops /\ ~writeFailures =>
      /\ loopSnapshotCh # {} => loopSnapshotCh = {prevGraph}
      /\ loopSnapshotCh = {} /\ write.state = "running" => write.graph = prevGraph
      /\ loopSnapshotCh = {} /\ write.state # "running" => disk = prevGraph

LoopInv == LoopTypeOK /\ PublishInOrder /\ SnapshotInOrder /\ WalksExclude

\* A start with or without a snapshot satisfies the invariant.
LEMMA LoopStart == LoopInit => LoopInv
<1> SUFFICES ASSUME LoopInit PROVE LoopInv
  OBVIOUS
<1>1. LoopTypeOK
  <2>1. panics \in BOOLEAN /\ struck \in BOOLEAN /\ drops \in BOOLEAN /\ writeFailures \in BOOLEAN
    BY DEF LoopInit
  <2>2. admin \in [Admins -> [pc : {"idle", "next", "walk"}, left : 0..MaxTargets]]
    BY LoopAssumption, SMT DEF LoopInit, NoCall
  <2>3. \A a \in Admins : admin[a].pc # "walk"
    BY DEF LoopInit, NoCall
  <2> QED
    BY <2>1, <2>2, <2>3 DEF LoopInit, LoopTypeOK, LoopGraphs, Nil
<1>2. PublishInOrder /\ SnapshotInOrder
  BY DEF LoopInit, PublishInOrder, SnapshotInOrder, Nil
<1>3. WalksExclude
  BY DEF LoopInit, WalksExclude, NoCall
<1> QED
  BY <1>1, <1>2, <1>3 DEF LoopInv

\* Every step keeps the types.
LEMMA LoopTypeStep == LoopTypeOK /\ [LoopNext]_loopVars => LoopTypeOK'
<1> SUFFICES ASSUME LoopTypeOK, [LoopNext]_loopVars PROVE LoopTypeOK'
  OBVIOUS
<1> USE LoopAssumption DEF LoopTypeOK
<1>1. CASE CycleTick \/ Lock \/ Close \/ Return
  <2>1. CASE CycleTick
    BY <2>1, SMTT(30) DEF CycleTick, LoopAt, writerVars
  <2>2. CASE Lock
    BY <2>2, SMTT(30) DEF Lock, LoopAt, writerVars
  <2>3. CASE Close
    BY <2>3, SMTT(30) DEF Close, LoopAt, writerVars
  <2>4. CASE Return
    BY <2>4, SMTT(30) DEF Return, LoopAt, writerVars
  <2> QED
    BY <1>1, <2>1, <2>2, <2>3, <2>4
<1>2. CASE Walked
  BY <1>2, SMT DEF Walked, CycleOver, LoopGraphs, writerVars
<1>3. CASE CyclePanic
  BY <1>3 DEF CyclePanic, CycleOver, LoopGraphs, writerVars
<1>4. CASE Emit
  <2>1. seen' \in LoopGraphs
    BY <1>4 DEF Emit, Diff, LoopGraphs
  <2> QED
    BY <1>4, <2>1, SMT DEF Emit, LoopAt, CycleOver, LoopGraphs, writerVars
<1>5. CASE Update
  BY <1>5 DEF Update, LoopAt, writerVars
<1>6. CASE EnqueueSnapshot
  <2>1. drops' \in BOOLEAN
    BY <1>6 DEF EnqueueSnapshot
  <2> QED
    BY <1>6, <2>1 DEF EnqueueSnapshot, CycleOver, LoopGraphs, writerVars
<1>7. CASE WriterReceive
  <2>1. loopSnapshotCh # {} => (CHOOSE g \in loopSnapshotCh : TRUE) \in LoopGraphs
    OBVIOUS
  <2> QED
    <3>1. CASE MayWrite
      <4> DEFINE g == CHOOSE g \in loopSnapshotCh : TRUE
      <4>1. write' = [state |-> "running", graph |-> g] /\ UNCHANGED drops
        BY <1>7, <3>1 DEF WriterReceive
      <4> HIDE DEF g
      <4> QED
        BY <1>7, <2>1, <4>1 DEF WriterReceive, cycleVars, g
    <3>2. CASE ~MayWrite
      BY <1>7, <3>2 DEF WriterReceive, cycleVars
    <3> QED
      BY <3>1, <3>2
<1>8. CASE WriterWaited \/ WriterExit
  BY <1>8, SMT DEF WriterWaited, WriterExit, Nil, LoopGraphs, cycleVars
<1>9. CASE WriteEnds \/ WritePanic
  BY <1>9 DEF WriteEnds, WritePanic, cycleVars
<1>10. CASE Watchdog \/ Age \/ LoopCancel
  BY <1>10 DEF Watchdog, WatchdogTick, WatchdogSet, Age, LoopCancel, cycleVars, writerVars
<1>11. ASSUME NEW a \in Admins, AdminCall(a) \/ AdminLock(a) \/ AnswerRequest(a) \/ AdminPanic(a)
       PROVE  LoopTypeOK'
  <2>1. /\ admin' \in [Admins -> [pc : {"idle", "next", "walk"}, left : 0..MaxTargets]]
        /\ \A b \in Admins : admin'[b].pc = "walk" => admin'[b].left > 0
    <3>1. ASSUME NEW pc \in {"idle", "next", "walk"}, NEW left \in 0..MaxTargets, AdminAt(a, pc, left),
                 pc = "walk" => left > 0
          PROVE  /\ admin' \in [Admins -> [pc : {"idle", "next", "walk"}, left : 0..MaxTargets]]
                 /\ \A b \in Admins : admin'[b].pc = "walk" => admin'[b].left > 0
      BY <3>1 DEF AdminAt
    <3>2. CASE AdminCall(a) \/ AdminReply(a) \/ AdminPanic(a)
      BY <3>1, <3>2, SMTT(30) DEF AdminCall, AdminReply, AdminPanic
    <3>3. admin[a].left \in 0..MaxTargets
      OBVIOUS
    <3>4. CASE AdminLock(a)
      BY <3>1, <3>3, <3>4 DEF AdminLock
    <3>5. CASE AdminSkip(a)
      BY <3>1, <3>3, <3>5, SMTT(20) DEF AdminSkip
    <3>6. CASE AdminUnlock(a)
      BY <3>1, <3>3, <3>6, SMTT(30) DEF AdminUnlock
    <3> QED
      BY <1>11, <3>2, <3>4, <3>5, <3>6 DEF AnswerRequest
  <2>2. cycleMu' \in {Free, Loop} \cup Admins
    BY <1>11 DEF AdminCall, AdminLock, AnswerRequest, AdminSkip, AdminUnlock, AdminReply, AdminPanic, cycleVars
  <2>3. UNCHANGED <<loop, prevGraph, served, seen, loopSnapshotCh, panics, drops, writerVars>> /\ struck' \in BOOLEAN
    BY <1>11 DEF AdminCall, AdminLock, AnswerRequest, AdminSkip, AdminUnlock, AdminReply, AdminPanic, cycleVars
  <2> QED
    BY <2>1, <2>2, <2>3 DEF writerVars
<1>12. CASE UNCHANGED loopVars
  BY <1>12, SMTT(30) DEF loopVars, cycleVars, writerVars
<1> QED
  BY <1>1, <1>2, <1>3, <1>4, <1>5, <1>6, <1>7, <1>8, <1>9, <1>10, <1>11, <1>12
  DEF LoopNext, CycleSteps, Writer, LoopTerminated

\* Every step keeps publish in order: Diff is taken against the graph that the reader
\* of the events has.
LEMMA PublishStep == LoopTypeOK /\ PublishInOrder /\ [LoopNext]_loopVars => PublishInOrder'
<1> SUFFICES ASSUME LoopTypeOK, PublishInOrder, [LoopNext]_loopVars PROVE PublishInOrder'
  OBVIOUS
<1> USE DEF LoopTypeOK, PublishInOrder
<1>1. CASE CycleTick \/ Lock \/ Walked \/ Close \/ Return
  <2>1. UNCHANGED <<panics, prevGraph, served, seen>>
    BY <1>1 DEF CycleTick, Lock, Walked, Close, Return
  <2>2. {loop.pc, loop'.pc} \cap {"update", "enqueue"} = {}
    <3>1. CASE CycleTick
      BY <3>1, SMTT(30) DEF CycleTick, LoopAt
    <3>2. CASE Lock
      BY <3>2, SMTT(30) DEF Lock, LoopAt
    <3>3. CASE Walked
      BY <3>3, SMTT(30) DEF Walked, CycleOver
    <3>4. CASE Close
      BY <3>4, SMTT(30) DEF Close, LoopAt
    <3>5. CASE Return
      BY <3>5, SMT DEF Return, LoopAt
    <3> QED
      BY <1>1, <3>1, <3>2, <3>3, <3>4, <3>5
  <2> QED
    BY <2>1, <2>2
<1>2. CASE CyclePanic
  BY <1>2 DEF CyclePanic
<1>3. CASE Emit
  <2>1. UNCHANGED <<panics, prevGraph, served>> /\ loop.pc = "publish"
    BY <1>3 DEF Emit
  <2>2. CASE OverEdgeBudget(loop.graph)
    BY <1>3, <2>1, <2>2, SMTT(30) DEF Emit, CycleOver
  <2>3. CASE ~OverEdgeBudget(loop.graph)
    <3>1. loop' = [loop EXCEPT !.pc = "update"]
      BY <1>3, <2>3 DEF Emit, LoopAt
    <3>2. loop'.pc = "update" /\ loop'.graph = loop.graph
      BY <3>1
    <3>3. seen' = (seen \ (prevGraph \ loop.graph)) \cup (loop.graph \ prevGraph)
      BY <1>3, <2>3 DEF Emit, Diff
    <3>4. seen = prevGraph => seen' = loop.graph
      BY <3>3
    <3> QED
      BY <2>1, <3>2, <3>4
  <2> QED
    BY <2>2, <2>3
<1>4. CASE Update
  BY <1>4 DEF Update, LoopAt
<1>5. CASE EnqueueSnapshot
  BY <1>5 DEF EnqueueSnapshot, CycleOver
<1>6. ASSUME UNCHANGED <<panics, loop, prevGraph, served, seen>> PROVE PublishInOrder'
  BY <1>6
<1> QED
  BY <1>1, <1>2, <1>3, <1>4, <1>5, <1>6
  DEF LoopNext, CycleSteps, Writer, WriterReceive, WriterWaited, WriterExit, WriteEnds, WritePanic, Watchdog,
      WatchdogTick, WatchdogSet, Age, LoopCancel, LoopTerminated, AdminCall, AdminLock, AnswerRequest,
      AdminSkip, AdminUnlock, AdminReply, AdminPanic, loopVars, cycleVars

\* Every step keeps the last graph on its way to the disk: one graph is queued, and one
\* write runs, at a time.
LEMMA SnapshotStep == LoopTypeOK /\ SnapshotInOrder /\ [LoopNext]_loopVars => SnapshotInOrder'
<1> SUFFICES ASSUME LoopTypeOK, SnapshotInOrder, [LoopNext]_loopVars PROVE SnapshotInOrder'
  OBVIOUS
<1> USE DEF LoopTypeOK, SnapshotInOrder
<1>1. CASE EnqueueSnapshot
  <2>1. ~drops' => ~drops /\ loopSnapshotCh = {}
    BY <1>1 DEF EnqueueSnapshot
  <2>2. prevGraph' = loop.graph /\ UNCHANGED <<write, disk, writeFailures>>
    BY <1>1 DEF EnqueueSnapshot, writerVars
  <2>3. loopSnapshotCh = {} => loopSnapshotCh' = {prevGraph'}
    BY <1>1 DEF EnqueueSnapshot
  <2> QED
    BY <2>1, <2>2, <2>3
<1>2. CASE WriterReceive
  <2>1. loopSnapshotCh' = {} /\ loopSnapshotCh # {} /\ UNCHANGED <<prevGraph, disk, writeFailures>>
    BY <1>2 DEF WriterReceive, cycleVars
  <2>2. CASE MayWrite
    <3> DEFINE g == CHOOSE g \in loopSnapshotCh : TRUE
    <3>1. write' = [state |-> "running", graph |-> g] /\ UNCHANGED drops
      BY <1>2, <2>2 DEF WriterReceive
    <3>2. g \in loopSnapshotCh
      BY <2>1
    <3> HIDE DEF g
    <3> QED
      BY <2>1, <3>1, <3>2
  <2>3. CASE ~MayWrite
    BY <1>2, <2>3 DEF WriterReceive
  <2> QED
    BY <2>2, <2>3
<1>3. CASE WriterWaited
  <2>1. UNCHANGED <<prevGraph, loopSnapshotCh, drops, disk, writeFailures>>
    BY <1>3 DEF WriterWaited, cycleVars
  <2>2. \/ write.state = "ready" /\ write' = Nil
        \/ UNCHANGED write
    BY <1>3 DEF WriterWaited
  <2> QED
    BY <2>1, <2>2, SMT DEF Nil
<1>4. CASE WriteEnds
  <2>1. /\ UNCHANGED <<prevGraph, loopSnapshotCh, drops>> /\ write.state = "running" /\ write'.state = "ready"
        /\ (disk' = write.graph /\ UNCHANGED writeFailures) \/ writeFailures'
    BY <1>4 DEF WriteEnds, cycleVars
  <2> QED
    BY <2>1
<1>5. CASE WritePanic
  BY <1>5 DEF WritePanic
<1>6. ASSUME UNCHANGED <<prevGraph, loopSnapshotCh, drops, disk, write, writeFailures>> PROVE SnapshotInOrder'
  BY <1>6
<1> QED
  BY <1>1, <1>2, <1>3, <1>4, <1>5, <1>6
  DEF LoopNext, CycleSteps, CycleTick, Lock, Walked, CyclePanic, Emit, Update, Close, Return, Writer,
      WriterExit, Watchdog, WatchdogTick, WatchdogSet, Age, LoopCancel, LoopTerminated, AdminCall, AdminLock,
      AnswerRequest, AdminSkip, AdminUnlock, AdminReply, AdminPanic, loopVars, cycleVars, writerVars

\* These steps neither begin a walk nor end one.
LEMMA NoWalk ==
    ASSUME LoopTypeOK, CycleTick \/ Emit \/ Update \/ EnqueueSnapshot \/ Close \/ Return
    PROVE  loop.pc # "walk" /\ loop'.pc # "walk"
<1> USE DEF LoopTypeOK
<1>1. CASE CycleTick \/ Update \/ Close \/ Return
  BY <1>1 DEF CycleTick, Update, Close, Return, LoopAt
<1>2. CASE Emit
  BY <1>2, SMTT(20) DEF Emit, LoopAt, CycleOver
<1>3. CASE EnqueueSnapshot
  BY <1>3, SMTT(30) DEF EnqueueSnapshot, CycleOver
<1> QED
  BY <1>1, <1>2, <1>3

\* Every step keeps the walks apart: CycleMu is locked before a walk and unlocked after
\* it, on every way out but a panic.
LEMMA WalksStep == LoopTypeOK /\ WalksExclude /\ [LoopNext]_loopVars => WalksExclude'
<1> SUFFICES ASSUME LoopTypeOK, WalksExclude, [LoopNext]_loopVars PROVE WalksExclude'
  OBVIOUS
<1>0. \A a \in Admins : a # Free /\ a # Loop
  BY LoopAssumption DEF Free, Loop
<1>z. Free # Loop
  BY DEF Free, Loop
<1> USE DEF LoopTypeOK, WalksExclude
<1>1. CASE Lock
  BY <1>0, <1>z, <1>1 DEF Lock, LoopAt
<1>2. CASE Walked
  BY <1>0, <1>z, <1>2, SMTT(30) DEF Walked, CycleOver
<1>3. CASE CyclePanic
  <2>1. UNCHANGED <<cycleMu, admin>> /\ loop'.pc = "select"
    BY <1>3 DEF CyclePanic, CycleOver
  <2>2. ~struck' => ~struck /\ loop.pc # "walk"
    BY <1>3 DEF CyclePanic
  <2> QED
    BY <2>1, <2>2
<1>4. ASSUME UNCHANGED <<cycleMu, admin, struck>>, loop.pc # "walk", loop'.pc # "walk" PROVE WalksExclude'
  BY <1>4
<1>5. CASE CycleTick \/ Emit \/ Update \/ EnqueueSnapshot \/ Close \/ Return
  <2>1. UNCHANGED <<cycleMu, admin, struck>>
    BY <1>5 DEF CycleTick, Emit, Update, EnqueueSnapshot, Close, Return
  <2>2. loop.pc # "walk" /\ loop'.pc # "walk"
    BY <1>5, NoWalk
  <2> QED
    BY <1>4, <2>1, <2>2
<1>6. ASSUME NEW a \in Admins, AdminLock(a) PROVE WalksExclude'
  BY <1>0, <1>z, <1>6 DEF AdminLock, AdminAt
<1>7. ASSUME NEW a \in Admins, AdminUnlock(a) PROVE WalksExclude'
  BY <1>0, <1>z, <1>7 DEF AdminUnlock, AdminAt
<1>8. ASSUME NEW a \in Admins, AdminCall(a) \/ AdminSkip(a) \/ AdminReply(a) PROVE WalksExclude'
  <2>1. UNCHANGED <<cycleMu, loop, struck>> /\ admin[a].pc # "walk"
    BY <1>8 DEF AdminCall, AdminSkip, AdminReply, cycleVars
  <2>2. \A b \in Admins : admin'[b].pc = "walk" <=> admin[b].pc = "walk"
    BY <1>8, <2>1, SMTT(30) DEF AdminCall, AdminSkip, AdminReply, AdminAt
  <2> QED
    BY <2>1, <2>2
<1>9. ASSUME NEW a \in Admins, AdminPanic(a) PROVE WalksExclude'
  BY <1>0, <1>9 DEF AdminPanic, AdminAt
<1>10. ASSUME UNCHANGED <<cycleMu, loop, admin, struck>> PROVE WalksExclude'
  BY <1>10
<1> QED
  BY <1>1, <1>2, <1>3, <1>5, <1>6, <1>7, <1>8, <1>9, <1>10
  DEF LoopNext, CycleSteps, Writer, WriterReceive, WriterWaited, WriterExit, WriteEnds, WritePanic, Watchdog,
      WatchdogTick, WatchdogSet, Age, LoopCancel, LoopTerminated, AnswerRequest, loopVars, cycleVars

\* Every reachable state of the loop satisfies the invariant.
THEOREM LoopInvariant == LoopSpec => []LoopInv
  BY LoopStart, LoopTypeStep, PublishStep, SnapshotStep, WalksStep, PTL DEF LoopSpec, LoopInv

\* Change events always add up to the served graph, for any graphs and any budget.
THEOREM EventsAddUp == LoopSpec => []EventsFollowTopology
<1>1. LoopInv => EventsFollowTopology
  BY DEF LoopInv, PublishInOrder, EventsFollowTopology
<1> QED
  BY <1>1, LoopInvariant, PTL

\* What was queued last is what a restart loads, over write timeouts and full queues.
THEOREM DiskCatchesUp == LoopSpec => []DiskFollowsTopology
<1>1. LoopInv => DiskFollowsTopology
  BY DEF LoopInv, LoopTypeOK, PublishInOrder, SnapshotInOrder, DiskFollowsTopology
<1> QED
  BY <1>1, LoopInvariant, PTL

\* The loop and any number of rediscover requests walk one at a time, and CycleMu is
\* never left locked but by a panic.
THEOREM WalksAreExclusive == LoopSpec => []WalksExclude
<1>1. LoopInv => WalksExclude
  BY DEF LoopInv
<1> QED
  BY <1>1, LoopInvariant, PTL

\* A mutex that a panic left locked stays locked.
LEMMA StruckStep == LoopTypeOK /\ WalksExclude /\ StruckIsFinal /\ [LoopNext]_loopVars => StruckIsFinal'
<1> SUFFICES ASSUME LoopTypeOK, WalksExclude, StruckIsFinal, [LoopNext]_loopVars PROVE StruckIsFinal'
  OBVIOUS
<1>0. \A a \in Admins : a # Free /\ a # Loop
  BY LoopAssumption DEF Free, Loop
<1>z. Free # Loop
  BY DEF Free, Loop
<1> USE DEF StruckIsFinal
<1>1. CASE Lock
  BY <1>1 DEF Lock
<1>2. CASE Walked
  BY <1>2 DEF Walked
<1>3. CASE CyclePanic
  <2>1. UNCHANGED <<cycleMu, admin>> /\ loop'.pc = "select"
    BY <1>3 DEF CyclePanic, CycleOver
  <2>2. CASE struck
    BY <2>1, <2>2
  <2>3. CASE loop.pc = "walk"
    BY <1>0, <1>z, <2>1, <2>3 DEF WalksExclude
  <2>4. struck' => struck \/ loop.pc = "walk"
    BY <1>3 DEF CyclePanic
  <2> QED
    BY <2>2, <2>3, <2>4
<1>4. ASSUME UNCHANGED <<cycleMu, admin, struck>>, loop'.pc # "walk" PROVE StruckIsFinal'
  BY <1>4
<1>5. CASE CycleTick \/ Emit \/ Update \/ EnqueueSnapshot \/ Close \/ Return
  <2>1. UNCHANGED <<cycleMu, admin, struck>>
    BY <1>5 DEF CycleTick, Emit, Update, EnqueueSnapshot, Close, Return
  <2>2. loop'.pc # "walk"
    BY <1>5, NoWalk
  <2> QED
    BY <1>4, <2>1, <2>2
<1>6. ASSUME NEW a \in Admins, AdminLock(a) PROVE StruckIsFinal'
  BY <1>6 DEF AdminLock
<1>7. ASSUME NEW a \in Admins, AdminUnlock(a) PROVE StruckIsFinal'
  BY <1>7 DEF AdminUnlock
<1>8. ASSUME NEW a \in Admins, AdminCall(a) \/ AdminSkip(a) \/ AdminReply(a) PROVE StruckIsFinal'
  <2>1. UNCHANGED <<cycleMu, loop, struck>>
    BY <1>8 DEF AdminCall, AdminSkip, AdminReply, cycleVars
  <2>2. \A b \in Admins : admin'[b].pc = "walk" => admin[b].pc = "walk"
    BY <1>8, SMT DEF LoopTypeOK, AdminCall, AdminSkip, AdminReply, AdminAt
  <2> QED
    BY <2>1, <2>2
<1>9. ASSUME NEW a \in Admins, AdminPanic(a) PROVE StruckIsFinal'
  <2>1. cycleMu = a /\ UNCHANGED <<cycleMu, loop>> /\ admin' = [admin EXCEPT ![a] = [pc |-> "idle", left |-> 0]]
    BY <1>9 DEF AdminPanic, AdminAt, WalksExclude
  <2>2. loop.pc # "walk" /\ \A b \in Admins : b # a => admin[b].pc # "walk"
    BY <1>0, <2>1 DEF WalksExclude
  <2> QED
    BY <1>0, <2>1, <2>2 DEF LoopTypeOK
<1>10. ASSUME UNCHANGED <<cycleMu, loop, admin, struck>> PROVE StruckIsFinal'
  BY <1>10
<1> QED
  BY <1>1, <1>2, <1>3, <1>5, <1>6, <1>7, <1>8, <1>9, <1>10
  DEF LoopNext, CycleSteps, Writer, WriterReceive, WriterWaited, WriterExit, WriteEnds, WritePanic, Watchdog,
      WatchdogTick, WatchdogSet, Age, LoopCancel, LoopTerminated, AnswerRequest, loopVars, cycleVars

\* Once a panic struck a walk there is never another, for any number of requests: what
\* loop_panic shows of one behaviour holds of all of them.
THEOREM StruckForGood == LoopSpec => []StruckIsFinal
<1>1. LoopInit => StruckIsFinal
  BY DEF LoopInit, StruckIsFinal
<1>2. LoopInv => LoopTypeOK /\ WalksExclude
  BY DEF LoopInv
<1> QED
  BY <1>1, <1>2, LoopInvariant, StruckStep, PTL DEF LoopSpec

-----------------------------------------------------------------------------
(* SpokePusher: the latest-only mailbox                                    *)

\* The slot holds at most one payload, the newest that was handed over: while Enqueue
\* works on a newer one it is the one before, and once Enqueue has emptied the slot
\* nobody else fills it.
OneSlot ==
    /\ mailbox = {} \/ \E n \in Payload : mailbox = {n}
    /\ cycle.pc = "idle" => mailbox \subseteq {cycle.payload}
    /\ cycle.pc \in {"offer", "drop"} => mailbox \subseteq {cycle.payload - 1}
    /\ cycle.pc = "insert" => mailbox = {}

\* Payloads leave in order: what is in hand, accepted or superseded is older than what
\* waits, and what is still to be put into the slot is newer than all of them.
InOrder ==
    /\ pusher.pc \in {"select", "stopped"} => pusher.payload = 0
    /\ pusher.pc \notin {"select", "stopped"} => pusher.payload \in Payload
    /\ pusher.payload <= cycle.payload
    /\ \A n \in accepted \cup superseded : n <= cycle.payload
    /\ \A n \in superseded : n < cycle.payload /\ n \notin accepted /\ n # pusher.payload
    /\ \A n \in mailbox : /\ pusher.payload < n
                          /\ \A k \in accepted \cup superseded : k < n
    /\ cycle.pc \in {"offer", "drop", "insert"} =>
         /\ pusher.payload < cycle.payload
         /\ \A n \in accepted : n < cycle.payload

\* PusherTypeOK without the cardinality.
PusherTypes ==
    /\ ctxDone \in BOOLEAN
    /\ mailbox \in SUBSET Payload
    /\ cycle \in [pc : {"idle", "offer", "drop", "insert"}, payload : 0..MaxCycles]
    /\ cycle.pc # "idle" => cycle.payload \in Payload
    /\ pusher \in [pc : {"select", "try", "wait", "dtry", "dwait", "stopped"},
                   payload : 0..MaxCycles, attempt : 0..MaxAttempts]
    /\ pusher.pc \in {"wait", "dwait"} => pusher.attempt < MaxAttempts
    /\ pusher.pc \in {"try", "dtry"} => pusher.attempt > 0
    /\ superseded \in SUBSET Payload /\ abandoned \in SUBSET Payload
    /\ accepted \in SUBSET Payload /\ failed \in SUBSET Payload
    /\ failures \in Nat

PusherInv == PusherTypes /\ OneSlot /\ InOrder

\* The initial state satisfies the invariant.
LEMMA PusherStart == PusherInit => PusherInv
<1> SUFFICES ASSUME PusherInit PROVE PusherInv
  OBVIOUS
<1> USE PusherAssumption DEF PusherInit, NoPush
<1>1. PusherTypes
  <2>1. ctxDone \in BOOLEAN
    OBVIOUS
  <2>2. /\ mailbox \in SUBSET Payload
        /\ superseded \in SUBSET Payload /\ abandoned \in SUBSET Payload
        /\ accepted \in SUBSET Payload /\ failed \in SUBSET Payload
    OBVIOUS
  <2> QED
    BY <2>1, <2>2, SMTT(30) DEF PusherTypes
<1>2. OneSlot
  BY DEF OneSlot
<1>3. InOrder
  BY SMT DEF InOrder
<1> QED
  BY <1>1, <1>2, <1>3 DEF PusherInv

\* What a failed push leaves behind, under either context.
LEMMA FailsOutcome ==
    ASSUME NEW counted \in {0, 1}, PusherInv, Fails(counted),
           pusher.pc \in {"try", "wait", "dtry", "dwait"}
    PROVE  /\ pusher' \in {NoPush, Stopped}
           /\ failures' \in Nat
           /\ failed' \in SUBSET Payload /\ abandoned' \in SUBSET Payload
<1> USE DEF PusherInv, PusherTypes, InOrder, Fails
<1>1. pusher' \in {NoPush, Stopped}
  OBVIOUS
<1>2. failures' \in Nat
  BY SMT DEF DoPushCount
<1>3. pusher.payload \in Payload
  OBVIOUS
<1>4. failed' \in SUBSET Payload /\ abandoned' \in SUBSET Payload
  BY <1>3
<1> QED
  BY <1>1, <1>2, <1>4

\* The end of a push keeps the order: its payload may have been accepted meanwhile.
LEMMA EndOfPush ==
    ASSUME PusherInv, pusher.pc \in {"try", "wait", "dtry", "dwait"},
           accepted' \in {accepted, accepted \cup {pusher.payload}},
           pusher' \in {NoPush, Stopped},
           failures' \in Nat, failed' \in SUBSET Payload, abandoned' \in SUBSET Payload,
           UNCHANGED <<ctxDone, mailbox, cycle, superseded>>
    PROVE  PusherInv'
<1> USE PusherAssumption DEF PusherInv, Payload
<1>1. pusher.payload \in Payload
  BY DEF InOrder
<1>2. PusherTypes'
  BY <1>1, SMT DEF PusherTypes, NoPush, Stopped
<1>3. OneSlot'
  BY DEF OneSlot
<1>4. InOrder'
  BY <1>1, SMT DEF InOrder, PusherTypes, NoPush, Stopped
<1> QED
  BY <1>2, <1>3, <1>4

\* Every step keeps the invariant.
LEMMA PusherStep == PusherInv /\ [PusherNext]_pusherVars => PusherInv'
<1> SUFFICES ASSUME PusherInv, [PusherNext]_pusherVars PROVE PusherInv'
  OBVIOUS
<1> USE PusherAssumption DEF PusherInv, CycleGoes
<1>1. CASE CycleEnds
  BY <1>1, SMTT(30) DEF CycleEnds, PusherTypes, OneSlot, InOrder, Payload
<1>2. CASE Offer
  BY <1>2, SMTT(30) DEF Offer, PusherTypes, OneSlot, InOrder, Payload
<1>3. CASE DropOlder
  BY <1>3, SMT DEF DropOlder, PusherTypes, OneSlot, InOrder, Payload
<1>4. CASE Insert
  BY <1>4 DEF Insert, PusherTypes, OneSlot, InOrder, Payload
<1>5. CASE Cancel
  BY <1>5 DEF Cancel, PusherTypes, OneSlot, InOrder
<1>6. CASE Take
  BY <1>6, SMT DEF Take, PusherTypes, OneSlot, InOrder, Payload
<1>7. CASE DrainOnce
  <2>1. CASE mailbox = {}
    BY <1>7, <2>1, SMTT(20) DEF DrainOnce, PusherTypes, OneSlot, InOrder, Stopped
  <2>2. CASE mailbox # {}
    <3>1. PICK n \in mailbox : pusher' = [pc |-> "dtry", payload |-> n, attempt |-> 1]
      BY <1>7, <2>2 DEF DrainOnce
    <3> QED
      BY <1>7, <3>1, SMTT(30) DEF DrainOnce, PusherTypes, OneSlot, InOrder, Payload
  <2> QED
    BY <2>1, <2>2
<1>8. CASE PostOK
  <2>1. pusher' \in {NoPush, Stopped}
    BY <1>8 DEF PostOK, Succeeds
  <2> QED
    BY <1>8, <2>1, EndOfPush DEF PostOK, PusherTypes
<1>9. CASE PostFatal
  BY <1>9, FailsOutcome, EndOfPush DEF PostFatal
<1>10. CASE PostRetryable
  <2>1. CASE LastAttempt
    BY <1>10, <2>1, FailsOutcome, EndOfPush DEF PostRetryable
  <2>2. CASE ~LastAttempt
    <3>1. /\ pusher'.pc \in {"wait", "dwait"} /\ pusher'.payload = pusher.payload
          /\ pusher'.attempt = pusher.attempt
          /\ pusher' \in [pc : {"wait", "dwait"}, payload : 0..MaxCycles, attempt : 0..MaxAttempts]
      BY <1>10, <2>2, SMTT(30) DEF PostRetryable, PusherTypes
    <3>2. pusher.attempt < MaxAttempts
      BY <2>2, SMT DEF LastAttempt, PusherTypes
    <3>3. pusher.payload \in Payload
      BY <1>10 DEF PostRetryable, InOrder
    <3>4. PusherTypes'
      BY <1>10, <2>2, <3>1, <3>2, <3>3 DEF PostRetryable, PusherTypes
    <3>5. OneSlot'
      BY <1>10 DEF PostRetryable, OneSlot
    <3>6. InOrder'
      BY <1>10, <3>1, <3>3 DEF PostRetryable, InOrder, PusherTypes, Payload
    <3> QED
      BY <3>4, <3>5, <3>6
  <2> QED
    BY <2>1, <2>2
<1>11. CASE Backoff
  <2>1. /\ pusher'.pc \in {"try", "dtry"} /\ pusher'.payload = pusher.payload
        /\ pusher'.attempt = pusher.attempt + 1
        /\ pusher' = [pc |-> pusher'.pc, payload |-> pusher.payload, attempt |-> pusher.attempt + 1]
    BY <1>11 DEF Backoff
  <2>2. pusher.attempt + 1 \in 1..MaxAttempts
    BY <1>11, SMTT(30) DEF Backoff, PusherTypes
  <2>3. PusherTypes'
    BY <1>11, <2>1, <2>2, SMTT(30) DEF Backoff, PusherTypes
  <2>4. OneSlot'
    BY <1>11 DEF Backoff, OneSlot
  <2>5. InOrder'
    BY <1>11, <2>1 DEF Backoff, InOrder
  <2> QED
    BY <2>3, <2>4, <2>5
<1>12. CASE ContextEnds
  BY <1>12, FailsOutcome, EndOfPush DEF ContextEnds, Draining
<1>13. CASE PushPanics
  BY <1>13, EndOfPush DEF PushPanics, PusherTypes
<1>14. CASE UNCHANGED pusherVars
  BY <1>14 DEF pusherVars, PusherTypes, OneSlot, InOrder
<1> QED
  BY <1>1, <1>2, <1>3, <1>4, <1>5, <1>6, <1>7, <1>8, <1>9, <1>10, <1>11, <1>12, <1>13, <1>14
  DEF PusherNext, Enqueue, Consume, Terminated

\* The types of the pusher hold in every reachable state.
THEOREM PusherTypeCorrect == PusherSpec => []PusherTypeOK
<1>1. ASSUME PusherInv PROVE PusherTypeOK
  <2>1. Cardinality(mailbox) <= 1
    <3>1. CASE mailbox = {}
      BY <3>1, FS_EmptySet, SMTT(30)
    <3>2. CASE \E n \in Payload : mailbox = {n}
      BY <3>2, FS_Singleton, SMTT(30)
    <3> QED
      BY <1>1, <3>1, <3>2 DEF PusherInv, OneSlot
  <2> QED
    BY <1>1, <2>1 DEF PusherInv, PusherTypes, PusherTypeOK
<1> QED
  BY <1>1, PusherStart, PusherStep, PTL DEF PusherSpec

\* Between two cycles the mailbox holds the newest payload or nothing, and only one
\* that is newer than what the pusher has and than what the hub accepted.
THEOREM NewestWaits == PusherSpec => []FreshestIsQueued
<1>1. PusherInv => FreshestIsQueued
  BY DEF PusherInv, OneSlot, InOrder, FreshestIsQueued
<1> QED
  BY <1>1, PusherStart, PusherStep, PTL DEF PusherSpec

\* A payload counted as superseded was never sent and never will be.
THEOREM SupersededStays == PusherSpec => []SupersededNeverSent
<1>1. PusherInv => SupersededNeverSent
  BY DEF PusherInv, InOrder, SupersededNeverSent
<1> QED
  BY <1>1, PusherStart, PusherStep, PTL DEF PusherSpec

\* Enqueue's three selects and run's receive implement the atomic mailbox.
THEOREM MailboxRefined == PusherSpec => ImplementsMailbox
<1> DEFINE last    == IF cycle.pc \in {"offer", "drop"} THEN cycle.payload - 1 ELSE cycle.payload
           waiting == IF cycle.pc = "insert" THEN {cycle.payload} ELSE mailbox
<1>1. PusherInit => Slot!Init
  BY SMT DEF PusherInit, Slot!Init, NoPush
<1>2. PusherInv /\ [PusherNext]_pusherVars => [Slot!Next]_<<last, waiting, pusher.payload>>
  <2> SUFFICES ASSUME PusherInv, [PusherNext]_pusherVars
               PROVE  [Slot!Next]_<<last, waiting, pusher.payload>>
    OBVIOUS
  <2> USE PusherAssumption DEF PusherInv, CycleGoes
  <2>1. CASE CycleEnds
    BY <2>1, SMTT(30) DEF CycleEnds, PusherTypes
  <2>2. CASE Offer
    BY <2>2, SMTT(30) DEF Offer, PusherTypes, OneSlot, Slot!Next, Slot!Put
  <2>3. CASE DropOlder
    BY <2>3, SMTT(30) DEF DropOlder, PusherTypes, Slot!Next, Slot!Put
  <2>4. CASE Insert
    BY <2>4 DEF Insert, PusherTypes, OneSlot
  <2>5. CASE Take
    <3>1. PICK n \in mailbox : pusher'.payload = n
      BY <2>5, SMTT(30) DEF Take
    <3>2. mailbox = {n} /\ mailbox' = {} /\ UNCHANGED cycle /\ pusher.payload = 0
      BY <2>5, <3>1 DEF Take, OneSlot, InOrder
    <3>3. n = last /\ cycle.pc # "insert"
      BY <3>2 DEF OneSlot, PusherTypes
    <3> QED
      BY <3>1, <3>2, <3>3 DEF Slot!Next, Slot!Get
  <2>6. CASE DrainOnce
    <3>1. CASE mailbox = {}
      BY <2>6, <3>1 DEF DrainOnce, InOrder, Stopped
    <3>2. CASE mailbox # {}
      <4>1. PICK n \in mailbox : pusher'.payload = n
        BY <2>6, <3>2 DEF DrainOnce
      <4>2. mailbox = {n} /\ mailbox' = {} /\ UNCHANGED cycle /\ pusher.payload = 0
        BY <2>6, <4>1 DEF DrainOnce, OneSlot, InOrder
      <4>3. n = last /\ cycle.pc # "insert"
        BY <4>2 DEF OneSlot, PusherTypes
      <4> QED
        BY <4>1, <4>2, <4>3 DEF Slot!Next, Slot!Get
    <3> QED
      BY <3>1, <3>2
  <2>7. ASSUME UNCHANGED <<cycle, mailbox>>, pusher'.payload \in {0, pusher.payload}
        PROVE  [Slot!Next]_<<last, waiting, pusher.payload>>
    BY <2>7 DEF Slot!Next, Slot!Release
  <2>8. CASE PostOK \/ PostFatal \/ PostRetryable \/ Backoff \/ ContextEnds
    <3>1. UNCHANGED <<cycle, mailbox>>
      BY <2>8 DEF PostOK, PostFatal, PostRetryable, Backoff, ContextEnds
    <3>2. pusher'.payload \in {0, pusher.payload}
      <4>1. NoPush.payload = 0 /\ Stopped.payload = 0
        BY DEF NoPush, Stopped
      <4>2. ASSUME NEW n, Fails(n) PROVE pusher'.payload = 0
        BY <4>1, <4>2 DEF Fails
      <4>3. CASE PostOK
        BY <4>1, <4>3 DEF PostOK, Succeeds
      <4>4. CASE PostFatal
        BY <4>2, <4>4 DEF PostFatal
      <4>5. CASE PostRetryable
        <5>1. CASE LastAttempt
          BY <4>2, <4>5, <5>1 DEF PostRetryable
        <5>2. CASE ~LastAttempt
          BY <4>5, <5>2, SMTT(30) DEF PostRetryable
        <5> QED
          BY <5>1, <5>2
      <4>6. CASE Backoff
        BY <4>6, SMTT(30) DEF Backoff
      <4>7. CASE ContextEnds
        BY <4>2, <4>7 DEF ContextEnds
      <4> QED
        BY <2>8, <4>3, <4>4, <4>5, <4>6, <4>7
    <3> QED
      BY <2>7, <3>1, <3>2
  <2>9. CASE Cancel \/ PushPanics \/ UNCHANGED pusherVars
    <3>1. CASE Cancel
      BY <2>7, <3>1 DEF Cancel
    <3>2. CASE PushPanics
      BY <2>7, <3>2 DEF PushPanics, Stopped
    <3>3. CASE UNCHANGED pusherVars
      BY <2>7, <3>3 DEF pusherVars
    <3> QED
      BY <2>9, <3>1, <3>2, <3>3
  <2> QED
    BY <2>1, <2>2, <2>3, <2>4, <2>5, <2>6, <2>8, <2>9
    DEF PusherNext, Enqueue, Consume, Terminated
<1> QED
  BY <1>1, <1>2, PusherStart, PusherStep, PTL DEF PusherSpec, ImplementsMailbox, Slot!Spec

-----------------------------------------------------------------------------
(* The OTLP publisher                                                      *)

\* The goroutines are told apart by the call of Push that started them.
FlightsApart ==
    /\ IsFiniteSet(flights) /\ asked \in Nat
    /\ \A f \in flights : f.id \in Nat /\ f.id < asked
    /\ \A f, g \in flights : f.id = g.id => f = g

Statuses == {"ok", "error", "dropped", "panicked"}
Settled == tally["ok"] + tally["error"] + tally["dropped"] + tally["panicked"]

OtlpInv ==
    /\ FlightsApart /\ FlightsMatch
    /\ tally \in [Statuses -> Nat] /\ asked = Settled + Cardinality(flights)
    /\ DrainedIsIdle

\* Before the first cycle.
LEMMA OtlpStart == OtlpInit => OtlpInv
<1> SUFFICES ASSUME OtlpInit PROVE OtlpInv
  OBVIOUS
<1>1. flights = {} /\ IsFiniteSet(flights) /\ Cardinality(flights) = 0
  BY FS_EmptySet DEF OtlpInit
<1>2. FlightsApart
  BY <1>1 DEF OtlpInit, FlightsApart
<1>3. FlightsMatch
  BY <1>1, PublisherAssumption, SMTT(30) DEF OtlpInit, FlightsMatch
<1>4. tally \in [Statuses -> Nat] /\ Settled = 0
  BY SMTT(30) DEF OtlpInit, Statuses, Settled
<1>5. asked = Settled + Cardinality(flights)
  BY <1>1, <1>4, SMTT(30) DEF OtlpInit
<1>6. DrainedIsIdle
  BY DEF OtlpInit, DrainedIsIdle
<1> QED
  BY <1>2, <1>3, <1>4, <1>5, <1>6 DEF OtlpInv

\* Counting one push settles one.
LEMMA CountSettles ==
    ASSUME tally \in [Statuses -> Nat], NEW s \in Statuses, Count(s)
    PROVE  tally' \in [Statuses -> Nat] /\ Settled' = Settled + 1
<1> DEFINE a == tally["ok"]
           b == tally["error"]
           c == tally["dropped"]
           d == tally["panicked"]
<1>1. tally' \in [Statuses -> Nat]
  BY SMT DEF Count
<1>2. a \in Nat /\ b \in Nat /\ c \in Nat /\ d \in Nat
  BY DEF Statuses
<1>3. /\ tally'["ok"] = IF s = "ok" THEN a + 1 ELSE a
      /\ tally'["error"] = IF s = "error" THEN b + 1 ELSE b
      /\ tally'["dropped"] = IF s = "dropped" THEN c + 1 ELSE c
      /\ tally'["panicked"] = IF s = "panicked" THEN d + 1 ELSE d
  BY DEF Count, Statuses
<1>4. Settled = a + b + c + d
  BY DEF Settled
<1>5. Settled' = tally'["ok"] + tally'["error"] + tally'["dropped"] + tally'["panicked"]
  BY DEF Settled
<1> HIDE DEF a, b, c, d
<1>6. Settled' = a + b + c + d + 1
  <2>1. CASE s = "ok"
    BY <1>2, <1>3, <1>5, <2>1, SMTT(20)
  <2>2. CASE s = "error"
    BY <1>2, <1>3, <1>5, <2>2, SMTT(20)
  <2>3. CASE s = "dropped"
    BY <1>2, <1>3, <1>5, <2>3, SMTT(20)
  <2>4. CASE s = "panicked"
    BY <1>2, <1>3, <1>5, <2>4, SMTT(30)
  <2> QED
    BY <2>1, <2>2, <2>3, <2>4 DEF Statuses
<1> QED
  BY <1>1, <1>4, <1>6

\* A goroutine lands: its slot and its place in the wait group are free again.
LEMMA Landing ==
    ASSUME OtlpInv, NEW f \in flights, Land(f), NEW s \in Statuses, Count(s), asked' = asked,
           stop' = stop, forced' = forced
    PROVE  OtlpInv'
<1>1. flights' = flights \ {f} /\ sem' = sem - 1 /\ wg' = wg - 1
  BY DEF Land
<1>2. IsFiniteSet(flights') /\ Cardinality(flights') = Cardinality(flights) - 1
  BY <1>1, FS_RemoveElement DEF OtlpInv, FlightsApart
<1>3. Cardinality(flights) \in Nat
  BY FS_CardinalityType DEF OtlpInv, FlightsApart
<1>4. FlightsApart'
  BY <1>1, <1>2 DEF OtlpInv, FlightsApart
<1>5. FlightsMatch'
  BY <1>1, <1>2, <1>3, PublisherAssumption, SMTT(30) DEF OtlpInv, FlightsMatch
<1>6. tally' \in [Statuses -> Nat] /\ Settled' = Settled + 1
  BY CountSettles DEF OtlpInv
<1>7. Settled \in Nat
  BY SMTT(30) DEF OtlpInv, Settled, Statuses
<1>8. asked' = Settled' + Cardinality(flights')
  BY <1>2, <1>3, <1>6, <1>7, SMTT(30) DEF OtlpInv
<1>9. DrainedIsIdle'
  BY <1>1 DEF OtlpInv, DrainedIsIdle
<1> QED
  BY <1>4, <1>5, <1>6, <1>8, <1>9 DEF OtlpInv

\* Every step of publish, of a push and of the shutdown keeps the invariant.
LEMMA OtlpStep == OtlpInv /\ [OtlpNext]_otlpVars => OtlpInv'
<1> SUFFICES ASSUME OtlpInv, [OtlpNext]_otlpVars PROVE OtlpInv'
  OBVIOUS
<1>0. Cardinality(flights) \in Nat /\ IsFiniteSet(flights) /\ sem = Cardinality(flights)
      /\ Settled \in Nat
  BY FS_CardinalityType, SMTT(30) DEF OtlpInv, FlightsApart, FlightsMatch, Settled, Statuses
<1>1. ASSUME UNCHANGED <<flights, sem, wg, asked, tally>>, DrainedIsIdle' PROVE OtlpInv'
  BY <1>1 DEF OtlpInv, FlightsApart, FlightsMatch, Settled
<1>2. CASE HandOver
  <2>1. stop # "exit" /\ UNCHANGED <<stop, forced>> /\ PushOtlp(step.pc)
    BY <1>2 DEF HandOver
  <2>2. DrainedIsIdle'
    BY <2>1 DEF DrainedIsIdle
  <2>3. CASE sem < Cap
    <3> DEFINE f == [id |-> asked, kind |-> step.pc, graph |-> step.graph, pc |-> "start"]
    <3>1. /\ flights' = flights \cup {f} /\ sem' = sem + 1 /\ wg' = wg + 1
          /\ UNCHANGED tally /\ asked' = asked + 1
      BY <2>1, <2>3 DEF PushOtlp
    <3>2. f.id = asked
      OBVIOUS
    <3> HIDE DEF f
    <3>3. f \notin flights
      BY <3>2, SMTT(30) DEF OtlpInv, FlightsApart
    <3>4. IsFiniteSet(flights') /\ Cardinality(flights') = Cardinality(flights) + 1
      BY <1>0, <3>1, <3>3, FS_AddElement
    <3>5. FlightsApart'
      BY <3>1, <3>2, <3>4, SMTT(20) DEF OtlpInv, FlightsApart
    <3>6. FlightsMatch'
      BY <1>0, <2>3, <3>1, <3>4, PublisherAssumption, SMTT(20) DEF OtlpInv, FlightsMatch
    <3>7. asked' = Settled' + Cardinality(flights')
      BY <1>0, <3>1, <3>4, SMTT(30) DEF OtlpInv, Settled
    <3> QED
      BY <2>2, <3>1, <3>5, <3>6, <3>7 DEF OtlpInv
  <2>4. CASE ~(sem < Cap)
    <3>1. Count("dropped") /\ UNCHANGED <<flights, sem, wg>> /\ asked' = asked + 1
      BY <2>1, <2>4 DEF PushOtlp
    <3>2. tally' \in [Statuses -> Nat] /\ Settled' = Settled + 1
      BY <3>1, CountSettles DEF OtlpInv, Statuses
    <3>3. FlightsApart' /\ FlightsMatch'
      BY <3>1, SMTT(30) DEF OtlpInv, FlightsApart, FlightsMatch
    <3>4. asked' = Settled' + Cardinality(flights')
      BY <1>0, <3>1, <3>2, SMTT(30) DEF OtlpInv
    <3> QED
      BY <2>2, <3>2, <3>3, <3>4 DEF OtlpInv
  <2> QED
    BY <2>3, <2>4
<1>3. ASSUME NEW f \in flights, Begin(f) PROVE OtlpInv'
  <2> DEFINE g == Flushing(f)
             rest == flights \ {f}
  <2>1. /\ flights' = rest \cup {g} /\ UNCHANGED <<sem, wg, asked, tally, stop, forced>>
        /\ stop # "exit"
    BY <1>3 DEF Begin, Stores
  <2>2. g.id = f.id
    BY DEF Flushing
  <2> HIDE DEF g
  <2>3. g \notin rest
    BY <2>2 DEF OtlpInv, FlightsApart
  <2>4. IsFiniteSet(rest) /\ Cardinality(rest) = Cardinality(flights) - 1
    BY <1>0, FS_RemoveElement
  <2>5. IsFiniteSet(rest \cup {g}) /\ Cardinality(rest \cup {g}) = Cardinality(rest) + 1
    <3> HIDE DEF rest
    <3> QED
      BY <2>3, <2>4, FS_AddElement
  <2>6. IsFiniteSet(flights') /\ Cardinality(flights') = Cardinality(flights)
    BY <1>0, <2>1, <2>4, <2>5, SMTT(30)
  <2>7. FlightsApart'
    BY <2>1, <2>2, <2>6 DEF OtlpInv, FlightsApart
  <2>8. FlightsMatch' /\ DrainedIsIdle'
    BY <2>1, <2>6 DEF OtlpInv, FlightsMatch, DrainedIsIdle
  <2>9. asked' = Settled' + Cardinality(flights')
    BY <2>1, <2>6 DEF OtlpInv, Settled
  <2> QED
    BY <2>1, <2>7, <2>8, <2>9 DEF OtlpInv
<1>4. ASSUME NEW f \in flights, FlushOK(f) \/ FlushFails(f) \/ Panics(f) PROVE OtlpInv'
  <2>1. Land(f) /\ asked' = asked /\ stop' = stop /\ forced' = forced
    BY <1>4 DEF FlushOK, FlushFails, Panics
  <2>2. \E s \in Statuses : Count(s)
    BY <1>4 DEF FlushOK, FlushFails, Panics, Statuses
  <2> QED
    BY <2>1, <2>2, Landing
<1>5. CASE PublishCycle \/ PeriodicExport
  <2>1. UNCHANGED <<flights, sem, wg, asked, tally, stop, forced>>
    BY <1>5 DEF PublishCycle, PeriodicExport
  <2> QED
    BY <1>1, <2>1 DEF OtlpInv, DrainedIsIdle
<1>6. CASE StopSignal \/ WorkersDone
  <2>1. UNCHANGED <<flights, sem, wg, asked, tally>> /\ stop' # "exit"
    BY <1>6 DEF StopSignal, WorkersDone
  <2> QED
    BY <1>1, <2>1 DEF DrainedIsIdle
<1>7. CASE Drained
  <2>1. UNCHANGED <<flights, sem, wg, asked, tally>> /\ wg = 0
    BY <1>7 DEF Drained
  <2>2. flights = {}
    BY <1>0, <2>1, FS_EmptySet DEF OtlpInv, FlightsMatch
  <2> QED
    BY <1>1, <2>1, <2>2 DEF DrainedIsIdle
<1>8. CASE DrainTimesOut
  <2>1. UNCHANGED <<flights, sem, wg, asked, tally>> /\ forced' = TRUE
    BY <1>8 DEF DrainTimesOut
  <2> QED
    BY <1>1, <2>1 DEF DrainedIsIdle
<1>9. CASE UNCHANGED otlpVars
  BY <1>1, <1>9 DEF otlpVars, OtlpInv, DrainedIsIdle
<1> QED
  BY <1>2, <1>3, <1>4, <1>5, <1>6, <1>7, <1>8, <1>9 DEF OtlpNext, Flight, Exited

\* Every reachable state of the publisher satisfies the invariant.
THEOREM OtlpInvariant == OtlpSpec => []OtlpInv
  BY OtlpStart, OtlpStep, PTL DEF OtlpSpec

\* The semaphore and the wait group of otlpPublisher count its goroutines, whatever
\* the cap.
THEOREM SlotsAreCounted == OtlpSpec => []FlightsMatch
<1>1. OtlpInv => FlightsMatch
  BY DEF OtlpInv
<1> QED
  BY <1>1, OtlpInvariant, PTL

\* No call of Push goes uncounted, and none is counted twice.
THEOREM PushesAreCounted == OtlpSpec => []EveryPushCounted
<1>1. OtlpInv => EveryPushCounted
  BY DEF OtlpInv, EveryPushCounted, Settled
<1> QED
  BY <1>1, OtlpInvariant, PTL

\* Drain returns only after the last push, whatever is handed over while it waits.
THEOREM DrainWaits == OtlpSpec => []DrainedIsIdle
<1>1. OtlpInv => DrainedIsIdle
  BY DEF OtlpInv
<1> QED
  BY <1>1, OtlpInvariant, PTL

\* ClassifyPushError reads the status of an answer, and none where there was no answer:
\* the first number of every text is the port.
LEMMA FaultIsNamed ==
    ASSUME NEW fault \in Faults
    PROVE  ClassifyPushError(ErrorOf(fault)) =
             CASE fault = "refused" -> "network"
               [] fault \in {"deadline", "slow"} -> "timeout"
               [] fault = "tls" -> "tls_error"
               [] fault = "4xx" -> "http_4xx"
               [] fault = "5xx" -> "http_5xx"
<1>1. classifyHTTPStatus(<<Port>>) = "none"
  BY PublisherAssumption, SMTT(30) DEF classifyHTTPStatus
<1>2. ASSUME NEW n \in 400..599
      PROVE  classifyHTTPStatus(<<Port, n>>) = IF n < 500 THEN "http_4xx" ELSE "http_5xx"
  <2> DEFINE numbers == <<Port, n>>
             at == {i \in DOMAIN numbers : numbers[i] \in 400..599}
  <2>1. at = {2} /\ numbers[2] = n
    BY PublisherAssumption, SMTT(30)
  <2>2. Min({2}) = 2
    BY SMTT(30) DEF Min
  <2>3. classifyHTTPStatus(numbers) =
          IF at = {} THEN "none" ELSE IF numbers[Min(at)] < 500 THEN "http_4xx" ELSE "http_5xx"
    BY DEF classifyHTTPStatus
  <2> HIDE DEF at
  <2>4. at # {} /\ numbers[Min(at)] = n
    BY <2>1, <2>2
  <2> HIDE DEF numbers
  <2>5. classifyHTTPStatus(numbers) = IF n < 500 THEN "http_4xx" ELSE "http_5xx"
    BY <2>3, <2>4
  <2> QED
    BY <2>5 DEF numbers
<1>3. classifyHTTPStatus(<<Port, 404>>) = "http_4xx" /\ classifyHTTPStatus(<<Port, 503>>) = "http_5xx"
  <2> DEFINE low == 404
             high == 503
  <2>1. low \in 400..599 /\ low < 500 /\ high \in 400..599 /\ ~(high < 500)
    BY SMTT(30)
  <2> HIDE DEF low, high
  <2>2. classifyHTTPStatus(<<Port, low>>) = "http_4xx"
    BY ONLY <1>2, <2>1, ZenonT(60)
  <2>3. classifyHTTPStatus(<<Port, high>>) = "http_5xx"
    BY ONLY <1>2, <2>1, ZenonT(60)
  <2> QED
    BY <2>2, <2>3 DEF low, high
<1> DEFINE e == ErrorOf(fault)
<1>4. CASE fault = "refused"
  <2>1. e.deadline = FALSE /\ e.words = {} /\ e.numbers = <<Port>>
    BY <1>4 DEF ErrorOf
  <2> HIDE DEF e
  <2>2. ClassifyPushError(e) = "network"
    BY <1>1, <2>1 DEF ClassifyPushError
  <2> QED
    BY <1>4, <2>2 DEF e
<1>5. CASE fault = "deadline"
  <2>1. e.deadline = TRUE
    BY <1>5 DEF ErrorOf
  <2> HIDE DEF e
  <2>2. ClassifyPushError(e) = "timeout"
    BY <2>1 DEF ClassifyPushError
  <2> QED
    BY <1>5, <2>2 DEF e
<1>6. CASE fault = "slow"
  <2>1. e.deadline = FALSE /\ e.words = {"timeout"}
    BY <1>6 DEF ErrorOf
  <2> HIDE DEF e
  <2>2. ClassifyPushError(e) = "timeout"
    BY <2>1 DEF ClassifyPushError
  <2> QED
    BY <1>6, <2>2 DEF e
<1>7. CASE fault = "tls"
  <2>1. e.deadline = FALSE /\ e.words = {"tls:"}
    BY <1>7 DEF ErrorOf
  <2> HIDE DEF e
  <2>2. ClassifyPushError(e) = "tls_error"
    BY <2>1 DEF ClassifyPushError
  <2> QED
    BY <1>7, <2>2 DEF e
<1>8. CASE fault = "4xx"
  <2>1. e.deadline = FALSE /\ e.words = {} /\ e.numbers = <<Port, 404>>
    BY <1>8 DEF ErrorOf
  <2> HIDE DEF e
  <2>2. ClassifyPushError(e) = "http_4xx"
    BY <1>3, <2>1, SMT DEF ClassifyPushError
  <2> QED
    BY <1>8, <2>2 DEF e
<1>9. CASE fault = "5xx"
  <2>1. e.deadline = FALSE /\ e.words = {} /\ e.numbers = <<Port, 503>>
    BY <1>9 DEF ErrorOf
  <2> HIDE DEF e
  <2>2. ClassifyPushError(e) = "http_5xx"
    BY <1>3, <2>1, SMT DEF ClassifyPushError
  <2> QED
    BY <1>9, <2>2 DEF e
<1> QED
  BY <1>4, <1>5, <1>6, <1>7, <1>8, <1>9 DEF Faults

\* The reason OTLPPushFailures counts a fault under is the one that tells what happened,
\* for every endpoint whose port does not look like a status.
THEOREM ReasonsAreTrue == OtlpSpec => []ReasonNamesTheFault
<1>1. OtlpInit => ReasonNamesTheFault
  BY DEF OtlpInit, ReasonNamesTheFault
<1>2. ReasonNamesTheFault /\ [OtlpNext]_otlpVars => ReasonNamesTheFault'
  <2> SUFFICES ASSUME ReasonNamesTheFault, [OtlpNext]_otlpVars PROVE ReasonNamesTheFault'
    OBVIOUS
  <2>1. ASSUME NEW f \in flights, FlushFails(f) PROVE ReasonNamesTheFault'
    <3>1. PICK fault \in Faults : blamed' = {<<fault, ClassifyPushError(ErrorOf(fault))>>}
      BY <2>1 DEF FlushFails
    <3> DEFINE reason == ClassifyPushError(ErrorOf(fault))
               b == <<fault, reason>>
    <3>2. b[1] = fault /\ b[2] = reason /\ blamed' = {b}
      BY <3>1
    <3>3. reason = CASE b[1] = "refused" -> "network"
                     [] b[1] \in {"deadline", "slow"} -> "timeout"
                     [] b[1] = "tls" -> "tls_error"
                     [] b[1] = "4xx" -> "http_4xx"
                     [] b[1] = "5xx" -> "http_5xx"
      BY <3>2, FaultIsNamed
    <3> HIDE DEF b, reason
    <3> QED
      BY <3>2, <3>3 DEF ReasonNamesTheFault
  <2>2. CASE blamed' = {}
    BY <2>2 DEF ReasonNamesTheFault
  <2>3. CASE blamed' = blamed
    BY <2>3 DEF ReasonNamesTheFault
  <2> QED
    BY <2>1, <2>2, <2>3 DEF OtlpNext, Flight, PublishCycle, HandOver, Begin, FlushOK, Panics,
       PeriodicExport, StopSignal, WorkersDone, Drained, DrainTimesOut, Exited, otlpVars
<1> QED
  BY <1>1, <1>2, PTL DEF OtlpSpec

\* The graphs in flight are in order: none is ahead of the last one handed over, and until
\* one overtakes another the exporter's latest is at least every graph that is being
\* flushed, and is the last one once that was delivered.
GraphsInOrder ==
    /\ step.graph \in Nat /\ newest \in 0..step.graph /\ latest \in 0..newest
    /\ delivered \subseteq 1..newest
    /\ step.pc \in {"changes", "graph"} => newest < step.graph
    /\ \A f \in flights : f.kind = "graph" => f.graph \in 1..newest
    /\ ~overtaken => \A f \in flights : f.kind = "graph" /\ f.pc = "flush" => f.graph <= latest
    /\ ~overtaken /\ newest \in delivered => latest = newest /\ receiver = newest

\* A push that lands leaves the order as it is.
LEMMA LandingKeepsOrder ==
    ASSUME GraphsInOrder, NEW f \in flights, f.pc = "flush", flights' = flights \ {f},
           UNCHANGED <<step, latest, newest, overtaken>>,
           \/ UNCHANGED <<receiver, delivered>>
           \/ UNCHANGED delivered /\ receiver' = latest
           \/ f.kind = "graph" /\ receiver' = latest /\ delivered' = delivered \cup {f.graph}
    PROVE  GraphsInOrder'
<1>1. delivered' \subseteq 1..newest
  <2>1. delivered \subseteq 1..newest /\ (f.kind = "graph" => f.graph \in 1..newest)
    BY DEF GraphsInOrder
  <2> QED
    BY <2>1
<1>2. ASSUME ~overtaken, newest \in delivered' PROVE latest = newest /\ receiver' = newest
  BY <1>2, SMTT(30) DEF GraphsInOrder
<1> QED
  BY <1>1, <1>2 DEF GraphsInOrder

\* Every step of the publisher keeps the graphs in order.
LEMMA OrderStep == GraphsInOrder /\ [OtlpNext]_otlpVars => GraphsInOrder'
<1> SUFFICES ASSUME GraphsInOrder, [OtlpNext]_otlpVars PROVE GraphsInOrder'
  OBVIOUS
<1>1. CASE PublishCycle
  <2>1. step'.graph = step.graph + 1
    BY <1>1, SMTT(30) DEF PublishCycle
  <2> QED
    BY <1>1, <2>1, SMTT(30) DEF PublishCycle, GraphsInOrder
<1>2. CASE HandOver
  <2>1. /\ UNCHANGED <<latest, receiver, delivered, overtaken>> /\ step'.graph = step.graph
        /\ step.pc \in {"changes", "graph"}
        /\ step'.pc = IF step.pc = "changes" THEN "graph" ELSE "idle"
    BY <1>2 DEF HandOver
  <2>2. CASE sem < Cap
    <3> DEFINE f == [id |-> asked, kind |-> step.pc, graph |-> step.graph, pc |-> "start"]
    <3>1. /\ flights' = flights \cup {f}
          /\ newest' = IF step.pc = "graph" THEN step.graph ELSE newest
      BY <1>2, <2>2 DEF HandOver, PushOtlp
    <3>2. f.kind = step.pc /\ f.graph = step.graph /\ f.pc = "start"
      OBVIOUS
    <3> HIDE DEF f
    <3>3. CASE step.pc = "graph"
      BY <2>1, <3>1, <3>2, <3>3, SMTT(30) DEF GraphsInOrder
    <3>4. CASE step.pc # "graph"
      BY <2>1, <3>1, <3>2, <3>4 DEF GraphsInOrder
    <3> QED
      BY <3>3, <3>4
  <2>3. CASE ~(sem < Cap)
    <3>1. UNCHANGED <<flights, newest>>
      BY <1>2, <2>3 DEF HandOver, PushOtlp
    <3> QED
      BY <2>1, <3>1 DEF GraphsInOrder
  <2> QED
    BY <2>2, <2>3
<1>3. ASSUME NEW f \in flights, Begin(f) PROVE GraphsInOrder'
  <2> DEFINE g == Flushing(f)
  <2>1. /\ flights' = (flights \ {f}) \cup {g} /\ UNCHANGED <<step, receiver, newest, delivered>>
        /\ latest' = IF f.kind = "graph" THEN f.graph ELSE latest
    BY <1>3 DEF Begin, Stores
  <2>2. ~overtaken' => ~overtaken /\ ~(f.kind = "graph" /\ f.graph < latest)
    BY <1>3 DEF Begin, Stores
  <2>3. g.kind = f.kind /\ g.graph = f.graph
    BY DEF Flushing
  <2> HIDE DEF g
  <2>4. CASE f.kind = "graph"
    BY <2>1, <2>2, <2>3, <2>4, SMTT(30) DEF GraphsInOrder
  <2>5. CASE f.kind # "graph"
    BY <2>1, <2>2, <2>3, <2>5 DEF GraphsInOrder
  <2> QED
    BY <2>4, <2>5
<1>4. ASSUME NEW f \in flights, FlushOK(f) \/ FlushFails(f) \/ Panics(f) PROVE GraphsInOrder'
  <2>1. f.pc = "flush" /\ flights' = flights \ {f} /\ UNCHANGED <<step, latest, newest, overtaken>>
    BY <1>4 DEF FlushOK, FlushFails, Panics, Land
  <2>2. \/ UNCHANGED <<receiver, delivered>>
        \/ UNCHANGED delivered /\ receiver' = latest
        \/ f.kind = "graph" /\ receiver' = latest /\ delivered' = delivered \cup {f.graph}
    BY <1>4 DEF FlushOK, FlushFails, Panics
  <2> QED
    BY <2>1, <2>2, LandingKeepsOrder
<1>5. CASE PeriodicExport
  BY <1>5 DEF PeriodicExport, GraphsInOrder
<1>6. CASE UNCHANGED <<step, flights, latest, receiver, newest, delivered, overtaken>>
  BY <1>6 DEF GraphsInOrder
<1> QED
  BY <1>1, <1>2, <1>3, <1>4, <1>5, <1>6
  DEF OtlpNext, otlpVars, Flight, StopSignal, WorkersDone, Drained, DrainTimesOut, Exited

\* The collector has the last graph once its push was counted as ok, for any number of
\* concurrent pushes, whatever the order in which they land.
THEOREM CollectorIsCurrent == OtlpSpec => []ReceiverIsCurrent
<1>1. OtlpInit => GraphsInOrder
  BY SMT DEF OtlpInit, GraphsInOrder
<1>2. GraphsInOrder => ReceiverIsCurrent
  BY DEF GraphsInOrder, ReceiverIsCurrent
<1> QED
  BY <1>1, <1>2, OrderStep, PTL DEF OtlpSpec

-----------------------------------------------------------------------------
(* LogLimiter                                                              *)

\* The tracked keys that were let through from a time on.
TrackedSince(e) == {x \in Tracked : lastEmit[x] >= e}
LetThrough == {x \in WarnKeys : emitted[x] # NotSeen}

\* The types, and the cap of the map.
LimitTypeOK ==
    /\ ticks \in Nat
    /\ \A c \in Callers : caller[c].pc = "warn" => caller[c].key \in WarnKeys /\ caller[c].now \in Nat
    /\ DOMAIN caller = Callers
    /\ lastEmit \in [WarnKeys -> Nat \cup {NotSeen}] /\ emitted \in [WarnKeys -> Nat \cup {NotSeen}]
    /\ IsFiniteSet(LetThrough) /\ Cardinality(Tracked) <= MaxKeys

\* The map is right about the keys it holds, and a key that it dropped was, ever since,
\* the oldest of a full map.
MapIsRecent ==
    /\ \A k \in Tracked : lastEmit[k] = emitted[k]
    /\ \A k \in LetThrough \ Tracked : Cardinality(TrackedSince(emitted[k])) >= MaxKeys - 1

LimitInv == LimitTypeOK /\ MapIsRecent /\ CooldownHolds

\* The initial state satisfies the invariant.
LEMMA LimitStart == LimitInit => LimitInv
<1> SUFFICES ASSUME LimitInit PROVE LimitInv
  OBVIOUS
<1>1. Tracked = {} /\ LetThrough = {}
  BY DEF LimitInit, Tracked, LetThrough
<1>2. Cardinality({}) = 0 /\ IsFiniteSet({})
  BY FS_EmptySet
<1>3. LimitTypeOK
  <2>1. 0 \in Nat /\ 0 <= MaxKeys
    BY LimiterAssumption, SMT
  <2>2. DOMAIN caller = Callers /\ \A c \in Callers : caller[c].pc = "idle"
    BY DEF LimitInit, LimitIdle
  <2>3. lastEmit \in [WarnKeys -> Nat \cup {NotSeen}] /\ emitted \in [WarnKeys -> Nat \cup {NotSeen}]
    BY DEF LimitInit
  <2> QED
    BY <1>1, <1>2, <2>1, <2>2, <2>3 DEF LimitTypeOK, LimitInit
<1>4. MapIsRecent
  BY <1>1 DEF MapIsRecent
<1>5. CooldownHolds
  BY DEF LimitInit, CooldownHolds
<1> QED
  BY <1>3, <1>4, <1>5 DEF LimitInv

\* A superset has at least as many members, if it is finite.
LEMMA MoreMembers ==
    ASSUME NEW S, NEW T, IsFiniteSet(T), S \subseteq T, NEW n \in Int, Cardinality(S) >= n
    PROVE  Cardinality(T) >= n
<1>1. Cardinality(S) <= Cardinality(T) /\ Cardinality(S) \in Nat /\ Cardinality(T) \in Nat
  BY FS_Subset, FS_CardinalityType
<1> QED
  BY <1>1, SMT

\* One key less than the cap is a number.
LEMMA CapIsNumber == MaxKeys - 1 \in Int
BY LimiterAssumption, SMT

\* A number is at most itself.
LEMMA AtMostItself == \A n \in Nat : n <= n
BY SMT

\* warnEvery lets a warning through: the key is tracked and its cooldown is over, or it
\* takes a free place of the map, or that of the oldest key.
LEMMA LetThroughKeeps ==
    ASSUME LimitInv, NEW c \in Callers, Decide(c)
    PROVE  LimitInv'
<1> DEFINE k   == caller[c].key
           now == caller[c].now
<1>1. k \in WarnKeys /\ now \in Nat /\ Allowed(k, now)
  BY DEF Decide, LimitInv, LimitTypeOK
<1>2. PICK s \in Room(k) : lastEmit' = [s EXCEPT ![k] = now]
  BY DEF Decide
<1>3. /\ emitted' = [emitted EXCEPT ![k] = now]
      /\ caller' = [caller EXCEPT ![c] = LimitIdle] /\ UNCHANGED ticks
      /\ early' = [is |-> emitted[k] # NotSeen /\ now - emitted[k] < Cooldown,
                   others |-> Cardinality({x \in WarnKeys \ {k} : emitted[x] >= emitted[k]})]
  BY DEF Decide
<1> HIDE DEF k, now
<1>4. /\ lastEmit \in [WarnKeys -> Nat \cup {NotSeen}] /\ emitted \in [WarnKeys -> Nat \cup {NotSeen}]
      /\ emitted' \in [WarnKeys -> Nat \cup {NotSeen}] /\ NotSeen \notin Nat
  <2>1. lastEmit \in [WarnKeys -> Nat \cup {NotSeen}] /\ emitted \in [WarnKeys -> Nat \cup {NotSeen}]
    BY DEF LimitInv, LimitTypeOK
  <2>2. NotSeen \notin Nat
    BY SMT DEF NotSeen
  <2> QED
    BY <1>1, <1>3, <2>1, <2>2
<1>5. /\ \A x \in Tracked : lastEmit[x] = emitted[x] /\ lastEmit[x] \in Nat
      /\ Tracked \subseteq LetThrough /\ IsFiniteSet(LetThrough) /\ IsFiniteSet(Tracked)
  <2>1. \A x \in Tracked : lastEmit[x] = emitted[x] /\ lastEmit[x] \in Nat
    BY <1>4 DEF LimitInv, MapIsRecent, Tracked
  <2>2. Tracked \subseteq LetThrough /\ IsFiniteSet(LetThrough)
    BY <1>4, <2>1 DEF LimitInv, LimitTypeOK, Tracked, LetThrough
  <2> QED
    BY <2>1, <2>2, FS_Subset
<1>6. LetThrough' = LetThrough \cup {k} /\ IsFiniteSet(LetThrough')
  <2>1. LetThrough' = LetThrough \cup {k}
    BY <1>1, <1>3, <1>4 DEF LetThrough
  <2> QED
    BY <1>5, <2>1, FS_AddElement
<1>7. \A d \in Callers : caller'[d].pc = "warn" => caller'[d].key \in WarnKeys /\ caller'[d].now \in Nat
  BY <1>3 DEF LimitInv, LimitTypeOK, LimitIdle
<1>8. DOMAIN caller' = Callers /\ ticks' \in Nat
  BY <1>3 DEF LimitInv, LimitTypeOK
\* The other keys let through include those that filled the map.
<1>9. ASSUME k \notin Tracked PROVE CooldownHolds'
  <2> DEFINE others == {x \in WarnKeys \ {k} : emitted[x] >= emitted[k]}
  <2>1. SUFFICES ASSUME emitted[k] # NotSeen PROVE Cardinality(others) >= MaxKeys - 1
    BY <1>3 DEF CooldownHolds
  <2>2. k \in LetThrough \ Tracked /\ emitted[k] \in Nat
    BY <1>1, <1>4, <1>9, <2>1 DEF LetThrough
  <2>3. Cardinality(TrackedSince(emitted[k])) >= MaxKeys - 1
    BY <2>2 DEF LimitInv, MapIsRecent
  <2>4. TrackedSince(emitted[k]) \subseteq others
    BY <1>5, <1>9 DEF TrackedSince, Tracked
  <2>5. IsFiniteSet(others)
    <3>1. others \subseteq LetThrough
      BY <1>4, <2>2, SMTT(30) DEF LetThrough, NotSeen
    <3> QED
      BY <1>5, <3>1, FS_Subset
  <2> HIDE DEF others
  <2> QED
    BY <2>3, <2>4, <2>5, MoreMembers, CapIsNumber
\* What is left to show of the map once the tracked keys are known.
<1>10. ASSUME NEW T, Tracked' = T, IsFiniteSet(T), Cardinality(T) <= MaxKeys, lastEmit' \in [WarnKeys -> Nat \cup {NotSeen}],
              \A x \in T : lastEmit'[x] = emitted'[x],
              \A j \in LetThrough' \ T : Cardinality(TrackedSince(emitted[j])') >= MaxKeys - 1,
              CooldownHolds'
       PROVE  LimitInv'
  <2>1. LimitTypeOK'
    BY <1>4, <1>6, <1>7, <1>8, <1>10 DEF LimitTypeOK
  <2>2. MapIsRecent'
    BY <1>10 DEF MapIsRecent
  <2> QED
    BY <1>10, <2>1, <2>2 DEF LimitInv
<1>11. CASE k \in Tracked
  <2>1. s = lastEmit /\ now >= lastEmit[k] + Cooldown
    BY <1>1, <1>2, <1>5, <1>11, LimiterAssumption, SMTT(30) DEF Room, Tracked, Allowed
  <2>2. Tracked' = Tracked
    BY <1>1, <1>2, <1>4, <1>11, <2>1 DEF Tracked
  <2>3. lastEmit' \in [WarnKeys -> Nat \cup {NotSeen}]
    BY <1>1, <1>2, <1>4, <2>1
  <2>4. \A x \in Tracked : lastEmit'[x] = emitted'[x]
    BY <1>1, <1>2, <1>3, <1>4, <1>5, <2>1 DEF Tracked
  <2>5. ASSUME NEW j \in LetThrough' \ Tracked PROVE Cardinality(TrackedSince(emitted[j])') >= MaxKeys - 1
    <3>1. j \in LetThrough /\ j # k /\ emitted'[j] = emitted[j] /\ emitted[j] \in Nat
      BY <1>3, <1>4, <1>6, <1>11, <2>5 DEF LetThrough
    <3>2. TrackedSince(emitted[j]) \subseteq TrackedSince(emitted[j])'
      BY <1>1, <1>2, <1>4, <1>5, <2>1, <2>2, <3>1, LimiterAssumption, SMTT(20) DEF TrackedSince, Tracked
    <3>3. IsFiniteSet(TrackedSince(emitted[j])')
      BY <1>5, <2>2, FS_Subset DEF TrackedSince
    <3>4. Cardinality(TrackedSince(emitted[j])) >= MaxKeys - 1
      BY <2>5, <3>1 DEF LimitInv, MapIsRecent
    <3> QED
      BY <3>2, <3>3, <3>4, MoreMembers, CapIsNumber
  <2>6. CooldownHolds'
    <3>1. ~(now - emitted[k] < Cooldown)
      BY <1>1, <1>4, <1>5, <1>11, <2>1, LimiterAssumption, SMTT(20)
    <3> QED
      BY <1>3, <3>1 DEF CooldownHolds
  <2>7. Cardinality(Tracked) <= MaxKeys
    BY DEF LimitInv, LimitTypeOK
  <2> QED
    BY <1>5, <1>10, <2>2, <2>3, <2>4, <2>5, <2>6, <2>7
<1>12. CASE k \notin Tracked /\ Cardinality(Tracked) < MaxKeys
  <2>1. s = lastEmit
    BY <1>2, <1>5, <1>12, FS_CardinalityType, LimiterAssumption, SMTT(20) DEF Room
  <2>2. Tracked' = Tracked \cup {k}
    BY <1>1, <1>2, <1>4, <2>1 DEF Tracked
  <2>3. lastEmit' \in [WarnKeys -> Nat \cup {NotSeen}]
    BY <1>1, <1>2, <1>4, <2>1
  <2>4. \A x \in Tracked' : lastEmit'[x] = emitted'[x]
    BY <1>1, <1>2, <1>3, <1>4, <1>5, <2>1, <2>2 DEF Tracked
  <2>5. IsFiniteSet(Tracked') /\ Cardinality(Tracked') <= MaxKeys
    <3>1. IsFiniteSet(Tracked \cup {k}) /\ Cardinality(Tracked \cup {k}) = Cardinality(Tracked) + 1
      BY <1>5, <1>12, FS_AddElement
    <3>2. Cardinality(Tracked) \in Nat
      BY <1>5, FS_CardinalityType
    <3> QED
      BY <1>12, <2>2, <3>1, <3>2, LimiterAssumption, SMTT(20)
  <2>6. ASSUME NEW j \in LetThrough' \ Tracked' PROVE Cardinality(TrackedSince(emitted[j])') >= MaxKeys - 1
    <3>1. j \in LetThrough \ Tracked /\ j # k /\ emitted'[j] = emitted[j] /\ emitted[j] \in Nat
      BY <1>3, <1>4, <1>6, <2>2, <2>6 DEF LetThrough
    <3>2. TrackedSince(emitted[j]) \subseteq TrackedSince(emitted[j])'
      BY <1>2, <1>4, <1>5, <1>12, <2>1, <2>2, <3>1 DEF TrackedSince, Tracked
    <3>3. IsFiniteSet(TrackedSince(emitted[j])')
      BY <2>5, FS_Subset DEF TrackedSince
    <3>4. Cardinality(TrackedSince(emitted[j])) >= MaxKeys - 1
      BY <3>1 DEF LimitInv, MapIsRecent
    <3> QED
      BY <3>2, <3>3, <3>4, MoreMembers, CapIsNumber
  <2> QED
    BY <1>9, <1>10, <1>12, <2>3, <2>4, <2>5, <2>6
<1>13. CASE k \notin Tracked /\ ~(Cardinality(Tracked) < MaxKeys)
  <2>1. Cardinality(Tracked) = MaxKeys
    <3>1. Cardinality(Tracked) \in Nat /\ Cardinality(Tracked) <= MaxKeys
      BY <1>5, FS_CardinalityType DEF LimitInv, LimitTypeOK
    <3> QED
      BY <1>13, <3>1, LimiterAssumption, SMTT(30)
  <2>2. PICK o \in Tracked : s = [lastEmit EXCEPT ![o] = NotSeen] /\ \A y \in Tracked : lastEmit[o] <= lastEmit[y]
    <3>1. Room(k) = evictOldestLocked(lastEmit)
      <4>1. lastEmit[k] = NotSeen
        BY <1>1, <1>13 DEF Tracked
      <4>2. Cardinality(Tracked) >= MaxKeys
        BY <2>1, LimiterAssumption, SMTT(30)
      <4> QED
        BY <4>1, <4>2 DEF Room
    <3> QED
      BY <1>2, <3>1 DEF evictOldestLocked
  <2>3. o # k /\ o \in WarnKeys
    BY <1>13 DEF Tracked
  <2>4. \A x \in WarnKeys : lastEmit'[x] = IF x = k THEN now ELSE IF x = o THEN NotSeen ELSE lastEmit[x]
    BY <1>1, <1>2, <1>4, <2>2, <2>3
  <2>5. lastEmit' \in [WarnKeys -> Nat \cup {NotSeen}]
    BY <1>1, <1>2, <1>4, <2>2
  <2>6. Tracked' = (Tracked \ {o}) \cup {k}
    BY <1>1, <1>4, <2>3, <2>4 DEF Tracked
  <2>7. \A x \in Tracked' : lastEmit'[x] = emitted'[x]
    BY <1>1, <1>3, <1>4, <1>5, <2>4, <2>6 DEF Tracked
  <2>8. IsFiniteSet(Tracked \ {o}) /\ Cardinality(Tracked \ {o}) = MaxKeys - 1
    BY <1>5, <2>1, FS_RemoveElement
  <2>9. IsFiniteSet(Tracked') /\ Cardinality(Tracked') <= MaxKeys
    BY <1>13, <2>6, <2>8, FS_AddElement, LimiterAssumption, SMTT(60)
  <2>10. ASSUME NEW j \in LetThrough' \ Tracked' PROVE Cardinality(TrackedSince(emitted[j])') >= MaxKeys - 1
    <3>1. j \in LetThrough /\ j # k /\ emitted'[j] = emitted[j] /\ emitted[j] \in Nat
      BY <1>3, <1>4, <1>6, <2>6, <2>10 DEF LetThrough
    <3>2. IsFiniteSet(TrackedSince(emitted[j])')
      BY <2>9, FS_Subset DEF TrackedSince
    \* As long as the oldest key is recent enough, so are all; else it is not missed.
    <3>3. CASE emitted[j] <= lastEmit[o]
      <4>1. Tracked \ {o} \subseteq TrackedSince(emitted[j])'
        <5>1. \A x \in Tracked \ {o} : x \in Tracked' /\ lastEmit'[x] = lastEmit[x] /\ lastEmit[x] >= emitted[j]
          <6>1. \A x \in Tracked \ {o} : x \in Tracked' /\ lastEmit'[x] = lastEmit[x] /\ lastEmit[o] <= lastEmit[x]
            BY <1>13, <2>2, <2>4, <2>6 DEF Tracked
          <6>2. \A x \in Tracked : lastEmit[x] \in Nat
            BY <1>5
          <6> QED
            <7>1. \A a, b, d \in Nat : a <= b /\ b <= d => d >= a
              BY SMTT(30)
            <7> QED
              BY <2>2, <3>1, <3>3, <6>1, <6>2, <7>1
        <5> QED
          BY <3>1, <5>1 DEF TrackedSince
      <4> QED
        <5>1. Cardinality(Tracked \ {o}) >= MaxKeys - 1
          BY <2>8, CapIsNumber, SMTT(30)
        <5> QED
          BY <3>2, <4>1, <5>1, MoreMembers, CapIsNumber
    <3>4. CASE ~(emitted[j] <= lastEmit[o])
      <4>1. j # o /\ j \notin Tracked
        <5>1. o \in Tracked /\ lastEmit[o] = emitted[o]
          BY <1>5, <2>2
        <5> QED
          BY <2>6, <2>10, <3>1, <3>4, <5>1, AtMostItself
      <4>2. Cardinality(TrackedSince(emitted[j])) >= MaxKeys - 1
        BY <3>1, <4>1 DEF LimitInv, MapIsRecent
      <4>3. TrackedSince(emitted[j]) \subseteq TrackedSince(emitted[j])'
        <5>1. \A x \in TrackedSince(emitted[j]) : x \in Tracked \ {o} /\ lastEmit[x] >= emitted[j]
          BY <1>5, <3>1, <3>4 DEF TrackedSince
        <5>2. \A x \in Tracked \ {o} : x \in Tracked' /\ lastEmit'[x] = lastEmit[x]
          BY <1>13, <2>4, <2>6 DEF Tracked
        <5> QED
          BY <3>1, <5>1, <5>2 DEF TrackedSince
      <4> QED
        BY <3>2, <4>2, <4>3, MoreMembers, CapIsNumber
    <3> QED
      BY <3>3, <3>4
  <2> QED
    BY <1>9, <1>10, <1>13, <2>5, <2>7, <2>9, <2>10
<1> QED
  BY <1>11, <1>12, <1>13

\* Every step keeps the invariant.
LEMMA LimitStep == LimitInv /\ [LimitNext]_limitVars => LimitInv'
<1> SUFFICES ASSUME LimitInv, [LimitNext]_limitVars PROVE LimitInv'
  OBVIOUS
<1>1. ASSUME NEW c \in Callers, Decide(c) PROVE LimitInv'
  BY <1>1, LetThroughKeeps
<1>2. ASSUME UNCHANGED <<lastEmit, emitted, early>>, ticks' \in Nat, DOMAIN caller' = Callers,
             \A c \in Callers : caller'[c].pc = "warn" => caller'[c].key \in WarnKeys /\ caller'[c].now \in Nat
      PROVE  LimitInv'
  <2>1. Tracked' = Tracked /\ LetThrough' = LetThrough /\ \A e : TrackedSince(e)' = TrackedSince(e)
    BY <1>2 DEF Tracked, LetThrough, TrackedSince
  <2>2. LimitTypeOK'
    BY <1>2, <2>1 DEF LimitInv, LimitTypeOK
  <2>3. MapIsRecent'
    <3>1. \A k : TrackedSince(emitted[k])' = TrackedSince(emitted[k])
      BY <1>2, <2>1 DEF TrackedSince
    <3>2. MapIsRecent
      BY DEF LimitInv
    <3> QED
      BY <1>2, <2>1, <3>1, <3>2 DEF MapIsRecent
  <2>4. CooldownHolds'
    BY <1>2 DEF LimitInv, CooldownHolds
  <2> QED
    BY <2>2, <2>3, <2>4 DEF LimitInv
<1>3. CASE TimePasses
  <2>1. ticks \in Nat /\ ticks' = ticks + 1
    BY <1>3 DEF TimePasses, LimitInv, LimitTypeOK
  <2>2. ticks' \in Nat
    BY <2>1, SMTT(30)
  <2> QED
    BY <1>2, <1>3, <2>2 DEF TimePasses, LimitInv, LimitTypeOK
<1>4. ASSUME NEW c \in Callers, Suppressed(c) PROVE LimitInv'
  BY <1>2, <1>4 DEF Suppressed, LimitInv, LimitTypeOK, LimitIdle
<1>5. ASSUME NEW c \in Callers, NEW k \in WarnKeys, Warn(c, k) PROVE LimitInv'
  BY <1>2, <1>5 DEF Warn, LimitInv, LimitTypeOK
<1>6. CASE UNCHANGED limitVars
  BY <1>2, <1>6 DEF limitVars, LimitInv, LimitTypeOK
<1> QED
  BY <1>1, <1>3, <1>4, <1>5, <1>6 DEF LimitNext, LimitDone

\* The limiter suppresses a repeated warning for its cooldown, for any callers, keys and
\* sizes of the map, unless other keys filled the map in between.
THEOREM WarningsCoolDown == LimitSpec => []CooldownHolds
<1>1. LimitInv => CooldownHolds
  BY DEF LimitInv
<1> QED
  BY <1>1, LimitStart, LimitStep, PTL DEF LimitSpec
=============================================================================
