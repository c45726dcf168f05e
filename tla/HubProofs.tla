----------------------------- MODULE HubProofs ------------------------------
(***************************************************************************)
(* The hub, its snapshot writer and the file that hubs share, for every    *)
(* set of spokes, handlers and hubs, every timeout, budget and bound.      *)
(***************************************************************************)
EXTENDS HubSnapshot, LeaseFence, SnapshotFile, FiniteSetTheorems, TLAPS

\* A leaf that names no prover is for Zenon; SMT has those with numbers or sequences.
USE ZenonT(60)

-----------------------------------------------------------------------------
(* Building and reading the records of the model.                          *)

\* A handler's local state is well typed when its five fields are.
LEMMA HandlingType ==
  ASSUME NEW pc \in Running \cup Replied, NEW id \in Spokes \cup {NoId}, NEW e \in Entry,
         NEW g \in Nat, NEW graph \in Graph
  PROVE  Handling(pc, id, e, g, graph) \in Request
BY DEF Handling, Request

\* The fields of a handler's local state.
LEMMA RequestFields ==
  ASSUME NEW q \in Request
  PROVE  /\ q.pc \in Running \cup Replied /\ q.id \in Spokes \cup {NoId} /\ q.entry \in Entry
         /\ q.gen \in Nat /\ q.graph \in Graph
BY DEF Request

\* The eviction loop's local state is well typed when its four fields are.
LEMMA EvictingType ==
  ASSUME NEW pc \in {"idle", "gated", "deleted", "admitted", "won"}, NEW now \in Time,
         NEW g \in Nat, NEW graph \in Graph
  PROVE  Evicting(pc, now, g, graph) \in Evictor
BY DEF Evicting, Evictor

\* The fields of the eviction loop's local state.
LEMMA EvictorFields ==
  ASSUME ev \in Evictor
  PROVE  /\ ev.pc \in {"idle", "gated", "deleted", "admitted", "won"}
         /\ ev.now \in Time /\ ev.gen \in Nat /\ ev.graph \in Graph
BY DEF Evictor

\* A registry entry is well typed when its two times are.
LEMMA EntryType ==
  ASSUME NEW c \in Cycle, NEW t \in Time
  PROVE  [cycleAt |-> c, lastSeen |-> t] \in Entry
BY DEF Entry

\* The zero values of the code are in their types.
LEMMA ZeroTypes ==
  /\ NoGraph \in Graph /\ Absent \in Entry /\ NoEviction \in Evictor
  /\ \A c \in Replied : Finished(c) \in Request
<1>1. 0 \in Time /\ 0 \in Cycle
  BY HubAssumption, SMT DEF Time, Cycle
<1>2. NoGraph \in Graph /\ Absent \in Entry
  BY <1>1, EntryType DEF NoGraph, Graph, Absent
<1> QED
  BY <1>1, <1>2, HandlingType, EvictingType DEF Finished, NoEviction

\* Merging a well-typed registry gives a well-typed graph.
LEMMA CombinedType ==
  ASSUME NEW sp \in [Spokes -> Entry]
  PROVE  buildCombinedGraph(sp) \in Graph
BY DEF buildCombinedGraph, Graph, Entry

-----------------------------------------------------------------------------
\* A fresh hub, with or without a restored graph, is well typed.
LEMMA HubTypeInit == Init => HubTypeOK
<1> SUFFICES ASSUME Init PROVE HubTypeOK
  OBVIOUS
<1>1. clock \in Time /\ gauge \in [Spokes -> Time] /\ topology \in Graph
  BY HubAssumption, SMT DEF Init, Time, Graph, Cycle
<1> QED
  BY <1>1, ZeroTypes, HubAssumption DEF Init, HubTypeOK, Replied

\* Every step of every goroutine keeps every field in its type.
LEMMA HubTypeStep == HubTypeOK /\ [HubNext]_hubVars => HubTypeOK'
<1> SUFFICES ASSUME HubTypeOK, [HubNext]_hubVars PROVE HubTypeOK'
  OBVIOUS
<1>0. \A r \in Requests : req[r] \in Request
  BY DEF HubTypeOK
<1>t. clock \in Nat /\ clock <= MaxTime /\ clock \in Time
  BY HubAssumption, SMT DEF HubTypeOK, Time
<1>1. ASSUME NEW r \in Requests, NEW id \in Spokes,
             NEW cycleAt \in 0..(clock + FutureSlack + 1), Receive(r, id, cycleAt)
      PROVE  HubTypeOK'
  <2>1. cycleAt \in Cycle /\ 0 \in Time
    BY <1>t, HubAssumption, SMT DEF Cycle, Time
  <2>2. Handling("gated", id, [cycleAt |-> cycleAt, lastSeen |-> 0], 0, NoGraph) \in Request
    BY <2>1, HandlingType, EntryType, ZeroTypes DEF Running
  <2>3. req' \in [Requests -> Request]
    BY <1>1, <2>2, ZeroTypes DEF HubTypeOK, Receive, Replied
  <2> QED
    BY <1>1, <2>3 DEF HubTypeOK, Receive
<1>2. ASSUME NEW r \in Requests, Validate(r) PROVE HubTypeOK'
  <2>1. req[r].entry.cycleAt \in Cycle
    BY <1>0, RequestFields DEF Entry
  <2>2. Handling("timed", req[r].id, [cycleAt |-> req[r].entry.cycleAt, lastSeen |-> clock],
                 0, NoGraph) \in Request
    BY <1>0, <1>t, <2>1, HandlingType, RequestFields, EntryType, ZeroTypes DEF Running
  <2>3. req' \in [Requests -> Request]
    BY <1>2, <2>2, ZeroTypes DEF HubTypeOK, Validate, Reply, Replied
  <2> QED
    BY <1>2, <2>3 DEF HubTypeOK, Validate
<1>3. ASSUME NEW r \in Requests, Admit(r) PROVE HubTypeOK'
  <2>1. NextGen \in Nat
    BY SMT DEF HubTypeOK, NextGen
  <2>2. buildCombinedGraph([spokes EXCEPT ![req[r].id] = req[r].entry]) \in Graph
    BY <1>0, RequestFields, CombinedType DEF HubTypeOK
  <2>3. Handling("admitted", req[r].id, req[r].entry, NextGen,
                 buildCombinedGraph([spokes EXCEPT ![req[r].id] = req[r].entry])) \in Request
    BY <1>0, <2>1, <2>2, RequestFields, HandlingType DEF Running
  <2>4. req' \in [Requests -> Request] /\ publishGen' \in Nat
    BY <1>3, <2>1, <2>3, ZeroTypes DEF HubTypeOK, Admit, Reply, Replied
  <2> QED
    BY <1>3, <2>4 DEF HubTypeOK, Admit
<1>4. ASSUME NEW r \in Requests, Publish(r) PROVE HubTypeOK'
  <2>1. /\ req[r].entry \in Entry /\ req[r].gen \in Nat /\ req[r].graph \in Graph
        /\ req[r].id \in Spokes \cup {NoId}
    BY <1>0, RequestFields
  <2>2. req[r].entry.lastSeen \in Time
    BY <2>1 DEF Entry
  <2>3. Handling("won", req[r].id, req[r].entry, req[r].gen, req[r].graph) \in Request
    BY <2>1, HandlingType DEF Running
  <2>4. req' \in [Requests -> Request]
    BY <1>4, <2>3, ZeroTypes DEF HubTypeOK, Publish, Reply, Replied
  <2> QED
    BY <1>4, <2>1, <2>2, <2>4 DEF HubTypeOK, Publish
<1>5. ASSUME NEW r \in Requests, Finish(r) \/ Abort(r) PROVE HubTypeOK'
  <2>1. req[r].graph \in Graph
    BY <1>0, RequestFields
  <2> QED
    BY <1>5, <2>1, ZeroTypes DEF HubTypeOK, Finish, Abort, Reply, Replied, writeSnapshotAsync
<1>6. ASSUME EvictTick \/ EvictFinish \/ EvictPanic PROVE HubTypeOK'
  <2>1. Evicting("gated", clock, 0, NoGraph) \in Evictor
    BY <1>t, EvictingType, ZeroTypes
  <2> QED
    BY <1>6, <2>1, ZeroTypes, EvictorFields
       DEF HubTypeOK, EvictTick, EvictFinish, EvictPanic, writeSnapshotAsync
<1>7. ASSUME EvictDelete PROVE HubTypeOK'
  <2>1. Evicting("deleted", ev.now, 0, NoGraph) \in Evictor
    BY EvictorFields, EvictingType, ZeroTypes DEF HubTypeOK
  <2>2. gauge' \in [Spokes -> Time]
    BY <1>7, HubAssumption, SMT DEF HubTypeOK, EvictDelete, DeleteSeries, Time
  <2> QED
    BY <1>7, <2>1, <2>2, ZeroTypes DEF HubTypeOK, EvictDelete
<1>8. ASSUME EvictAdmit PROVE HubTypeOK'
  <2>1. NextGen \in Nat
    BY SMT DEF HubTypeOK, NextGen
  <2>2. Evicting("admitted", ev.now, NextGen, buildCombinedGraph(spokes)) \in Evictor
    BY <2>1, EvictorFields, EvictingType, CombinedType DEF HubTypeOK
  <2> QED
    BY <1>8, <2>1, <2>2 DEF HubTypeOK, EvictAdmit
<1>9. ASSUME EvictPublish PROVE HubTypeOK'
  <2>1. Evicting("won", ev.now, ev.gen, ev.graph) \in Evictor
    BY EvictorFields, EvictingType DEF HubTypeOK
  <2> QED
    BY <1>9, <2>1, ZeroTypes, EvictorFields DEF HubTypeOK, EvictPublish
<1>10. ASSUME Tick \/ (\E v \in BOOLEAN : SetLeader(v)) PROVE HubTypeOK'
  BY <1>10, <1>t, HubAssumption, SMT DEF HubTypeOK, Tick, SetLeader, Time
<1>11. CASE UNCHANGED hubVars
  BY <1>11 DEF HubTypeOK, hubVars
<1> QED
  BY <1>1, <1>2, <1>3, <1>4, <1>5, <1>6, <1>7, <1>8, <1>9, <1>10, <1>11
     DEF HubNext, Push, Evict

\* The code's types hold in every reachable state.
THEOREM HubTypeCorrect == HubSpec => []HubTypeOK
BY HubTypeInit, HubTypeStep, PTL DEF HubSpec

-----------------------------------------------------------------------------
(* The fence: no ghost stays silently in the served graph.                 *)

\* A fresh hub satisfies the inductive invariant.
LEMMA HubInvInit == Init => HubInv
<1> SUFFICES ASSUME Init PROVE HubInv
  OBVIOUS
<1>1. \A r \in Requests : req[r].pc = "idle"
  BY DEF Init, Finished, Handling
<1>2. ev.pc = "idle" /\ ev.now = 0
  BY DEF Init, NoEviction, Evicting
<1>3. GaugeMatchesRegistry
  BY DEF Init, GaugeMatchesRegistry, Absent
<1>4. GenerationsDistinct
  BY <1>1, <1>2, SMT DEF Init, GenerationsDistinct, Holding
<1>5. HandlersSane /\ SurvivorsRegistered /\ StaleCandidatesFenced
  BY <1>1, <1>2 DEF HandlersSane, SaneHandler, SurvivorsRegistered,
     StaleCandidatesFenced, Holding, Running
<1>6. RegistryMeansLive /\ NoSilentGhost /\ ev.now <= clock
  BY <1>2, SMT DEF Init, RegistryMeansLive, NoSilentGhost, Registered
<1> QED
  BY <1>3, <1>4, <1>5, <1>6, HubTypeInit DEF HubInv
\* A step in which one handler moves without holding a candidate afterwards, and
\* in which neither the registry, the fence nor the served graph moves.
LEMMA HandlerMoves ==
  ASSUME HubInv, HubTypeOK', NEW r \in Requests,
         UNCHANGED <<clock, spokes, gauge, topology, firstLive, publishGen,
                     lastPublishedGen, rebuildPanics, ev>>,
         rebuildRefused => rebuildRefused',
         \A q \in Requests \ {r} : req'[q] = req[q],
         req'[r].pc # "admitted",
         SaneHandler(req'[r])
  PROVE  HubInv'
<1> USE DEF HubInv
<1>1. \A q \in Requests : Holding(q)' => q # r /\ Holding(q) /\ req'[q] = req[q]
  BY DEF Holding
<1>2. GaugeMatchesRegistry' /\ RegistryMeansLive' /\ SurvivorsRegistered' /\ (ev.now <= clock)'
  BY DEF GaugeMatchesRegistry, RegistryMeansLive, SurvivorsRegistered, Registered
<1>3. GenerationsDistinct'
  BY <1>1 DEF GenerationsDistinct
<1>4. HandlersSane'
  BY DEF HandlersSane
<1>5. StaleCandidatesFenced'
  BY <1>1 DEF StaleCandidatesFenced, Registered
<1>6. NoSilentGhost'
  BY DEF NoSilentGhost, Ghost, Registered
<1> QED
  BY <1>2, <1>3, <1>4, <1>5, <1>6

\* Every step of every goroutine keeps the inductive invariant.
LEMMA HubInvStep == HubInv /\ [HubNext]_hubVars => HubInv'
<1> SUFFICES ASSUME HubInv, [HubNext]_hubVars PROVE HubInv'
  OBVIOUS
<1>0. HubTypeOK'
  BY HubTypeStep DEF HubInv
<1>t. /\ publishGen \in Nat /\ lastPublishedGen \in Nat
      /\ \A q \in Requests : req[q] \in Request /\ req[q].gen \in Nat
      /\ ev.gen \in Nat /\ ev.now \in Time /\ clock \in Time
  BY RequestFields, EvictorFields DEF HubInv, HubTypeOK
<1>1. ASSUME NEW r \in Requests, NEW id \in Spokes,
             NEW cycleAt \in 0..(clock + FutureSlack + 1), Receive(r, id, cycleAt)
      PROVE  HubInv'
  <2>1. \A q \in Requests \ {r} : req'[q] = req[q]
    BY <1>1 DEF Receive, HubInv, HubTypeOK
  <2>2. req'[r].pc \in {"gated", "503"} /\ (req'[r].pc = "gated" => req'[r].id = id)
    BY <1>1 DEF Receive, HubInv, HubTypeOK, Handling, Finished
  <2> QED
    BY <1>0, <1>1, <2>1, <2>2, HandlerMoves DEF Receive, Running, SaneHandler
<1>2. ASSUME NEW r \in Requests, Validate(r) PROVE HubInv'
  <2>1. \A q \in Requests \ {r} : req'[q] = req[q]
    BY <1>2 DEF Validate, Reply, HubInv, HubTypeOK
  <2>2. req[r].id \in Spokes
    BY <1>2 DEF Validate, HubInv, HandlersSane, SaneHandler, Running
  <2>3. /\ req'[r].pc \in {"timed", "400"}
        /\ req'[r].pc = "timed" => /\ req'[r].id = req[r].id
                                   /\ req'[r].entry.cycleAt = req[r].entry.cycleAt
                                   /\ req[r].entry.cycleAt # 0
    BY <1>2, SMT DEF Validate, AcceptableCycle, Reply, HubInv, HubTypeOK, Handling, Finished
  <2> QED
    BY <1>0, <1>2, <2>1, <2>2, <2>3, HandlerMoves DEF Validate, Running, SaneHandler
<1>3. ASSUME NEW r \in Requests, Admit(r) PROVE HubInv'
  <2>1. \A q \in Requests \ {r} : req'[q] = req[q]
    BY <1>3 DEF Admit, Reply, HubInv, HubTypeOK
  <2>2. req[r].id \in Spokes /\ req[r].entry.cycleAt # 0
    BY <1>3 DEF Admit, HubInv, HandlersSane, SaneHandler, Running
  <2>3. CASE Reply(r, "429") /\ UNCHANGED publishGen
    <3>1. req'[r].pc = "429"
      BY <2>3 DEF Reply, HubInv, HubTypeOK, Handling, Finished
    <3> QED
      BY <1>0, <1>3, <2>1, <2>3, <3>1, HandlerMoves DEF Admit, Running, SaneHandler
  <2>4. CASE /\ publishGen' = NextGen
             /\ req' = [req EXCEPT ![r] = Handling("admitted", req[r].id, req[r].entry, NextGen,
                          buildCombinedGraph([spokes EXCEPT ![req[r].id] = req[r].entry]))]
    <3>1. /\ req'[r].pc = "admitted" /\ req'[r].id = req[r].id /\ req'[r].gen = publishGen + 1
          /\ req'[r].entry = req[r].entry
          /\ req'[r].graph = buildCombinedGraph([spokes EXCEPT ![req[r].id] = req[r].entry])
          /\ publishGen' = publishGen + 1
      BY <2>4 DEF HubInv, HubTypeOK, Handling, NextGen
    <3>2. \A i \in Spokes \ {req[r].id} : req'[r].graph[i] # 0 => Registered(i)
      BY <3>1, SMT DEF buildCombinedGraph, Registered, Absent, HubInv, HubTypeOK
    <3>3. UNCHANGED <<clock, spokes, gauge, topology, firstLive, lastPublishedGen,
                      rebuildRefused, rebuildPanics, ev>>
      BY <1>3 DEF Admit
    <3>4. GenerationsDistinct'
      BY <1>t, <2>1, <3>1, <3>3, SMTT(30) DEF HubInv, GenerationsDistinct, Holding
    <3>5. HandlersSane'
      <4>1. req'[r].graph[req[r].id] = req[r].entry.cycleAt
        BY <2>2, <3>1 DEF buildCombinedGraph, HubInv, HubTypeOK
      <4> QED
        BY <2>1, <2>2, <3>1, <4>1 DEF HubInv, HandlersSane, SaneHandler
    <3>6. StaleCandidatesFenced'
      BY <2>1, <3>1, <3>2, <3>3 DEF HubInv, StaleCandidatesFenced, Holding, Registered
    <3> QED
      BY <1>0, <3>3, <3>4, <3>5, <3>6
         DEF HubInv, GaugeMatchesRegistry, RegistryMeansLive, SurvivorsRegistered,
             NoSilentGhost, Ghost, Registered
  <2> QED
    BY <1>3, <2>3, <2>4 DEF Admit
<1>4. ASSUME NEW r \in Requests, Publish(r) PROVE HubInv'
  <2>1. \A q \in Requests \ {r} : req'[q] = req[q]
    BY <1>4 DEF Publish, Reply, HubInv, HubTypeOK
  <2>2. /\ req[r].id \in Spokes /\ req[r].entry.cycleAt # 0
        /\ req[r].graph[req[r].id] = req[r].entry.cycleAt
    BY <1>4 DEF Publish, HubInv, HandlersSane, SaneHandler, Running
  <2>3. CASE Stale(req[r].gen) \/ OverBudget(req[r].graph)
    <3>1. req'[r].pc \in {"409", "413"}
      BY <1>4, <2>3, SMTT(30) DEF Publish, Wins, Reply, HubInv, HubTypeOK, Handling, Finished
    <3>2. UNCHANGED <<clock, spokes, gauge, topology, firstLive, publishGen,
                      lastPublishedGen, rebuildPanics, ev>> /\ (rebuildRefused => rebuildRefused')
      BY <1>4, <2>3 DEF Publish, Wins
    <3> QED
      BY <1>0, <2>1, <3>1, <3>2, HandlerMoves DEF Running, SaneHandler
  <2>4. CASE Wins(req[r].gen, req[r].graph)
    <3>p. PICK id \in Spokes : id = req[r].id
      BY <2>2
    <3>1. /\ lastPublishedGen' = req[r].gen /\ req[r].gen > lastPublishedGen
          /\ spokes' = [spokes EXCEPT ![id] = req[r].entry]
          /\ gauge' = [gauge EXCEPT ![id] = req[r].entry.lastSeen]
          /\ firstLive' = TRUE /\ topology' = req[r].graph
          /\ UNCHANGED <<clock, publishGen, rebuildRefused, rebuildPanics, ev>>
      <4>1. /\ lastPublishedGen' = req[r].gen /\ ~Stale(req[r].gen)
            /\ spokes' = [spokes EXCEPT ![req[r].id] = req[r].entry]
            /\ gauge' = [gauge EXCEPT ![req[r].id] = req[r].entry.lastSeen]
            /\ firstLive' = TRUE /\ topology' = req[r].graph
        BY <1>4, <2>4 DEF Publish, Wins
      <4>2. UNCHANGED <<clock, publishGen, rebuildRefused, rebuildPanics, ev>>
        BY <1>4 DEF Publish
      <4>3. req[r].gen > lastPublishedGen
        BY <1>t, <4>1, SMTT(20) DEF Stale
      <4> QED
        BY <3>p, <4>1, <4>2, <4>3
    <3>2. req'[r].pc = "won" /\ req'[r].id = id
      BY <1>4, <2>4, <3>p, SMTT(30) DEF Publish, Wins, HubInv, HubTypeOK, Handling
    <3>3. \A i \in Spokes \ {id} : spokes'[i] = spokes[i] /\ gauge'[i] = gauge[i]
      BY <3>1 DEF HubInv, HubTypeOK
    <3>4. spokes'[id] = req[r].entry /\ gauge'[id] = req[r].entry.lastSeen
      BY <2>2, <3>1 DEF HubInv, HubTypeOK
    <3>5. \A i \in Spokes : Registered(i) => Registered(i)'
      BY <2>2, <3>p, <3>3, <3>4, SMTT(30) DEF Registered, Absent
    <3>6. Registered(id)'
      BY <2>2, <3>p, <3>4, SMT DEF Registered, Absent
    <3>7. GaugeMatchesRegistry'
      BY <3>3, <3>4 DEF HubInv, GaugeMatchesRegistry
    <3>8. GenerationsDistinct'
      <4>1. Holding(r) /\ ~Holding(r)'
        BY <1>4, <3>2 DEF Publish, Holding
      <4> QED
        BY <1>t, <2>1, <3>1, <4>1, SMTT(30) DEF HubInv, GenerationsDistinct, Holding
    <3>9. HandlersSane'
      <4>1. req'[r].entry = req[r].entry /\ req'[r].graph = req[r].graph
        BY <1>4, <2>4, SMT DEF Publish, Wins, HubInv, HubTypeOK, Handling
      <4> QED
        BY <2>1, <2>2, <3>2, <3>p, <4>1 DEF HubInv, HandlersSane, SaneHandler
    <3>10. SurvivorsRegistered' /\ RegistryMeansLive' /\ (ev.now <= clock)'
      BY <3>1, <3>5 DEF HubInv, SurvivorsRegistered, RegistryMeansLive
    <3>11. StaleCandidatesFenced'
      <4>1. ASSUME NEW q \in Requests, Holding(q)', NEW i \in Spokes \ {req'[q].id},
                   req'[q].graph[i] # 0, ~Registered(i)'
            PROVE  \/ req[q].gen <= lastPublishedGen
                   \/ ev.pc = "deleted"
                   \/ ev.pc = "admitted" /\ ev.gen > req[q].gen
                   \/ rebuildRefused \/ rebuildPanics
        BY <2>1, <3>2, <3>5, <4>1 DEF HubInv, StaleCandidatesFenced, Holding
      <4>2. \A q \in Requests : Holding(q)' => req'[q] = req[q]
        BY <2>1, <3>2 DEF Holding
      <4> QED
        BY <1>t, <3>1, <4>1, <4>2, SMTT(30) DEF StaleCandidatesFenced
    <3>12. NoSilentGhost'
      <4>1. Holding(r)
        BY <1>4 DEF Publish, Holding
      <4> SUFFICES ASSUME NEW i \in Spokes, Ghost(i)'
                   PROVE  (\/ ev.pc = "deleted"
                           \/ ev.pc = "admitted" /\ ev.gen > lastPublishedGen
                           \/ rebuildRefused \/ rebuildPanics)'
        BY DEF NoSilentGhost
      <4>2. i # id /\ req[r].graph[i] # 0 /\ ~Registered(i)
        BY <3>1, <3>5, <3>6 DEF Ghost
      <4> QED
        BY <1>t, <3>1, <3>p, <4>1, <4>2, SMTT(30) DEF HubInv, StaleCandidatesFenced
    <3> QED
      BY <1>0, <3>7, <3>8, <3>9, <3>10, <3>11, <3>12 DEF HubInv
  <2> QED
    BY <1>4, <2>3, <2>4 DEF Publish
<1>5. ASSUME NEW r \in Requests, Finish(r) \/ Abort(r) PROVE HubInv'
  <2>1. (\A q \in Requests \ {r} : req'[q] = req[q]) /\ req'[r].pc \in {"204", "aborted"}
    BY <1>5, SMT DEF Finish, Abort, Reply, HubInv, HubTypeOK, Handling, Finished
  <2> QED
    BY <1>0, <1>5, <2>1, HandlerMoves, SMTT(20) DEF Finish, Abort, Running, SaneHandler
<1>6. ASSUME EvictTick \/ EvictFinish PROVE HubInv'
  <2>1. ev.pc \in {"idle", "won"} /\ ev'.pc \in {"idle", "gated"} /\ ev'.now \in {0, clock}
    BY <1>6, SMT DEF EvictTick, EvictFinish, Evicting, NoEviction
  <2>2. UNCHANGED <<clock, spokes, gauge, topology, firstLive, publishGen,
                    lastPublishedGen, rebuildRefused, rebuildPanics, req>>
    BY <1>6 DEF EvictTick, EvictFinish
  <2>3. (ev.now <= clock)'
    BY <1>t, <2>1, <2>2, SMT DEF Time
  <2> QED
    BY <1>0, <2>1, <2>2, <2>3
       DEF HubInv, GaugeMatchesRegistry, GenerationsDistinct, HandlersSane, RegistryMeansLive,
           SurvivorsRegistered, StaleCandidatesFenced, NoSilentGhost, Ghost, Registered, Holding
<1>7. ASSUME EvictPanic PROVE HubInv'
  <2>1. ev'.pc = "idle" /\ ev'.now = 0 /\ rebuildPanics' = TRUE
    BY <1>7 DEF EvictPanic, Evicting, NoEviction
  <2>2. UNCHANGED <<clock, spokes, gauge, topology, firstLive, lastPublishedGen, publishGen,
                    rebuildRefused, req>>
    BY <1>7 DEF EvictPanic
  <2>3. (ev.now <= clock)'
    BY <1>t, <2>1, <2>2, SMT DEF Time
  <2> QED
    BY <1>0, <2>1, <2>2, <2>3
       DEF HubInv, GaugeMatchesRegistry, GenerationsDistinct, HandlersSane, RegistryMeansLive,
           SurvivorsRegistered, StaleCandidatesFenced, NoSilentGhost, Ghost, Registered, Holding
<1>8. ASSUME EvictDelete PROVE HubInv'
  <2> DEFINE silent == Silent(ev.now)
  <2>1. /\ \A i \in Spokes : /\ spokes'[i] = IF i \in silent THEN Absent ELSE spokes[i]
                             /\ gauge'[i] = IF i \in silent THEN 0 ELSE gauge[i]
        /\ UNCHANGED <<clock, topology, firstLive, publishGen, lastPublishedGen,
                       rebuildRefused, rebuildPanics, req>>
    BY <1>8 DEF EvictDelete, DeleteSeries
  <2>2. \A i \in Spokes : Registered(i)' <=> Registered(i) /\ i \notin silent
    BY <2>1 DEF Registered
  <2>3. ev.pc = "gated" /\ ev'.now \in {0, ev.now}
        /\ ev'.pc = IF silent = {} THEN "idle" ELSE "deleted"
    BY <1>8 DEF EvictDelete, NeedsRebuild, Evicting, NoEviction
  <2>4. GaugeMatchesRegistry'
    BY <2>1, SMT DEF HubInv, GaugeMatchesRegistry, Absent
  <2>5. GenerationsDistinct' /\ HandlersSane' /\ SurvivorsRegistered'
    BY <2>1, <2>3 DEF HubInv, GenerationsDistinct, HandlersSane, SurvivorsRegistered, Holding
  <2>6. (ev.now <= clock)'
    <3>1. ev'.now \in {0, ev.now} /\ clock' = clock /\ ev.now <= clock /\ clock \in Nat
      <4>1. ev'.now \in {0, ev.now} /\ clock' = clock
        BY <2>1, <2>3
      <4>2. ev.now <= clock /\ clock \in Nat
        BY <1>t, SMT DEF HubInv, Time
      <4> QED
        BY <4>1, <4>2
    <3> QED
      BY <3>1, SMT
  <2>7. RegistryMeansLive'
    BY <2>1, <2>2, <2>3 DEF HubInv, RegistryMeansLive, Silent
  <2>8. StaleCandidatesFenced' /\ NoSilentGhost'
    BY <2>1, <2>2, <2>3 DEF HubInv, StaleCandidatesFenced, NoSilentGhost, Ghost, Holding
  <2> QED
    BY <1>0, <2>4, <2>5, <2>6, <2>7, <2>8 DEF HubInv
<1>9. ASSUME EvictAdmit PROVE HubInv'
  <2>1. /\ ev.pc = "deleted" /\ ev'.pc = "admitted" /\ ev'.now = ev.now
        /\ ev'.gen = publishGen + 1 /\ publishGen' = publishGen + 1
        /\ ev'.graph = buildCombinedGraph(spokes)
        /\ UNCHANGED <<clock, spokes, gauge, topology, firstLive, lastPublishedGen,
                       rebuildRefused, rebuildPanics, req>>
    BY <1>9 DEF EvictAdmit, NextGen, Evicting
  <2>2. GenerationsDistinct'
    BY <1>t, <2>1, SMTT(30) DEF HubInv, GenerationsDistinct, Holding
  <2>3. SurvivorsRegistered'
    BY <2>1, SMTT(20) DEF SurvivorsRegistered, buildCombinedGraph, Registered, Absent
  <2>4. StaleCandidatesFenced'
    BY <1>t, <2>1, SMTT(20) DEF HubInv, GenerationsDistinct, StaleCandidatesFenced, Registered, Holding
  <2>5. NoSilentGhost'
    BY <1>t, <2>1, SMTT(30) DEF HubInv, GenerationsDistinct, NoSilentGhost, Ghost, Registered
  <2> QED
    BY <1>0, <2>1, <2>2, <2>3, <2>4, <2>5
       DEF HubInv, GaugeMatchesRegistry, HandlersSane, RegistryMeansLive, Registered
<1>10. ASSUME EvictPublish PROVE HubInv'
  <2>1. /\ ev.pc = "admitted"
        /\ UNCHANGED <<clock, spokes, gauge, firstLive, publishGen, rebuildPanics, req>>
    BY <1>10 DEF EvictPublish
  <2>2. CASE Wins(ev.gen, ev.graph)
    <3>1. /\ lastPublishedGen' = ev.gen /\ ev.gen > lastPublishedGen /\ topology' = ev.graph
          /\ ev'.pc = "won" /\ ev'.now = ev.now /\ UNCHANGED rebuildRefused
      <4>1. /\ lastPublishedGen' = ev.gen /\ ~Stale(ev.gen) /\ topology' = ev.graph
            /\ ev' = Evicting("won", ev.now, ev.gen, ev.graph) /\ UNCHANGED rebuildRefused
        BY <1>10, <2>2 DEF EvictPublish, Wins
      <4> QED
        BY <1>t, <4>1, SMT DEF Stale, Evicting
    <3>2. GenerationsDistinct' /\ StaleCandidatesFenced'
      <4>1. GenerationsDistinct'
        BY <1>t, <2>1, <3>1, SMTT(60) DEF HubInv, GenerationsDistinct, Holding
      <4>2. StaleCandidatesFenced'
        BY <1>t, <2>1, <3>1, SMTT(30) DEF HubInv, StaleCandidatesFenced, Registered, Holding
      <4> QED
        BY <4>1, <4>2
    <3>3. NoSilentGhost'
      BY <2>1, <3>1 DEF HubInv, SurvivorsRegistered, NoSilentGhost, Ghost, Registered
    <3> QED
      BY <1>0, <2>1, <3>1, <3>2, <3>3
         DEF HubInv, GaugeMatchesRegistry, HandlersSane, RegistryMeansLive, SurvivorsRegistered,
             Registered
  <2>3. CASE ~Wins(ev.gen, ev.graph)
    <3>r. rebuildRefused' = (rebuildRefused \/ ~Stale(ev.gen))
      BY <1>10, <2>3 DEF EvictPublish
    <3>s. (rebuildRefused => rebuildRefused') /\ (rebuildRefused' \/ Stale(ev.gen))
      BY <3>r
    <3>1. /\ UNCHANGED <<lastPublishedGen, topology>> /\ ev'.pc = "idle" /\ ev'.now = 0
          /\ (rebuildRefused => rebuildRefused') /\ (rebuildRefused' \/ ev.gen <= lastPublishedGen)
      BY <1>10, <2>3, <3>s, SMTT(20) DEF EvictPublish, Stale, Evicting, NoEviction
    <3>2. StaleCandidatesFenced' /\ NoSilentGhost'
      BY <1>t, <2>1, <3>1, SMTT(30)
         DEF HubInv, StaleCandidatesFenced, NoSilentGhost, Ghost, Registered, Holding
    <3> QED
      <4>1. GaugeMatchesRegistry' /\ HandlersSane' /\ RegistryMeansLive' /\ SurvivorsRegistered'
        BY <2>1, <3>1 DEF HubInv, GaugeMatchesRegistry, HandlersSane, RegistryMeansLive, SurvivorsRegistered,
           Registered
      <4>2. GenerationsDistinct'
        BY <2>1, <3>1 DEF HubInv, GenerationsDistinct, Holding
      <4>3. (ev.now <= clock)'
        BY <1>t, <2>1, <3>1, SMTT(30) DEF Time
      <4> QED
        BY <1>0, <3>2, <4>1, <4>2, <4>3 DEF HubInv
  <2> QED
    BY <2>2, <2>3
<1>11. ASSUME Tick \/ (\E v \in BOOLEAN : SetLeader(v)) \/ UNCHANGED hubVars PROVE HubInv'
  <2>1. /\ UNCHANGED <<spokes, gauge, topology, firstLive, publishGen, lastPublishedGen,
                       rebuildRefused, rebuildPanics, req, ev>>
        /\ clock' \in {clock, clock + 1}
    BY <1>11 DEF Tick, SetLeader, hubVars
  <2>2. (ev.now <= clock)'
    BY <1>t, <2>1, HubAssumption, SMTT(30) DEF HubInv, Time
  <2> QED
    BY <1>0, <2>1, <2>2
       DEF HubInv, GaugeMatchesRegistry, GenerationsDistinct, HandlersSane, RegistryMeansLive,
           SurvivorsRegistered, StaleCandidatesFenced, NoSilentGhost, Ghost, Registered, Holding
<1> QED
  BY <1>1, <1>2, <1>3, <1>4, <1>5, <1>6, <1>7, <1>8, <1>9, <1>10, <1>11
     DEF HubNext, Push, Evict

\* The inductive invariant holds in every reachable state.
THEOREM HubInvariant == HubSpec => []HubInv
BY HubInvInit, HubInvStep, PTL DEF HubSpec
\* publishIfWinner and evictSilentSpokes keep the liveness series and the
\* registry in step, so no spoke_up series outlives its spoke or misses it.
THEOREM GaugeMatches == HubSpec => []GaugeMatchesRegistry
<1>1. HubInv => GaugeMatchesRegistry
  BY DEF HubInv
<1> QED
  BY <1>1, HubInvariant, PTL

\* Whatever the interleaving of handlers and evictions, generations in flight
\* are distinct and unpublished.
THEOREM DistinctGenerations == HubSpec => []GenerationsDistinct
<1>1. HubInv => GenerationsDistinct
  BY DEF HubInv
<1> QED
  BY <1>1, HubInvariant, PTL

\* The generation fence is enough: after the first live push, an evicted spoke
\* is in the served graph only while its eviction is being published, or after a
\* size refusal or a panic that a counter reports.
THEOREM GhostsAreReported == HubSpec => []NoSilentGhost
<1>1. HubInv => NoSilentGhost
  BY DEF HubInv
<1> QED
  BY <1>1, HubInvariant, PTL

\* Nothing is published, and GraphStale stays 1, before the first accepted push.
THEOREM RestoredGraphStays == HubSpec => RestoredUntilLive
<1>1. HubInv /\ [HubNext]_hubVars
        => [~firstLive' => UNCHANGED <<topology, lastPublishedGen>>]_hubVars
  <2> SUFFICES ASSUME HubInv, HubNext, ~firstLive'
               PROVE  UNCHANGED <<topology, lastPublishedGen>>
    BY DEF hubVars
  <2>1. ASSUME NEW r \in Requests, Publish(r) PROVE UNCHANGED <<topology, lastPublishedGen>>
    BY <2>1 DEF Publish
  <2>2. ASSUME EvictPublish PROVE UNCHANGED <<topology, lastPublishedGen>>
    BY <2>2 DEF EvictPublish, HubInv, RegistryMeansLive
  <2> QED
    BY <2>1, <2>2 DEF HubNext, Push, Evict, Receive, Validate, Admit, Finish, Abort, EvictTick,
       EvictDelete, EvictAdmit, EvictFinish, EvictPanic, Tick, SetLeader
<1> QED
  BY <1>1, HubInvariant, PTL DEF HubSpec, RestoredUntilLive

\* A spoke is evicted only when it has been silent for longer than SpokeTimeout,
\* even when its push races the eviction tick.
THEOREM OnlySilentEvicted == HubSpec => EvictsOnlySilent
<1>1. HubInv /\ [HubNext]_hubVars =>
        [\A id \in Spokes : Registered(id) /\ ~Registered(id)' =>
             clock > spokes[id].lastSeen + SpokeTimeout]_hubVars
  <2> SUFFICES ASSUME HubInv, HubNext, NEW id \in Spokes, Registered(id), ~Registered(id)'
               PROVE  clock > spokes[id].lastSeen + SpokeTimeout
    BY DEF hubVars
  <2>0. spokes'[id] # spokes[id]
    BY DEF Registered
  <2>1. ASSUME NEW r \in Requests, Publish(r) PROVE FALSE
    <3>1. req[r].entry.cycleAt # 0 /\ req[r].id \in Spokes
      BY <2>1 DEF Publish, HubInv, HandlersSane, SaneHandler, Running
    <3>2. spokes'[id] = spokes[id] \/ spokes'[id] = req[r].entry
      BY <2>1, <3>1 DEF Publish, HubInv, HubTypeOK
    <3> QED
      BY <2>0, <3>1, <3>2, SMT DEF Registered, Absent
  <2>2. ASSUME EvictDelete PROVE clock > spokes[id].lastSeen + SpokeTimeout
    <3>1. id \in Silent(ev.now)
      BY <2>0, <2>2 DEF EvictDelete
    <3>2. ev.now > spokes[id].lastSeen + SpokeTimeout /\ ev.now <= clock
      BY <3>1 DEF Silent, HubInv
    <3>3. ev.now \in Nat /\ clock \in Nat /\ spokes[id].lastSeen \in Nat
      BY EvictorFields, HubAssumption, SMT DEF HubInv, HubTypeOK, Time, Entry
    <3> QED
      BY <3>2, <3>3, HubAssumption, SMT
  <2> QED
    BY <2>0, <2>1, <2>2 DEF HubNext, Push, Evict, Receive, Validate, Admit, Finish, Abort,
       EvictTick, EvictAdmit, EvictPublish, EvictFinish, EvictPanic, Tick, SetLeader
<1> QED
  BY <1>1, HubInvariant, PTL DEF HubSpec, EvictsOnlySilent

\* The served graph changes only to a candidate of a higher generation.
THEOREM ForwardOnly == HubSpec => PublishedOnlyForward
<1>1. HubInv /\ [HubNext]_hubVars =>
        [topology' # topology => lastPublishedGen' > lastPublishedGen]_hubVars
  <2> SUFFICES ASSUME HubInv, HubNext, topology' # topology
               PROVE  lastPublishedGen' > lastPublishedGen
    BY DEF hubVars
  <2>0. lastPublishedGen \in Nat /\ ev.gen \in Nat /\ \A r \in Requests : req[r].gen \in Nat
    BY RequestFields, EvictorFields DEF HubInv, HubTypeOK
  <2>1. ASSUME NEW r \in Requests, Publish(r) PROVE lastPublishedGen' > lastPublishedGen
    <3>1. ~Stale(req[r].gen) /\ lastPublishedGen' = req[r].gen
      BY <2>1 DEF Publish, Wins
    <3> QED
      BY <2>0, <3>1, SMT DEF Stale
  <2>2. ASSUME EvictPublish PROVE lastPublishedGen' > lastPublishedGen
    <3>1. ~Stale(ev.gen) /\ lastPublishedGen' = ev.gen
      BY <2>2 DEF EvictPublish, Wins
    <3> QED
      BY <2>0, <3>1, SMT DEF Stale
  <2> QED
    BY <2>1, <2>2 DEF HubNext, Push, Evict, Receive, Validate, Admit, Finish, Abort, EvictTick,
       EvictDelete, EvictAdmit, EvictFinish, EvictPanic, Tick, SetLeader
<1> QED
  BY <1>1, HubInvariant, PTL DEF HubSpec, PublishedOnlyForward

-----------------------------------------------------------------------------
(* The snapshot writer                                                     *)

\* At most one graph is queued and one write runs, the one the writer started last.
OneOfEach ==
    /\ \A g, h \in snapshotCh : g = h
    /\ \A v, w \in writes : v = w
    /\ \A w \in writes : w.id = writer.done /\ writer.done # 0

\* Whatever is on its way to the file has been served.
OnTheWay ==
    /\ topology \in everServed /\ disk \in everServed
    /\ snapshotCh \subseteq everServed
    /\ \A w \in writes : w.graph \in everServed
    /\ \A r \in Requests : req[r].pc = "won" => req[r].graph \in everServed
    /\ ev.pc = "won" => ev.graph \in everServed

SnapInv == HubTypeOK /\ SnapTypeOK /\ OneOfEach /\ OnTheWay

\* A fresh hub has nothing on its way and serves what the file holds.
LEMMA SnapStart == SnapInit => SnapInv
<1> SUFFICES ASSUME SnapInit PROVE SnapInv
  OBVIOUS
<1>1. HubTypeOK
  BY HubTypeInit DEF SnapInit
<1>2. SnapTypeOK
  BY <1>1 DEF SnapInit, SnapTypeOK, WriterIdle, HubTypeOK
<1>3. OneOfEach
  BY DEF SnapInit, Init, OneOfEach
<1>4. OnTheWay
  BY DEF SnapInit, Init, OnTheWay, Finished, Handling, NoEviction, Evicting
<1> QED
  BY <1>1, <1>2, <1>3, <1>4 DEF SnapInv

\* What a step of the hub hands over is a graph its goroutine has published.
LEMMA HubHandsOver ==
    ASSUME SnapInv, HubNext
    PROVE  /\ \A g \in snapshotCh' : g \in everServed
           /\ \A g, h \in snapshotCh' : g = h
           /\ \A r \in Requests : req'[r].pc = "won" => req'[r].graph \in everServed \cup {topology'}
           /\ ev'.pc = "won" => ev'.graph \in everServed \cup {topology'}
<1> USE DEF SnapInv, OneOfEach, OnTheWay
<1>0. /\ \A c : Finished(c).pc = c
      /\ \A pc, id, e, g, x : Handling(pc, id, e, g, x).pc = pc /\ Handling(pc, id, e, g, x).graph = x
      /\ \A pc, n, g, x : Evicting(pc, n, g, x).pc = pc /\ Evicting(pc, n, g, x).graph = x
      /\ NoEviction.pc = "idle"
  BY DEF Finished, Handling, Evicting, NoEviction
<1>1. ASSUME NEW r \in Requests, NEW q, req' = [req EXCEPT ![r] = q],
             q.pc = "won" => q.graph \in everServed \cup {topology'}
      PROVE  \A p \in Requests : req'[p].pc = "won" => req'[p].graph \in everServed \cup {topology'}
  BY <1>1 DEF HubTypeOK
<1>2. ASSUME NEW x \in everServed, writeSnapshotAsync(x)
      PROVE  (\A g \in snapshotCh' : g \in everServed) /\ \A g, h \in snapshotCh' : g = h
  BY <1>2 DEF writeSnapshotAsync
<1>3. ASSUME NEW r \in Requests, NEW id \in Spokes, NEW cycleAt \in 0..(clock + FutureSlack + 1),
             Receive(r, id, cycleAt)
      PROVE  /\ \E q : req' = [req EXCEPT ![r] = q] /\ q.pc # "won"
             /\ UNCHANGED <<snapshotCh, ev>>
  <2> DEFINE q == IF isLeader
                  THEN Handling("gated", id, [cycleAt |-> cycleAt, lastSeen |-> 0], 0, NoGraph)
                  ELSE Finished("503")
  <2>1. q.pc # "won"
    BY <1>0
  <2>2. req' = [req EXCEPT ![r] = q] /\ UNCHANGED <<snapshotCh, ev>>
    BY <1>3 DEF Receive
  <2> HIDE DEF q
  <2> QED
    BY <2>1, <2>2
<1>4. ASSUME NEW r \in Requests, Validate(r) \/ Admit(r) \/ Abort(r)
      PROVE  /\ \E q : req' = [req EXCEPT ![r] = q] /\ q.pc # "won"
             /\ UNCHANGED <<snapshotCh, ev>>
  <2>1. CASE Validate(r)
    <3> DEFINE go == Handling("timed", req[r].id, [cycleAt |-> req[r].entry.cycleAt, lastSeen |-> clock], 0, NoGraph)
               no == Finished("400")
    <3>0. go.pc = "timed" /\ no.pc = "400"
      BY DEF Handling, Finished
    <3>1. go.pc # "won" /\ no.pc # "won"
      BY <3>0
    <3>2. /\ req' = [req EXCEPT ![r] = go] \/ req' = [req EXCEPT ![r] = no]
          /\ UNCHANGED <<snapshotCh, ev>>
      BY <2>1 DEF Validate, Reply
    <3> HIDE DEF go, no
    <3> QED
      BY <3>1, <3>2
  <2>2. CASE Admit(r)
    <3> DEFINE go == Handling("admitted", req[r].id, req[r].entry, NextGen,
                       buildCombinedGraph([spokes EXCEPT ![req[r].id] = req[r].entry]))
               no == Finished("429")
    <3>0. go.pc = "admitted" /\ no.pc = "429"
      BY DEF Handling, Finished
    <3>1. go.pc # "won" /\ no.pc # "won"
      BY <3>0
    <3>2. /\ req' = [req EXCEPT ![r] = go] \/ req' = [req EXCEPT ![r] = no]
          /\ UNCHANGED <<snapshotCh, ev>>
      BY <2>2 DEF Admit, Reply
    <3> HIDE DEF go, no
    <3> QED
      BY <3>1, <3>2
  <2>3. CASE Abort(r)
    BY <1>0, <2>3 DEF Abort, Reply
  <2> QED
    BY <1>4, <2>1, <2>2, <2>3
<1>5. ASSUME NEW r \in Requests, Publish(r)
      PROVE  /\ \E q : req' = [req EXCEPT ![r] = q] /\ (q.pc = "won" => q.graph = topology')
             /\ UNCHANGED <<snapshotCh, ev>>
  <2> DEFINE won == Handling("won", req[r].id, req[r].entry, req[r].gen, req[r].graph)
  <2>0. won.graph = req[r].graph /\ Finished("409").pc = "409" /\ Finished("413").pc = "413"
    BY DEF Handling, Finished
  <2>1. won.graph = req[r].graph /\ Finished("409").pc # "won" /\ Finished("413").pc # "won"
    BY <2>0
  <2>2. /\ \/ req' = [req EXCEPT ![r] = won] /\ topology' = req[r].graph
           \/ req' = [req EXCEPT ![r] = Finished("409")]
           \/ req' = [req EXCEPT ![r] = Finished("413")]
        /\ UNCHANGED <<snapshotCh, ev>>
    BY <1>5 DEF Publish, Reply
  <2> HIDE DEF won
  <2> QED
    BY <2>1, <2>2
<1>6. ASSUME NEW r \in Requests, Finish(r)
      PROVE  /\ \E q : req' = [req EXCEPT ![r] = q] /\ q.pc # "won"
             /\ UNCHANGED ev /\ writeSnapshotAsync(req[r].graph) /\ req[r].graph \in everServed
  <2>1. /\ req[r].pc = "won" /\ req' = [req EXCEPT ![r] = Finished("204")]
        /\ UNCHANGED ev /\ writeSnapshotAsync(req[r].graph)
    BY <1>6 DEF Finish, Reply
  <2>0. Finished("204").pc = "204"
    BY DEF Handling, Finished
  <2>2. Finished("204").pc # "won"
    BY <2>0
  <2>3. req[r].graph \in everServed
    BY <2>1
  <2> QED
    BY <2>1, <2>2, <2>3
<1>7. CASE EvictTick \/ EvictDelete \/ EvictAdmit \/ EvictPanic
  <2>1. UNCHANGED <<snapshotCh, req>> /\ ev'.pc # "won"
    BY <1>0, <1>7, SMTT(30) DEF EvictTick, EvictDelete, EvictAdmit, EvictPanic
  <2> QED
    BY <2>1
<1>8. CASE EvictPublish
  <2>1. UNCHANGED <<snapshotCh, req>> /\ (ev'.pc = "won" => ev'.graph = topology')
    BY <1>0, <1>8, SMTT(30) DEF EvictPublish
  <2> QED
    BY <2>1
<1>9. CASE EvictFinish
  <2>1. UNCHANGED req /\ ev'.pc # "won" /\ writeSnapshotAsync(ev.graph) /\ ev.graph \in everServed
    BY <1>0, <1>9 DEF EvictFinish
  <2> QED
    BY <1>2, <2>1
<1>10. CASE Tick \/ \E v \in BOOLEAN : SetLeader(v)
  <2>1. UNCHANGED <<snapshotCh, req, ev>>
    BY <1>10 DEF Tick, SetLeader
  <2> QED
    BY <2>1
<1>11. ASSUME NEW r \in Requests, Push(r)
       PROVE  /\ \A g \in snapshotCh' : g \in everServed
              /\ \A g, h \in snapshotCh' : g = h
              /\ \A p \in Requests : req'[p].pc = "won" => req'[p].graph \in everServed \cup {topology'}
              /\ ev' = ev
  BY <1>1, <1>2, <1>3, <1>4, <1>5, <1>6, <1>11 DEF Push
<1> QED
  BY <1>7, <1>8, <1>9, <1>10, <1>11 DEF HubNext, Evict

\* Every step of the hub, the writer, a write and a restart keeps the invariant.
LEMMA SnapStep == SnapInv /\ [SnapNext]_allVars => SnapInv'
<1> SUFFICES ASSUME SnapInv, [SnapNext]_allVars PROVE SnapInv'
  OBVIOUS
<1>1. CASE HubStep
  <2>1. HubTypeOK'
    BY <1>1, HubTypeStep DEF HubStep, SnapInv
  <2>2. UNCHANGED <<writer, writes, failures, disk>> /\ everServed' = everServed \cup {topology'}
    BY <1>1 DEF HubStep
  <2>3. drops' \in BOOLEAN
    BY <1>1 DEF HubStep
  <2>4. SnapTypeOK'
    BY <2>2, <2>3 DEF SnapInv, SnapTypeOK
  <2>5. HubNext
    BY <1>1 DEF HubStep
  <2>6. OneOfEach'
    BY <2>2, <2>5, HubHandsOver DEF SnapInv, OneOfEach
  <2>7. OnTheWay'
    BY <2>2, <2>5, HubHandsOver DEF SnapInv, OnTheWay
  <2> QED
    BY <2>1, <2>4, <2>6, <2>7 DEF SnapInv
<1>2. CASE WriterReceive
  <2>1. /\ UNCHANGED <<clock, isLeader, spokes, gauge, topology, firstLive, publishGen,
                        lastPublishedGen, rebuildRefused, rebuildPanics, req, ev>>
        /\ UNCHANGED <<failures, disk, everServed>> /\ snapshotCh' = {}
    BY <1>2 DEF WriterReceive
  <2>2. HubTypeOK'
    BY <2>1 DEF SnapInv, HubTypeOK
  <2>3. CASE MayWrite
    <3>1. /\ writes' = writes \cup [id : {writer.done + 1}, graph : snapshotCh]
          /\ writer' = [pc |-> "wait", done |-> writer.done + 1] /\ UNCHANGED drops
      BY <1>2, <2>3 DEF WriterReceive
    <3>2. writer.done \in Nat /\ snapshotCh \subseteq Graph
      BY DEF SnapInv, SnapTypeOK, HubTypeOK
    <3>3. writes = {}
      BY <2>3 DEF SnapInv, OneOfEach, MayWrite, InFlight
    <3>4. \A w \in writes' : w.id = writer.done + 1 /\ w.graph \in snapshotCh
                              /\ w = [id |-> writer.done + 1, graph |-> w.graph]
      BY <3>1, <3>3, SMT
    <3>5. SnapTypeOK'
      <4>1. writer' \in [pc : {"recv", "wait"}, done : Nat]
        BY <3>1, <3>2, SMTT(30)
      <4>2. writes' \subseteq [id : Nat, graph : Graph]
        BY <3>1, <3>2, <3>3, SMTT(30)
      <4> QED
        BY <2>1, <3>1, <4>1, <4>2 DEF SnapInv, SnapTypeOK
    <3>6. OneOfEach'
      <4>1. \A v, w \in writes' : v.graph = w.graph
        BY <3>4 DEF SnapInv, OneOfEach
      <4>2. \A v, w \in writes' : v = w
        BY <3>4, <4>1
      <4>3. writer'.done = writer.done + 1 /\ writer.done + 1 # 0
        BY <3>1, <3>2, SMT
      <4> QED
        BY <2>1, <3>4, <4>2, <4>3 DEF OneOfEach
    <3>7. OnTheWay'
      BY <2>1, <3>4 DEF SnapInv, OnTheWay
    <3> QED
      BY <2>2, <3>5, <3>6, <3>7 DEF SnapInv
  <2>4. CASE ~MayWrite
    <3>1. UNCHANGED <<writes, writer>> /\ drops' = TRUE
      BY <1>2, <2>4 DEF WriterReceive
    <3> QED
      BY <2>1, <2>2, <3>1 DEF SnapInv, SnapTypeOK, OneOfEach, OnTheWay
  <2> QED
    BY <2>3, <2>4
<1>3. CASE WriterWaited
  <2>1. UNCHANGED <<hubVars, writes, drops, failures, disk, everServed>>
        /\ writer' = [pc |-> "recv", done |-> writer.done]
    BY <1>3 DEF WriterWaited
  <2>2. writer'.done = writer.done /\ writer' \in [pc : {"recv", "wait"}, done : Nat]
    BY <2>1 DEF SnapInv, SnapTypeOK
  <2> QED
    BY <2>1, <2>2 DEF SnapInv, HubTypeOK, SnapTypeOK, OneOfEach, OnTheWay, hubVars
<1>4. ASSUME NEW w \in writes, WriteEnds(w) PROVE SnapInv'
  <2>1. /\ UNCHANGED <<hubVars, writer, drops, everServed>> /\ writes' \subseteq writes
        /\ disk' \in {disk, w.graph}
    BY <1>4 DEF WriteEnds
  <2>2. failures' \in BOOLEAN
    BY <1>4 DEF WriteEnds, SnapInv, SnapTypeOK
  <2>3. w.graph \in Graph
    BY DEF SnapInv, SnapTypeOK
  <2>4. SnapTypeOK'
    BY <2>1, <2>2, <2>3 DEF SnapInv, SnapTypeOK
  <2>5. HubTypeOK'
    BY <2>1 DEF SnapInv, HubTypeOK, hubVars
  <2>6. OneOfEach' /\ OnTheWay'
    BY <2>1 DEF SnapInv, OneOfEach, OnTheWay, hubVars
  <2> QED
    BY <2>4, <2>5, <2>6 DEF SnapInv
<1>5. CASE Crash
  <2>1. HubTypeOK'
    <3>1. /\ spokes' \in [Spokes -> Entry] /\ req' \in [Requests -> Request] /\ ev' \in Evictor
      BY <1>5, ZeroTypes DEF Crash, Replied
    <3>2. gauge' \in [Spokes -> Time] /\ clock' \in Time /\ topology' \in Graph
      BY <1>5, HubAssumption, SMTT(30) DEF Crash, SnapInv, SnapTypeOK, HubTypeOK, Time
    <3> QED
      BY <1>5, <3>1, <3>2 DEF Crash, HubTypeOK
  <2>2. SnapTypeOK'
    BY <1>5 DEF Crash, SnapInv, SnapTypeOK, WriterIdle
  <2>3. OneOfEach'
    BY <1>5 DEF Crash, OneOfEach
  <2>4. OnTheWay'
    BY <1>5 DEF Crash, SnapInv, OnTheWay, Finished, Handling, NoEviction, Evicting
  <2> QED
    BY <2>1, <2>2, <2>3, <2>4 DEF SnapInv
<1>6. CASE UNCHANGED allVars
  BY <1>6 DEF SnapInv, HubTypeOK, SnapTypeOK, OneOfEach, OnTheWay, allVars, hubVars, snapVars
<1> QED
  BY <1>1, <1>2, <1>3, <1>4, <1>5, <1>6 DEF SnapNext, Writer

\* Every reachable state of the hub and its writer satisfies the invariant.
THEOREM SnapInvariant == SnapSpec => []SnapInv
  BY SnapStart, SnapStep, PTL DEF SnapSpec

\* The types of runSnapshotWriter's state.
THEOREM SnapTypeCorrect == SnapSpec => []SnapTypeOK
<1>1. SnapInv => SnapTypeOK
  BY DEF SnapInv
<1> QED
  BY <1>1, SnapInvariant, PTL

\* However the writer's timeout and the write goroutines interleave, no two writes of
\* runSnapshotWriter run at once.
THEOREM WritesExclude == SnapSpec => []OneWriteAtATime
<1>1. SnapInv => OneWriteAtATime
  <2> SUFFICES ASSUME SnapInv PROVE OneWriteAtATime
    OBVIOUS
  <2>1. CASE writes = {}
    BY <2>1, FS_EmptySet, SMTT(30) DEF OneWriteAtATime
  <2>2. CASE writes # {}
    <3>1. PICK w \in writes : TRUE
      BY <2>2
    <3>2. writes = {w}
      BY <3>1 DEF SnapInv, OneOfEach
    <3>3. Cardinality({w}) = 1
      BY FS_Singleton
    <3> QED
      BY <3>2, <3>3, SMT DEF OneWriteAtATime
  <2> QED
    BY <2>1, <2>2
<1> QED
  BY <1>1, SnapInvariant, PTL

\* What a restarted hub finds in the file was served, whatever was dropped, failed or
\* cut short by the crash.
THEOREM RestoredWasServed == SnapSpec => []DiskWasServed
<1>1. SnapInv => DiskWasServed
  BY DEF SnapInv, OnTheWay, DiskWasServed
<1> QED
  BY <1>1, SnapInvariant, PTL

-----------------------------------------------------------------------------
(* The lease fence: it never refuses the hub that leads.                   *)

\* What relates epochs, files and the Lease: nothing carries an epoch ahead of
\* LeaderTransitions, no tenure is, a leader that read its epoch carries at least its
\* own tenure, and the holder that did carries the transition of the Lease.
FenceInv ==
    /\ FenceTypeOK
    /\ \A h \in Hubs : epoch[h] <= lease.transitions /\ write[h].epoch <= lease.transitions
    /\ file.epoch <= lease.transitions
    /\ \A h \in Hubs : tenure[h] <= lease.transitions
    /\ \A h \in Hubs : elector[h] = "leading" => epoch[h] >= tenure[h]
    /\ \A h \in Hubs : lease.holder = h /\ lease.held /\ elector[h] = "leading"
                          => epoch[h] = lease.transitions

\* The initial state satisfies the invariant.
LEMMA FenceStart == FenceInit => FenceInv
BY LeaseAssumption, SMT DEF FenceInit, FenceInv, FenceTypeOK, Term, NoWrite

\* Every step keeps the types.
LEMMA FenceTypeStep == FenceTypeOK /\ [FenceNext]_fenceVars => FenceTypeOK'
<1> SUFFICES ASSUME FenceTypeOK, [FenceNext]_fenceVars PROVE FenceTypeOK'
  OBVIOUS
<1> USE LeaseAssumption DEF FenceTypeOK, Term
<1>1. ASSUME NEW h \in Hubs, Acquire(h) PROVE FenceTypeOK'
  BY <1>1 DEF Acquire
<1>2. ASSUME Expire PROVE FenceTypeOK'
  BY <1>2 DEF Expire
<1>3. ASSUME NEW h \in Hubs, ReadEpoch(h) PROVE FenceTypeOK'
  <2>1. epoch' \in [Hubs -> Term]
    <3>1. CurrentEpoch(h) \in Term /\ EpochAfterError(h) \in Term
      BY DEF CurrentEpoch, EpochAfterError
    <3>2. \/ epoch' = [epoch EXCEPT ![h] = CurrentEpoch(h)]
          \/ epoch' = [epoch EXCEPT ![h] = EpochAfterError(h)]
      BY <1>3 DEF ReadEpoch
    <3> HIDE DEF Term
    <3> QED
      BY <3>1, <3>2
  <2>2. elector' \in [Hubs -> {"follower", "reading", "leading", "blind"}]
    BY <1>3, SMTT(30) DEF ReadEpoch
  <2> QED
    BY <1>3, <2>1, <2>2 DEF ReadEpoch
<1>4. ASSUME NEW h \in Hubs, StopLeading(h) PROVE FenceTypeOK'
  BY <1>4 DEF StopLeading
<1>5. ASSUME NEW h \in Hubs, Restart(h) PROVE FenceTypeOK'
  <2>1. epoch' \in [Hubs -> Term] /\ queue' \in [Hubs -> SUBSET Term]
    BY <1>5, SMT DEF Restart
  <2>2. elector' \in [Hubs -> {"follower", "reading", "leading", "blind"}]
    BY <1>5 DEF Restart
  <2>3. write' \in [Hubs -> [pc : {"idle", "passed"}, epoch : Term, tenure : Term]]
    BY <1>5, SMT DEF Restart, NoWrite
  <2>4. lease' \in [holder : Hubs \cup {NoHub}, held : BOOLEAN, created : BOOLEAN,
                     transitions : Term]
    <3>1. \/ UNCHANGED lease
          \/ lease' = [holder |-> NoHub, held |-> FALSE, created |-> TRUE,
                       transitions |-> lease.transitions]
      BY <1>5 DEF Restart
    <3>2. lease.transitions \in Term
      OBVIOUS
    <3>3. [holder |-> NoHub, held |-> FALSE, created |-> TRUE, transitions |-> lease.transitions]
            \in [holder : Hubs \cup {NoHub}, held : BOOLEAN, created : BOOLEAN,
                 transitions : Term]
      BY <3>2
    <3> QED
      BY <3>1, <3>3
  <2> QED
    BY <1>5, <2>1, <2>2, <2>3, <2>4 DEF Restart
<1>6. ASSUME NEW h \in Hubs, PublishGraph(h) PROVE FenceTypeOK'
  BY <1>6, SMTT(30) DEF PublishGraph
<1>7. ASSUME NEW h \in Hubs, BeginWrite(h) PROVE FenceTypeOK'
  BY <1>7, SMTT(20) DEF BeginWrite, NoWrite
<1>8. ASSUME NEW h \in Hubs, EndWrite(h) PROVE FenceTypeOK'
  BY <1>8, SMT DEF EndWrite, NoWrite
<1>9. CASE UNCHANGED fenceVars
  BY <1>9 DEF fenceVars
<1> QED
  BY <1>1, <1>2, <1>3, <1>4, <1>5, <1>6, <1>7, <1>8, <1>9 DEF FenceNext

\* The epochs and tenures are numbers.
LEMMA FenceNumbers ==
    ASSUME FenceTypeOK
    PROVE  /\ lease.transitions \in Nat /\ file.epoch \in Nat
           /\ \A g \in Hubs : epoch[g] \in Nat /\ tenure[g] \in Nat /\ write[g].epoch \in Nat
<1>1. Term \subseteq Nat
  BY SMT DEF Term
<1>2. /\ lease.transitions \in Term /\ file.epoch \in Term
      /\ \A g \in Hubs : epoch[g] \in Term /\ tenure[g] \in Term /\ write[g].epoch \in Term
  BY DEF FenceTypeOK
<1> QED
  BY <1>1, <1>2

\* Every step keeps the invariant.
LEMMA FenceStep == FenceInv /\ [FenceNext]_fenceVars => FenceInv'
<1> SUFFICES ASSUME FenceInv, [FenceNext]_fenceVars PROVE FenceInv'
  OBVIOUS
<1>0. FenceTypeOK' /\ FenceTypeOK
  BY FenceTypeStep DEF FenceInv
<1>n. /\ lease.transitions \in Nat /\ file.epoch \in Nat
      /\ \A g \in Hubs : epoch[g] \in Nat /\ tenure[g] \in Nat /\ write[g].epoch \in Nat
  BY <1>0, FenceNumbers
<1>o. /\ \A a \in Nat : 0 <= a /\ a <= a
      /\ \A a, b, c \in Nat : a <= b /\ b <= c => a <= c
  BY SMT
<1> USE DEF FenceInv
<1>1. ASSUME NEW h \in Hubs, Acquire(h) PROVE FenceInv'
  <2>1. lease' = [holder |-> h, held |-> TRUE, created |-> TRUE, transitions |-> NextTransitions(h)]
    BY <1>1 DEF Acquire
  <2>2. NextTransitions(h) \in Nat /\ lease.transitions <= NextTransitions(h)
    BY <1>n, SMT DEF NextTransitions
  <2>0. lease'.holder = h /\ lease'.transitions = NextTransitions(h)
    BY <2>1
  <2>3. lease'.holder = h /\ lease'.transitions \in Nat /\ lease.transitions <= lease'.transitions
    BY <2>0, <2>2
  <2>4. /\ UNCHANGED <<epoch, write, file>>
        /\ tenure'[h] = NextTransitions(h) /\ elector'[h] = "reading"
        /\ \A g \in Hubs \ {h} : tenure'[g] = tenure[g] /\ elector'[g] = elector[g]
    <3>1. /\ UNCHANGED <<epoch, write, file>> /\ tenure' = [tenure EXCEPT ![h] = NextTransitions(h)]
          /\ elector' = [elector EXCEPT ![h] = "reading"]
      BY <1>1 DEF Acquire
    <3>2. DOMAIN tenure = Hubs /\ DOMAIN elector = Hubs
      BY <1>0 DEF FenceTypeOK
    <3> QED
      BY <3>1, <3>2
  <2>5. \A g \in Hubs : epoch'[g] <= lease'.transitions /\ write'[g].epoch <= lease'.transitions
    BY <1>n, <2>3, <2>4, SMTT(30)
  <2>6. file'.epoch <= lease'.transitions
    BY <1>n, <2>3, <2>4, SMTT(30)
  <2>7. \A g \in Hubs : tenure'[g] <= lease'.transitions
    <3>1. tenure'[h] <= lease'.transitions
      BY <1>o, <2>0, <2>3, <2>4
    <3>2. \A g \in Hubs \ {h} : tenure'[g] <= lease'.transitions
      BY <1>n, <2>3, <2>4, SMTT(30)
    <3> QED
      BY <3>1, <3>2
  <2>8. \A g \in Hubs : elector'[g] = "leading" => epoch'[g] >= tenure'[g]
    BY <2>4
  <2>9. \A g \in Hubs : lease'.holder = g /\ elector'[g] = "leading" => FALSE
    BY <2>3, <2>4
  <2> QED
    BY <1>0, <2>5, <2>6, <2>7, <2>8, <2>9
<1>2. ASSUME Expire PROVE FenceInv'
  BY <1>0, <1>2 DEF Expire
<1>3. ASSUME NEW h \in Hubs, ReadEpoch(h) PROVE FenceInv'
  <2>2. UNCHANGED <<lease, tenure, write, file>>
    BY <1>3 DEF ReadEpoch
  <2>3. \A g \in Hubs \ {h} : epoch'[g] = epoch[g] /\ elector'[g] = elector[g]
    <3>1. DOMAIN epoch = Hubs /\ DOMAIN elector = Hubs
      BY <1>0 DEF FenceTypeOK
    <3> QED
      BY <1>3, <3>1 DEF ReadEpoch
  <2>4. \/ epoch'[h] = lease.transitions /\ elector'[h] = "leading"
        \/ epoch'[h] = epoch[h] /\ elector'[h] = "blind"
    BY <1>0, <1>3 DEF ReadEpoch, CurrentEpoch, EpochAfterError, FenceTypeOK
  <2>5. \A g \in Hubs : epoch'[g] <= lease.transitions
    BY <1>n, <1>o, <2>3, <2>4
  <2>6. \A g \in Hubs : elector'[g] = "leading" => epoch'[g] >= tenure[g]
    <3>1. lease.transitions >= tenure[h]
      BY <1>n, SMT
    <3> QED
      BY <2>3, <2>4, <3>1
  <2>7. \A g \in Hubs : lease.holder = g /\ lease.held /\ elector'[g] = "leading"
                           => epoch'[g] = lease.transitions
    BY <2>3, <2>4
  <2> QED
    BY <1>0, <2>2, <2>5, <2>6, <2>7
<1>4. ASSUME NEW h \in Hubs, StopLeading(h) PROVE FenceInv'
  <2>1. /\ UNCHANGED <<lease, tenure, epoch, write, file>>
        /\ \A g \in Hubs : elector'[g] = "leading" => elector[g] = "leading"
    BY <1>0, <1>4 DEF StopLeading, FenceTypeOK
  <2> QED
    BY <1>0, <2>1
<1>5. ASSUME NEW h \in Hubs, Restart(h) PROVE FenceInv'
  <2>1. /\ UNCHANGED <<tenure, file>> /\ elector'[h] = "follower" /\ epoch'[h] = 0 /\ write'[h] = NoWrite
        /\ \A g \in Hubs \ {h} : elector'[g] = elector[g] /\ epoch'[g] = epoch[g] /\ write'[g] = write[g]
    <3>1. /\ UNCHANGED <<tenure, file>> /\ elector' = [elector EXCEPT ![h] = "follower"]
          /\ epoch' = [epoch EXCEPT ![h] = 0] /\ write' = [write EXCEPT ![h] = NoWrite]
      BY <1>5 DEF Restart
    <3>2. DOMAIN elector = Hubs /\ DOMAIN epoch = Hubs /\ DOMAIN write = Hubs
      BY <1>0 DEF FenceTypeOK
    <3> QED
      BY <3>1, <3>2
  <2>2. \/ UNCHANGED lease
        \/ lease' = [holder |-> NoHub, held |-> FALSE, created |-> TRUE, transitions |-> lease.transitions]
    BY <1>5 DEF Restart
  <2>3. lease'.transitions = lease.transitions /\ (lease'.held = FALSE \/ UNCHANGED lease)
    BY <2>2, SMT
  <2>0. NoWrite.epoch = 0
    BY DEF NoWrite
  <2>4. \A g \in Hubs : epoch'[g] <= lease'.transitions /\ write'[g].epoch <= lease'.transitions
    BY <1>n, <2>0, <2>1, <2>3, SMTT(30)
  <2>5. \A g \in Hubs : elector'[g] = "leading" => epoch'[g] >= tenure'[g]
    BY <2>1
  <2>6. \A g \in Hubs : lease'.holder = g /\ lease'.held /\ elector'[g] = "leading"
                           => epoch'[g] = lease'.transitions
    BY <2>1, <2>3, SMT
  <2> QED
    BY <1>0, <2>1, <2>3, <2>4, <2>5, <2>6
<1>6. ASSUME NEW h \in Hubs, PublishGraph(h) PROVE FenceInv'
  BY <1>0, <1>6 DEF PublishGraph
<1>7. ASSUME NEW h \in Hubs, BeginWrite(h) PROVE FenceInv'
  <2>1. UNCHANGED <<lease, tenure, elector, epoch, file>>
    BY <1>7 DEF BeginWrite
  <2>2. PICK t : write' = [write EXCEPT ![h] = IF Refused(epoch[h]) THEN NoWrite
                                               ELSE [pc |-> "passed", epoch |-> epoch[h], tenure |-> t]]
    BY <1>7 DEF BeginWrite
  <2>3. write'[h].epoch = 0 \/ write'[h].epoch = epoch[h]
    BY <1>0, <2>2 DEF NoWrite, FenceTypeOK
  <2>4. \A g \in Hubs \ {h} : write'[g] = write[g]
    BY <1>0, <2>2 DEF FenceTypeOK
  <2>5. \A g \in Hubs : write'[g].epoch <= lease.transitions
    BY <1>n, <1>o, <2>3, <2>4
  <2> QED
    BY <1>0, <2>1, <2>5
<1>8. ASSUME NEW h \in Hubs, EndWrite(h) PROVE FenceInv'
  <2>1. UNCHANGED <<lease, tenure, elector, epoch>> /\ write' = [write EXCEPT ![h] = NoWrite]
    BY <1>8 DEF EndWrite
  <2>2. file'.epoch = file.epoch \/ file'.epoch = write[h].epoch
    BY <1>8, SMT DEF EndWrite
  <2>3. \A g \in Hubs : write'[g].epoch = 0 \/ write'[g] = write[g]
    BY <1>0, <2>1 DEF NoWrite, FenceTypeOK
  <2>4. \A g \in Hubs : write'[g].epoch <= lease.transitions
    BY <1>n, <1>o, <2>3
  <2> QED
    BY <1>0, <2>1, <2>2, <2>4
<1>9. CASE UNCHANGED fenceVars
  BY <1>0, <1>9 DEF fenceVars
<1> QED
  BY <1>1, <1>2, <1>3, <1>4, <1>5, <1>6, <1>7, <1>8, <1>9 DEF FenceNext

\* snapshot.Write never refuses the hub that holds the Lease and read its epoch,
\* for any number of hubs, stalls, restarts and failed reads.
THEOREM LeaderIsNotFenced == FenceSpec => []HolderNotRefused
<1>1. FenceInv => HolderNotRefused
  BY SMTT(30) DEF FenceInv, FenceTypeOK, Term, HolderNotRefused, Refused
<1> QED
  BY <1>1, FenceStart, FenceStep, PTL DEF FenceSpec

\* The types of the election and of the fence hold in every reachable state.
THEOREM FenceTypeCorrect == FenceSpec => []FenceTypeOK
<1>1. FenceInv => FenceTypeOK
  BY DEF FenceInv
<1> QED
  BY <1>1, FenceStart, FenceStep, PTL DEF FenceSpec

\* A leader that has read the Lease fences its writes with its own transition or a
\* later one (k8sElector.CurrentEpoch).
THEOREM EpochIsCurrent == FenceSpec => []EpochCoversTenure
<1>1. FenceInv => EpochCoversTenure
  BY DEF FenceInv, EpochCoversTenure
<1> QED
  BY <1>1, FenceStart, FenceStep, PTL DEF FenceSpec

\* OnStartedLeading never lowers the fence epoch of a running hub: what it reads from
\* the Lease is not behind what it had, and a failed read keeps it.
THEOREM EpochOnlyRises == FenceSpec => EpochNeverDecreases
<1>1. FenceInv /\ [FenceNext]_fenceVars =>
        [\A h \in Hubs : epoch'[h] < epoch[h] => Restart(h)]_fenceVars
  <2> SUFFICES ASSUME FenceInv, [FenceNext]_fenceVars, NEW h \in Hubs, epoch'[h] < epoch[h]
               PROVE  Restart(h)
    OBVIOUS
  <2> USE DEF FenceInv, FenceTypeOK, Term
  <2>0. epoch[h] \in Nat
    BY FenceNumbers DEF FenceInv
  <2>1. epoch[h] \in Nat /\ ~(epoch[h] < epoch[h])
    BY <2>0, SMT
  <2>2. ~UNCHANGED epoch
    BY <2>1
  <2>3. ASSUME NEW g \in Hubs, ReadEpoch(g) PROVE FALSE
    BY <2>1, <2>3, LeaseAssumption, SMTT(30) DEF ReadEpoch, CurrentEpoch, EpochAfterError
  <2>4. ASSUME NEW g \in Hubs, Restart(g) PROVE Restart(h)
    BY <2>1, <2>4 DEF Restart
  <2> QED
    BY <2>2, <2>3, <2>4
    DEF FenceNext, fenceVars, Expire, Acquire, StopLeading, PublishGraph, BeginWrite, EndWrite
<1> QED
  BY <1>1, FenceStart, FenceStep, PTL DEF FenceSpec, EpochNeverDecreases

\* A hub with a fence epoch of its own tenure does not pass the check of Write on a
\* file that a later tenure completed.
THEOREM StaleIsRefused == FenceSpec => StaleTenureRefused
<1> DEFINE Late(h) == /\ write[h].pc = "idle" /\ write'[h].pc = "passed"
                      /\ elector[h] = "leading" /\ epoch[h] = tenure[h] /\ epoch[h] > 0
                      /\ file.epoch = file.tenure
<1>1. FenceInv /\ [FenceNext]_fenceVars =>
        [\A h \in Hubs : Late(h) => tenure[h] >= file.tenure]_fenceVars
  <2> SUFFICES ASSUME FenceInv, [FenceNext]_fenceVars, NEW h \in Hubs, Late(h)
               PROVE  tenure[h] >= file.tenure
    OBVIOUS
  <2>0. DOMAIN write = Hubs
    BY DEF FenceInv, FenceTypeOK
  <2>1. ~UNCHANGED write
    OBVIOUS
  <2>2. ASSUME NEW g \in Hubs, Restart(g) \/ EndWrite(g) PROVE FALSE
    <3>1. write' = [write EXCEPT ![g] = NoWrite]
      BY <2>2 DEF Restart, EndWrite
    <3>2. write'[h] = NoWrite \/ write'[h] = write[h]
      BY <2>0, <3>1
    <3>3. NoWrite.pc = "idle"
      BY DEF NoWrite
    <3> QED
      BY <3>2, <3>3
  <2>3. ASSUME NEW g \in Hubs, BeginWrite(g) PROVE ~Refused(epoch[h])
    <3>1. PICK t : write' = [write EXCEPT ![g] = IF Refused(epoch[g]) THEN NoWrite
                                                 ELSE [pc |-> "passed", epoch |-> epoch[g], tenure |-> t]]
      BY <2>3 DEF BeginWrite
    <3>2. g = h
      BY <2>0, <3>1
    <3> QED
      BY <2>0, <3>1, <3>2 DEF NoWrite
  <2>4. ~Refused(epoch[h])
    BY <2>1, <2>2, <2>3
    DEF FenceNext, fenceVars, Expire, Acquire, ReadEpoch, StopLeading, PublishGraph
  <2>5. epoch[h] \in Nat /\ file.epoch \in Nat
    BY FenceNumbers DEF FenceInv
  <2> QED
    BY <2>4, <2>5, SMT DEF Refused
<1> QED
  BY <1>1, FenceStart, FenceStep, PTL DEF FenceSpec, StaleTenureRefused

-----------------------------------------------------------------------------
(* The file itself                                                         *)

Texts == {NoFile, Unreadable} \cup (1..written)

\* The types of the file's state.  A text that a process quarantines is one that could
\* not be read: no text is torn, since only synced files are renamed to the path.
FileTypeOK ==
    /\ written \in 0..MaxWrites /\ acked \in 0..written
    /\ path \in Texts /\ onDisk \in Texts
    /\ temp \in [Procs -> {"none", "unsynced", "synced"}]
    /\ bad \in [Slots -> {NoFile, Unreadable}]
    /\ proc \in [Procs -> [pc : {"down", "quarantine", "remove", "running", "sync", "rename", "dirsync"},
                           read : {NoFile, Unreadable}]]
    /\ gaveUp \in BOOLEAN /\ raced \in BOOLEAN /\ power \in BOOLEAN
    /\ \A p \in Procs : At(p, "rename") => temp[p] = "synced"
    /\ \A p \in Procs : proc[p].pc \in {"quarantine", "remove"} => proc[p].read = Unreadable

\* What Write reported is at the path, and is what a power failure leaves there.
AckedIsThere ==
    acked > 0 /\ ~raced => path \in Snapshots /\ path >= acked /\ onDisk \in Snapshots /\ onDisk >= acked

InQuarantine == \E s \in Slots : bad[s] = Unreadable

\* The unread text is in quarantine as soon as any process may remove or replace it.
TextIsSafe ==
    power /\ ~gaveUp =>
      InQuarantine \/ (path = Unreadable /\ \A p \in Procs : proc[p].pc \in {"down", "quarantine"})

FileInv == FileTypeOK /\ AckedIsThere /\ TextIsSafe

\* The volume of an older build satisfies the invariant.
LEMMA FileStart == DiskInit => FileInv
<1> SUFFICES ASSUME DiskInit PROVE FileInv
  OBVIOUS
<1>1. FileTypeOK
  <2>1. /\ written \in 0..MaxWrites /\ acked \in 0..written /\ path \in Texts /\ onDisk \in Texts
    BY SnapshotAssumption, SMT DEF DiskInit, Texts
  <2>0. gaveUp \in BOOLEAN /\ raced \in BOOLEAN /\ power \in BOOLEAN
    BY DEF DiskInit
  <2>2. /\ temp \in [Procs -> {"none", "unsynced", "synced"}] /\ bad \in [Slots -> {NoFile, Unreadable}]
        /\ proc \in [Procs -> [pc : {"down", "quarantine", "remove", "running", "sync", "rename", "dirsync"},
                               read : {NoFile, Unreadable}]]
        /\ \A p \in Procs : proc[p].pc = "down"
    BY DEF DiskInit
  <2> QED
    BY <2>0, <2>1, <2>2 DEF FileTypeOK, At
<1>2. AckedIsThere /\ TextIsSafe
  BY SMT DEF DiskInit, AckedIsThere, TextIsSafe
<1> QED
  BY <1>1, <1>2 DEF FileInv

\* Every step keeps the types.
LEMMA FileTypeStep == FileTypeOK /\ [DiskNext]_diskVars => FileTypeOK'
<1> SUFFICES ASSUME FileTypeOK, [DiskNext]_diskVars PROVE FileTypeOK'
  OBVIOUS
<1> USE SnapshotAssumption DEF FileTypeOK, Texts, NoFile, Unreadable, At, Goes
<1>1. ASSUME NEW p \in Procs, Load(p) PROVE FileTypeOK'
  <2>1. gaveUp' \in BOOLEAN /\ UNCHANGED <<path, onDisk, temp, bad, written, acked, raced, power>>
    BY <1>1 DEF Load
  <2>2. path \notin {TornText}
    BY SMT DEF TornText
  <2>3. \/ proc' = [proc EXCEPT ![p] = [pc |-> "quarantine", read |-> Unreadable]]
        \/ proc' = [proc EXCEPT ![p] = [pc |-> "running", read |-> proc[p].read]]
    BY <1>1, <2>2 DEF Load
  <2>4. CASE proc' = [proc EXCEPT ![p] = [pc |-> "quarantine", read |-> Unreadable]]
    BY <2>1, <2>4, SMTT(20)
  <2>5. CASE proc' = [proc EXCEPT ![p] = [pc |-> "running", read |-> proc[p].read]]
    BY <2>1, <2>5, SMTT(20)
  <2> QED
    BY <2>3, <2>4, <2>5
<1>2. ASSUME NEW p \in Procs, Quarantine(p) PROVE FileTypeOK'
  <2>1. bad' \in [Slots -> {NoFile, Unreadable}]
    BY <1>2 DEF Quarantine
  <2>2. /\ UNCHANGED <<path, onDisk, temp, written, acked, raced, power>>
        /\ gaveUp' \in BOOLEAN
        /\ \/ proc' = [proc EXCEPT ![p] = [pc |-> "remove", read |-> proc[p].read]]
           \/ proc' = [proc EXCEPT ![p] = [pc |-> "running", read |-> proc[p].read]]
    BY <1>2 DEF Quarantine
  <2>3. proc[p].read = Unreadable
    BY <1>2 DEF Quarantine
  <2> QED
    BY <2>1, <2>2, <2>3, SMTT(30)
<1>3. ASSUME NEW p \in Procs, RemoveOriginal(p) PROVE FileTypeOK'
  BY <1>3 DEF RemoveOriginal
<1>4. ASSUME NEW p \in Procs, WriteTemp(p) \/ Sync(p) \/ WriteFails(p) PROVE FileTypeOK'
  <2>1. CASE WriteTemp(p)
    BY <2>1, SMTT(20) DEF WriteTemp
  <2>2. CASE Sync(p)
    BY <2>2, SMTT(20) DEF Sync
  <2>3. CASE WriteFails(p)
    BY <2>3, SMTT(20) DEF WriteFails
  <2> QED
    BY <1>4, <2>1, <2>2, <2>3
<1>5. ASSUME NEW p \in Procs, Rename(p) PROVE FileTypeOK'
  BY <1>5, SMTT(20) DEF Rename
<1>6. ASSUME NEW p \in Procs, SyncDir(p) PROVE FileTypeOK'
  BY <1>6, SMT DEF SyncDir, Snapshots
<1>7. ASSUME NEW p \in Procs, ProcessDies(p) PROVE FileTypeOK'
  BY <1>7 DEF ProcessDies, Dies
<1>8. CASE PowerFails
  <2>1. bad' \in [Slots -> {NoFile, Unreadable}]
    BY <1>8 DEF PowerFails
  <2> QED
    BY <1>8, <2>1 DEF PowerFails, Dies
<1>9. CASE UNCHANGED diskVars
  BY <1>9 DEF diskVars
<1> QED
  BY <1>1, <1>2, <1>3, <1>4, <1>5, <1>6, <1>7, <1>8, <1>9 DEF DiskNext

\* Every step keeps what Write reported: a rename puts a newer snapshot at the path, and
\* a removal of it is a race.
LEMMA AckedStep == FileTypeOK /\ AckedIsThere /\ [DiskNext]_diskVars => AckedIsThere'
<1> SUFFICES ASSUME FileTypeOK, AckedIsThere, [DiskNext]_diskVars PROVE AckedIsThere'
  OBVIOUS
<1> USE SnapshotAssumption DEF FileTypeOK, AckedIsThere, Texts, NoFile, Unreadable, Snapshots
<1>1. ASSUME UNCHANGED <<path, onDisk, acked, raced>> PROVE AckedIsThere'
  BY <1>1
<1>2. ASSUME NEW p \in Procs, RemoveOriginal(p) PROVE AckedIsThere'
  <2>1. proc[p].read = Unreadable /\ acked' = acked
    BY <1>2 DEF RemoveOriginal, At
  <2>2. ~raced' => ~raced /\ path \in {NoFile, proc[p].read}
    BY <1>2 DEF RemoveOriginal
  <2> QED
    BY <2>1, <2>2, SMT
<1>3. ASSUME NEW p \in Procs, Rename(p) PROVE AckedIsThere'
  BY <1>3, SMTT(20) DEF Rename, At
<1>4. ASSUME NEW p \in Procs, SyncDir(p) PROVE AckedIsThere'
  BY <1>4, SMT DEF SyncDir, TornText
<1>5. CASE PowerFails
  BY <1>5 DEF PowerFails
<1> QED
  BY <1>1, <1>2, <1>3, <1>4, <1>5
  DEF DiskNext, diskVars, Load, Quarantine, WriteTemp, Sync, WriteFails, ProcessDies

\* Every step keeps the unread text safe: the name of its copy is taken before the
\* original is removed, and nothing else clears a slot.
LEMMA TextStep == FileTypeOK /\ TextIsSafe /\ [DiskNext]_diskVars => TextIsSafe'
<1> SUFFICES ASSUME FileTypeOK, TextIsSafe, [DiskNext]_diskVars, power', ~gaveUp'
             PROVE  InQuarantine' \/ (path' = Unreadable /\ \A p \in Procs : proc'[p].pc \in {"down", "quarantine"})
  BY DEF TextIsSafe
<1> USE DEF FileTypeOK, NoFile, Unreadable, At, Goes
<1>1. ASSUME InQuarantine, UNCHANGED bad PROVE InQuarantine'
  BY <1>1 DEF InQuarantine
<1>2. ASSUME NEW p \in Procs, Load(p) PROVE TextIsSafe'
  <2>1. ~gaveUp /\ power /\ UNCHANGED <<path, bad>>
    BY <1>2 DEF Load
  <2>2. \/ proc' = [proc EXCEPT ![p] = [pc |-> "quarantine", read |-> path]]
        \/ path # Unreadable
    BY <1>2 DEF Load
  <2> QED
    BY <1>1, <2>1, <2>2, SMTT(30) DEF TextIsSafe
<1>3. ASSUME NEW p \in Procs, Quarantine(p) PROVE InQuarantine'
  <2>1. PICK s \in Slots : bad' = [bad EXCEPT ![s] = proc[p].read]
    BY <1>3 DEF Quarantine
  <2>2. proc[p].read = Unreadable
    BY <1>3 DEF Quarantine
  <2> QED
    BY <2>1, <2>2 DEF InQuarantine
<1>4. ASSUME NEW p \in Procs,
             RemoveOriginal(p) \/ WriteTemp(p) \/ Sync(p) \/ Rename(p) \/ SyncDir(p) \/ WriteFails(p)
      PROVE  InQuarantine'
  <2>1. proc[p].pc \notin {"down", "quarantine"} /\ UNCHANGED <<bad, gaveUp, power>>
    BY <1>4 DEF RemoveOriginal, WriteTemp, Sync, Rename, SyncDir, WriteFails
  <2>2. InQuarantine
    BY <2>1 DEF TextIsSafe
  <2> QED
    BY <1>1, <2>1, <2>2
<1>5. ASSUME NEW p \in Procs, ProcessDies(p) PROVE TextIsSafe'
  BY <1>1, <1>5 DEF ProcessDies, Dies, TextIsSafe
<1>6. CASE PowerFails
  BY <1>6 DEF PowerFails
<1>7. CASE UNCHANGED diskVars
  BY <1>1, <1>7 DEF diskVars, TextIsSafe
<1> QED
  BY <1>2, <1>3, <1>4, <1>5, <1>6, <1>7 DEF DiskNext, TextIsSafe

\* Every reachable state of the volume satisfies the invariant, for any number of
\* processes, slots and writes.
THEOREM FileInvariant == DiskSpec => []FileInv
  BY FileStart, FileTypeStep, AckedStep, TextStep, PTL DEF DiskSpec, FileInv

\* No failed write, death of a process or loss of power leaves a torn file at the path,
\* and none takes away a snapshot that Write reported, for any number of processes.
THEOREM WritesAreDurable == DiskSpec => []FileIsDurable
<1>1. FileInv => FileIsDurable
  BY SnapshotAssumption, SMTT(30)
  DEF FileInv, FileTypeOK, AckedIsThere, Texts, FileIsDurable, TornText, NoFile, Unreadable
<1> QED
  BY <1>1, FileInvariant, PTL

\* The text that Load could not read stays at its path or in quarantine, for any number
\* of processes that load, quarantine and write at the same time.
THEOREM TextIsNotLost == DiskSpec => []EvidenceIsKept
<1>1. FileInv => EvidenceIsKept
  BY DEF FileInv, TextIsSafe, InQuarantine, EvidenceIsKept
<1> QED
  BY <1>1, FileInvariant, PTL
=============================================================================
