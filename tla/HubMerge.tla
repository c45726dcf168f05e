------------------------------ MODULE HubMerge ------------------------------
(***************************************************************************)
(* buildCombinedGraph of internal/federation/hub_merge.go: the graphs of   *)
(* the spokes, the links between two spokes' devices that their            *)
(* out-of-scope observations reveal, and the configured links, reconciled  *)
(* into one graph.                                                         *)
(*                                                                         *)
(* A device name is 4 * host + 2 * (1 with a domain suffix) + (1 in upper  *)
(* case).  Protocol 0 is the empty string.  The code ranges over maps, so  *)
(* a combined graph is one of a set.                                       *)
(***************************************************************************)
EXTENDS TopologyGraph

CONSTANTS SpokeDevices,           \* per spoke, a number in the order of the ids, the device ids it polls
          SpokeSightings,         \* per spoke, the edges its modules may observe
          SpokeBoundary,          \* per spoke, the out-of-scope neighbours it may report
          KnownInterDomainLinks,  \* configured links, as edges
          Configured,             \* the protocol of a configured link
          MaxReports              \* bound: sightings of a spoke

\* An out-of-scope neighbour: seen by a device on a port, under the name it gives itself.
NeighbourRecord == [device : Nat, port : Nat, hint : Nat, proto : Nat]

ASSUME MergeAssumption ==
    /\ IsFiniteSet(DOMAIN SpokeDevices)
    /\ SpokeSightings \in [DOMAIN SpokeDevices -> SUBSET EdgeRecord]
    /\ SpokeBoundary \in [DOMAIN SpokeDevices -> SUBSET NeighbourRecord]
    /\ KnownInterDomainLinks \subseteq EdgeRecord /\ IsFiniteSet(KnownInterDomainLinks)
    /\ Configured \in Nat /\ MaxReports \in Nat

VARIABLES sightings,  \* per spoke, the observations behind its payload
          outOfScope, \* per spoke, payload.OutOfScope
          loose       \* cfg.Hub.LooseDeviceNameMatching

mergeVars == <<sightings, outOfScope, loose>>

Members == DOMAIN SpokeDevices

Neighbour(device, port, hint, proto) ==
    [device |-> device, port |-> port, hint |-> hint, proto |-> proto]

MergeInit ==
    /\ sightings = [s \in Members |-> <<>>]
    /\ outOfScope = [s \in Members |-> {}]
    /\ loose \in BOOLEAN

-----------------------------------------------------------------------------
(* buildCombinedGraph                                                      *)

ToLower(n) == n - (n % 2)
normalizeDeviceName(n) == n - (n % 4)

canonicalizeDeviceName(n) == IF loose THEN normalizeDeviceName(n) ELSE ToLower(n)

appendEdgePair(s, sp, d, dp, proto, rank) ==
    <<Edge(s, sp, d, dp, proto, rank, "uni"), Edge(d, dp, s, sp, proto, rank, "uni")>>

\* The edges of a payload: the spoke has reconciled them.
PayloadEdges(s) == ReconciledEdges(sightings[s])

\* A bidirectional edge is observed once from either side.
SpokeObservations(s) ==
    SetToSeq(PayloadEdges(s)) \o SetToSeq({Reversed(e) : e \in {x \in PayloadEdges(s) : x.dir = "bi"}})

\* oosIndex under the canonical names.
OosIndex(members) ==
    {Neighbour(canonicalizeDeviceName(n.device), n.port, canonicalizeDeviceName(n.hint), n.proto) :
        n \in UNION {outOfScope[s] : s \in members}}

Answers(n, m) == m.device = n.hint /\ m.hint = n.device

\* Mutated form: one side's word is enough.
MatchesOneSided(members) ==
    {<<n, Neighbour(n.hint, 0, n.device, n.proto)>> : n \in OosIndex(members)}

\* The pairs of observations that name each other.
Matches(members) == {p \in OosIndex(members) \X OosIndex(members) : Answers(p[1], p[2])}

PortPair(p) == Key(Edge(p[1].device, p[1].port, p[2].device, p[2].port, 0, 0, "uni"))

PortPairs(members) == {PortPair(p) : p \in Matches(members)}

PairProtos(members, pair) ==
    {IF p[1].proto # 0 THEN p[1].proto ELSE p[2].proto : p \in {q \in Matches(members) : PortPair(q) = pair}}

\* visited: a port pair is taken once, with the protocol of the side the iteration
\* meets first.
ProtoChoices(members) ==
    LET pairs == PortPairs(members)
    IN  {f \in [pairs -> UNION {PairProtos(members, pp) : pp \in pairs}] :
            \A pp \in pairs : f[pp] \in PairProtos(members, pp)}

BoundaryObservations(choice) ==
    FlattenSeq(SetToSeq({appendEdgePair(k[1], k[2], k[3], k[4], choice[k], 2) : k \in DOMAIN choice}))

SeenDevices(members) == UNION {SpokeDevices[s] : s \in members}

KnownLinks(members) == {l \in KnownInterDomainLinks : {l.src, l.dst} \subseteq SeenDevices(members)}

ConfiguredObservations(members) ==
    FlattenSeq(SetToSeq({appendEdgePair(l.src, l.sp, l.dst, l.dp, Configured, 0) : l \in KnownLinks(members)}))

\* seenDevices: the first spoke in the order of the ids that has a device provides it.
CombinedDevices(members) ==
    {<<d, Min({s \in members : d \in SpokeDevices[s]})>> : d \in SeenDevices(members)}

MergedObservations(members, choice) ==
    FlattenSeq(SetToSeq({SpokeObservations(s) : s \in members}))
      \o BoundaryObservations(choice) \o ConfiguredObservations(members)

BuildCombinedGraph(members) ==
    {[devices |-> CombinedDevices(members),
      edges |-> ReconciledEdges(MergedObservations(members, choice))] : choice \in ProtoChoices(members)}

-----------------------------------------------------------------------------
(* What the spokes push                                                    *)

SpokeObserves == \E s \in Members : \E e \in SpokeSightings[s] :
    /\ Len(sightings[s]) < MaxReports
    /\ sightings' = [sightings EXCEPT ![s] = Append(@, e)]
    /\ UNCHANGED <<outOfScope, loose>>

SpokeSeesBoundary == \E s \in Members : \E n \in SpokeBoundary[s] \ outOfScope[s] :
    \* DeduplicateOOS keeps one protocol per neighbour and port
    /\ \A m \in outOfScope[s] : <<m.device, m.port, m.hint>> # <<n.device, n.port, n.hint>>
    /\ outOfScope' = [outOfScope EXCEPT ![s] = @ \cup {n}]
    /\ UNCHANGED <<sightings, loose>>

\* A payload replaces the one before it as a whole; this cycle found nothing yet.
SpokeStartsOver == \E s \in Members :
    /\ sightings[s] # <<>> \/ outOfScope[s] # {}
    /\ sightings' = [sightings EXCEPT ![s] = <<>>]
    /\ outOfScope' = [outOfScope EXCEPT ![s] = {}]
    /\ UNCHANGED loose

MergeNext == SpokeObserves \/ SpokeSeesBoundary \/ SpokeStartsOver
MergeSpec == MergeInit /\ [][MergeNext]_mergeVars

-----------------------------------------------------------------------------
(* Properties                                                              *)

\* Every link a spoke pushed is in the combined graph, and one that the spoke had
\* confirmed from both ends stays bidirectional: reconciling again loses nothing.  Every
\* other link is configured between two known devices, or joins two devices that named
\* each other as out-of-scope neighbours.
MergeIsExact ==
    LET pushed == UNION {{Key(e) : e \in PayloadEdges(s)} : s \in Members}
        says(d, h) == \E s \in Members : \E n \in outOfScope[s] :
                         canonicalizeDeviceName(n.device) = d /\ canonicalizeDeviceName(n.hint) = h
    IN  \A g \in BuildCombinedGraph(Members) :
          /\ \A s \in Members : \A e \in PayloadEdges(s) :
                \E c \in g.edges : Key(c) = Key(e) /\ (e.dir = "bi" => c.dir = "bi")
          /\ \A e \in g.edges :
                \/ Key(e) \in pushed
                \/ says(e.src, e.dst) /\ says(e.dst, e.src)
                \/ e.proto = Configured /\ \A d \in {e.src, e.dst} : \E c \in g.devices : c[1] = d
=============================================================================
