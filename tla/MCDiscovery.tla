---------------------------- MODULE MCDiscovery ----------------------------
(***************************************************************************)
(* A cycle, step by step: the rules that choose what to walk, the pooled   *)
(* sessions, the walkers, the synthesis of edges, the reconciled graph and *)
(* its ageing, the payload, the merge at the hub, and the log limiter they *)
(* share.  A behaviour is one of these parts; the others rest in an        *)
(* initial state.                                                          *)
(***************************************************************************)
EXTENDS TargetRules, SessionPool, NeighbourWalk, FdbWalk, BgpWalk, EdgeSynthesis,
        Observations, LinkLifecycle, PushPath, HubMerge, LogLimiter

VARIABLE part

(* TargetRules: overlapping networks, one with host bits set, one that allows nothing; *)
(* an exact address in its canonical spelling and one in another.                      *)
Override(l, n, m) == [len |-> l, net |-> n, modules |-> m]
MCOverrides == {Override(0, 0, {"lldp"}), Override(1, 0, {"fdb"}), Override(1, 1, {"lldp", "fdb"}),
                Override(1, 2, {"bgp"}), Override(2, 1, {"lldp"}), Override(2, 3, {})}
Assigned(l, n, p, e, c) == [len |-> l, net |-> n, profiles |-> p, exact |-> e, canonical |-> c]
MCAssignments == {Assigned(0, 0, <<"a">>, FALSE, TRUE), Assigned(1, 0, <<"b">>, FALSE, TRUE),
                  Assigned(2, 1, <<"c">>, FALSE, TRUE), Assigned(2, 1, <<"d">>, TRUE, TRUE),
                  Assigned(2, 0, <<"e">>, TRUE, FALSE)}
MCFallback == <<"f">>

(* NeighbourWalk: two neighbours behind one port, one that sends no name, one whose state *)
(* does not decode.                                                                      *)
Neighbouring(w, p, i, n, b) == [who |-> w, port |-> p, ip |-> i, named |-> n, bad |-> b]
MCNeighbours == {Neighbouring(1, 1, 1, TRUE, "none"), Neighbouring(2, 1, 2, TRUE, "none"),
                 Neighbouring(3, 2, 0, FALSE, "name"), Neighbouring(4, 2, 3, TRUE, "state")}

(* FdbWalk: bridges with one table, the other, both, VLANs that disagree, torn rows, a *)
(* port without a number, and nothing.                                                *)
Row(p, s) == [mac |-> TRUE, port |-> p, status |-> s]
On(p) == Row(p, "learned")
TornRow == [mac |-> FALSE, port |-> 1, status |-> "learned"]
Bridge(b, q, v) ==
    [b |-> b, q |-> q, vlans |-> v, blocked |-> {3}, mapped |-> {1, 2, 3}, indexed |-> TRUE]
MCBridges ==
    {Bridge(1 :> On(1), NoTable, <<2 :> On(1), 3 :> On(2), 3 :> On(1)>>),
     Bridge(NoTable, NoTable, <<2 :> On(1), 3 :> On(2), 3 :> On(1), 4 :> On(2)>>),
     Bridge(NoTable, 1 :> On(1) @@ 2 :> On(1), <<>>),
     Bridge(1 :> On(1) @@ 2 :> Row(2, "self"), 1 :> Row(2, "bad") @@ 2 :> On(2) @@ 9 :> On(1),
            <<3 :> On(4), 1 :> On(1)>>),
     Bridge(1 :> TornRow @@ 2 :> On(3), NoTable, <<1 :> On(1), 2 :> On(1)>>),
     [Bridge(1 :> On(1), NoTable, <<2 :> On(1)>>) EXCEPT !.indexed = FALSE],
     Bridge(1 :> Row(0, "learned"), NoTable, <<>>),
     Bridge(NoTable, NoTable, <<>>)}

(* BgpWalk: speakers of each vendor and of none, peers of both families, one outside the *)
(* scope, one link-local, one not established; an index cut short; an empty table.       *)
Six(a) == <<a>> \o [i \in 1..15 |-> 1]
PeerA == [ip |-> <<10, 0, 0, 1>>, state |-> 6]
PeerB == [ip |-> Six(32), state |-> 6]
PeerC == [ip |-> <<10, 0, 0, 3>>, state |-> 3]
PeerD == [ip |-> <<192, 0, 2, 4>>, state |-> 6]
PeerE == [ip |-> <<254, 128>> \o [i \in 1..14 |-> 0], state |-> 6]
Own(ip) == IF Len(ip) = 4 THEN <<10, 0, 0, 9>> ELSE Six(33)
Explicit(ip) == <<Family(ip), Len(ip)>> \o ip
IndexAs(v, ip) == CASE v = "cisco" -> Explicit(ip)
                    [] v = "juniper" -> <<0, Family(ip)>> \o Own(ip) \o <<Family(ip)>> \o ip
                    [] OTHER -> <<1>> \o Explicit(ip)
ShortIndex == [index |-> <<1, 4, 10, 0>>, state |-> 6]
Speaker(v, peers, lost, v2) ==
    [vendor |-> v, peers |-> peers, v2 |-> v2, rfc |-> {p \in peers : Len(p.ip) = 4},
     vendorRows |-> {[index |-> IndexAs(v, p.ip), state |-> p.state] : p \in peers \ lost}
                    \cup (IF lost = {} THEN {} ELSE {ShortIndex})]
MCSpeakers ==
    {Speaker(v, ps, lost, v2) :
        v \in {"cisco", "arista", "juniper", "nokia", "unknown"},
        ps \in {{}, {PeerA}, {PeerA, PeerB, PeerC}, {PeerC}, {PeerA, PeerD, PeerE}},
        lost \in {{}, {PeerA}}, v2 \in BOOLEAN}
    \cup {[Speaker("cisco", {PeerA, PeerD}, {}, TRUE) EXCEPT !.vendorRows = {}]}
MCInScope(ip) == ip[1] # 192

(* EdgeSynthesis: three targets, two behind one address; each may come back in two ways. *)
Raws(s, sp, d, dp, p, m) == [src |-> s, sp |-> sp, dst |-> d, dp |-> dp, proto |-> p, mac |-> m]
Outside(at, hint, p) == [at |-> at, hint |-> hint, proto |-> p]
MCPolled == <<[id |-> 1, ip |-> 1], [id |-> 2, ip |-> 1], [id |-> 3, ip |-> 3]>>
MCReturns ==
    << {[edges |-> <<Raws(1, 1, <<"mac", 2>>, 0, "fdb", 0), Raws(1, 1, <<"name", 2>>, 5, "lldp", 3)>>,
         arp |-> {<<4, 1>>}, oos |-> <<Outside(1, 7, "lldp"), Outside(1, 7, "cdp")>>],
        [edges |-> <<Raws(1, 1, <<"mac", 5>>, 0, "fdb", 0), Raws(1, 2, <<"ip", 3>>, 0, "bgp", 0)>>,
         arp |-> {<<4, 3>>}, oos |-> <<Outside(1, 7, "cdp")>>]},
       {[edges |-> <<Raws(2, 1, <<"mac", 4>>, 0, "fdb", 0)>>, arp |-> {<<2, 3>>}, oos |-> <<>>],
        [edges |-> <<Raws(2, 1, <<"mac", 7>>, 0, "lldp", 7), Raws(2, 1, <<"mac", 6>>, 0, "fdb", 0)>>,
         arp |-> {<<2, 1>>, <<4, 3>>}, oos |-> <<Outside(2, 7, "lldp")>>]},
       {[edges |-> <<Raws(3, 1, <<"name", 1>>, 2, "lldp", 2)>>, arp |-> {}, oos |-> <<>>],
        [edges |-> <<Raws(3, 1, <<"ip", 1>>, 0, "cdp", 0), Raws(3, 1, <<"mac", 2>>, 0, "fdb", 0)>>,
         arp |-> {<<2, 1>>}, oos |-> <<Outside(3, 7, "cdp")>>]} >>

(* Observations: one link seen from both ends under two spellings, in three confidences, *)
(* with a second far end, a self-loop, a nameless device and portless ends.              *)
Uni(s, sp, d, dp, p, r) == Edge(s, sp, d, dp, p, r, "uni")
MCSightings ==
    {Uni(1, p, 2, 2, k[1], k[2]) : p \in {2, 3}, k \in {<<4, 2>>, <<2, 3>>, <<2, 2>>}}
    \cup {Uni(2, 2, 1, q, k[1], k[2]) : q \in {2, 3}, k \in {<<4, 2>>, <<2, 3>>}}
    \cup {Uni(1, p, 3, 4, k[1], k[2]) : p \in {2, 3}, k \in {<<4, 2>>, <<2, 3>>}}
    \cup {Uni(1, 2, 1, 4, 4, 2), Uni(0, 2, 1, 4, 4, 2), Uni(1, 0, 2, 0, 1, 7)}

(* LinkLifecycle: names that hold the separator and the escapes of EdgeKeyString. *)
MCLinks == {<< <<"a">>, <<"p", "%", "7C">>, <<"b">>, <<"|">> >>,
            << <<"a">>, <<"p">>, <<"|", "25">>, <<"%", "%">> >>}

(* PushPath: the edges LLDP and CDP produce, texts at every cap and one past it. *)
MCWalks == {<<>>, <<Uni(1, 2, 2, 4, 1, 2)>>, <<Uni(1, 3, 2, 4, 1, 2), Uni(2, 4, 1, 2, 2, 3)>>,
            <<Uni(1, 2, 1, 4, 1, 2)>>}
MCInventories == {<<1, 2>>, <<1, 1>>}
MCRaw == {Text(n, FALSE) : n \in {1, 64, 65, 255, 256, 257, 4096, 4097}}

(* HubMerge: a device both spokes poll, host 1 in three spellings, known links. *)
MCSpokeDevices == << {6, 8}, {12, 8} >>
MCSpokeSightings == << {Uni(6, 2, 8, 2, 4, 2), Uni(8, 2, 6, 2, 4, 2), Uni(8, 4, 12, 2, 2, 3)},
                       {Uni(12, 2, 8, 4, 4, 2), Uni(8, 2, 6, 2, 2, 3)} >>
MCSpokeBoundary == << {Neighbour(6, 4, 12, 4), Neighbour(6, 6, 12, 2), Neighbour(6, 4, 13, 2)},
                      {Neighbour(12, 6, 7, 4), Neighbour(12, 4, 6, 2)} >>
MCKnownLinks == {Uni(6, 4, 12, 6, 1, 0), Uni(8, 2, 16, 2, 1, 0)}

-----------------------------------------------------------------------------
PartsInit ==
    /\ part \in {"rules", "pool", "neighbours", "fdb", "bgp", "synthesis", "observations",
                 "ageing", "push", "merge", "limiter"}
    /\ proto \in (IF part = "neighbours" THEN {"lldp", "cdp"} \cup Stateful ELSE {"lldp"})
    /\ scope \in (IF part = "neighbours" THEN {"off", "all", "inside"} ELSE {"off"})
    /\ present \in (IF part = "neighbours" THEN SUBSET Neighbours ELSE {{}})
    /\ bridge \in (IF part = "fdb" THEN Bridges ELSE {Bridge(NoTable, NoTable, <<>>)})
    /\ speaker \in (IF part = "bgp" THEN Speakers ELSE {Speaker("unknown", {}, {}, FALSE)})
    /\ loose \in (IF part = "merge" THEN BOOLEAN ELSE {FALSE})
    /\ RulesInit /\ PoolInit /\ NeighbourInit /\ FdbInit /\ BgpInit
    /\ SynthInit /\ ObservationsInit /\ LifeInit /\ PushPathInit /\ MergeInit /\ LimitInit

\* A step of p leaves the variables of the other parts alone.
StepOf(p) ==
    /\ part = p /\ UNCHANGED part
    /\ IF p = "rules" THEN RulesNext ELSE UNCHANGED ruleVars
    /\ IF p = "pool" THEN PoolNext ELSE UNCHANGED poolVars
    /\ IF p = "neighbours" THEN NeighbourNext ELSE UNCHANGED neighbourVars
    /\ IF p = "fdb" THEN FdbNext ELSE UNCHANGED fdbVars
    /\ IF p = "bgp" THEN BgpNext ELSE UNCHANGED bgpVars
    /\ IF p = "synthesis" THEN SynthNext ELSE UNCHANGED synthVars
    /\ IF p = "observations" THEN ObservationsNext ELSE UNCHANGED observed
    /\ IF p = "ageing" THEN LifeNext ELSE UNCHANGED lifeVars
    /\ IF p = "push" THEN PushPathNext ELSE UNCHANGED pushVars
    /\ IF p = "merge" THEN MergeNext ELSE UNCHANGED mergeVars
    /\ IF p = "limiter" THEN LimitNext ELSE UNCHANGED limitVars

PartsNext ==
    \/ StepOf("rules") \/ StepOf("pool") \/ StepOf("neighbours")
    \/ StepOf("fdb") \/ StepOf("bgp") \/ StepOf("synthesis") \/ StepOf("observations")
    \/ StepOf("ageing") \/ StepOf("push") \/ StepOf("merge") \/ StepOf("limiter")

discoveryVars == <<ruleVars, poolVars, neighbourVars, fdbVars, bgpVars, synthVars,
                   observed, lifeVars, pushVars, mergeVars, limitVars, part>>

PartsSpec == PartsInit /\ [][PartsNext]_discoveryVars
=============================================================================
