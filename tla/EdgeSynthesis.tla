--------------------------- MODULE EdgeSynthesis ---------------------------
(***************************************************************************)
(* From what the probes of a cycle report to the input of Reconcile        *)
(* (app.RunCycle after wg.Wait, and app/helpers.go): the results sorted by *)
(* target, the address and MAC indexes, SynthesizeEdges, and the           *)
(* out-of-scope neighbours with the time they were first seen.             *)
(*                                                                         *)
(* An end of an edge is <<"name", n>>, <<"ip", n>> or <<"mac", n>>; an odd *)
(* number of a MAC is another spelling of the even one before it.  Ports   *)
(* and hints are numbers, port 0 is empty.                                 *)
(***************************************************************************)
EXTENDS Integers, Sequences, FiniteSetsExt, Places

CONSTANTS Polled,    \* per target, in the order of the configuration, [id, ip]: the device
                     \* that answers and the address it was reached at
          Returns,   \* per target what its probe may return
          MaxTick    \* bound on cycles

\* An edge as a walker builds it; that of a forwarding table ends at a MAC.
RawEdge == [src : Nat, sp : Nat, dst : {"name", "ip", "mac"} \X Nat, dp : Nat,
            proto : {"lldp", "cdp", "bgp", "fdb"}, mac : Nat]
FromWalk == {e \in RawEdge : e.proto = "fdb" => e.dst[1] = "mac"}
Outsider == [at : Nat, hint : Nat, proto : {"lldp", "cdp", "bgp"}]

\* What a probe returns.
IsReturn(back) ==
    /\ back.edges \in Seq(FromWalk)
    /\ back.arp \subseteq Nat \X Nat
    /\ back.oos \in Seq(Outsider)

ASSUME PolledAssumption ==
    /\ Polled \in Seq([id : Nat, ip : Nat])
    /\ \A t \in DOMAIN Polled : \A back \in Returns[t] : IsReturn(back)

VARIABLES arrived,  \* targets in the order in which their goroutines took mu
          answer,   \* per target what it returned
          prev,     \* prevGraph.OutOfScope
          tick,     \* cycles so far
          since     \* history: per neighbour the first of the cycles in a row that served it

synthVars == <<arrived, answer, prev, tick, since>>

NoAnswer == [edges |-> <<>>, arp |-> {}, oos |-> <<>>]

SynthInit ==
    /\ arrived = <<>>
    /\ answer = [t \in DOMAIN Polled |-> NoAnswer]
    /\ prev = {}
    /\ tick = 1
    /\ since = {}

-----------------------------------------------------------------------------
(* Indexes                                                                 *)

ParseMAC(n) == n - (n % 2)
First(seq, at) == seq[Min(at)]

\* Mutated form: the results stay in the order in which they came.
ResultsAsCame(came) == came

\* The results in the order of the configuration.
Results(came) == Kept([t \in DOMAIN Polled |-> t], Range(came))

RawEdges(came) == FlattenSeq([i \in DOMAIN Results(came) |-> answer[Results(came)[i]].edges])

\* ipToID: of two devices reached at one address the first configured keeps it.
IpToId(came) ==
    LET sorted == Results(came)
    IN  [ip \in {Polled[t].ip : t \in Range(came)} |->
            Polled[First(sorted, {i \in DOMAIN sorted : Polled[sorted[i]].ip = ip})].id]

\* allARPMACs: filled under mu, so the first to come keeps a MAC.
ArpMacToIp(came) ==
    LET macsOf(t) == {p[1] : p \in answer[t].arp}
    IN  [m \in UNION {macsOf(t) : t \in Range(came)} |->
            LET t == First(came, {i \in DOMAIN came : m \in macsOf(came[i])})
            IN  CHOOSE ip \in {p[2] : p \in answer[t].arp} : <<m, ip>> \in answer[t].arp]

\* macToID: the chassis addresses LLDP gave a name to, then the ARP tables.
MacToId(raw, ipToId, arp) ==
    LET named  == {i \in DOMAIN raw : raw[i].proto = "lldp" /\ raw[i].mac # 0 /\ raw[i].dst[1] = "name"}
        lldp   == {ParseMAC(raw[i].mac) : i \in named}
        viaArp == {m \in DOMAIN arp : arp[m] \in DOMAIN ipToId}
    IN  [m \in lldp \cup viaArp |->
            IF m \in lldp THEN First(raw, {i \in named : ParseMAC(raw[i].mac) = m}).dst[2]
            ELSE ipToId[arp[m]]]

-----------------------------------------------------------------------------
(* ResolveEdgeDstDevices and the backfill                                  *)

Resolved(e, ipToId, macToId) ==
    CASE e.dst[1] = "ip" /\ e.dst[2] \in DOMAIN ipToId -> <<"name", ipToId[e.dst[2]]>>
      [] e.dst[1] = "mac" /\ ParseMAC(e.dst[2]) \in DOMAIN macToId -> <<"name", macToId[ParseMAC(e.dst[2])]>>
      [] OTHER -> e.dst

\* Mutated form: an address nobody knows is published as a device.
KeepAll(e, macToId) == TRUE

\* A MAC from a forwarding table that nothing resolves is likely a host.
Keep(e, macToId) == ~(e.dst[1] = "mac" /\ ParseMAC(e.dst[2]) \notin DOMAIN macToId /\ e.proto = "fdb")

ResolveEdgeDstDevices(raw, ipToId, macToId) ==
    LET kept == Kept(raw, {i \in DOMAIN raw : Keep(raw[i], macToId)})
    IN  [i \in DOMAIN kept |-> [kept[i] EXCEPT !.dst = Resolved(kept[i], ipToId, macToId)]]

\* The far port of a forwarding-table edge, from the last LLDP edge with the same ends.
Backfill(edges) ==
    LET from(e) == {i \in DOMAIN edges : /\ edges[i].proto = "lldp" /\ edges[i].dp # 0
                                         /\ <<edges[i].src, edges[i].sp, edges[i].dst>> = <<e.src, e.sp, e.dst>>}
    IN  [i \in DOMAIN edges |->
            LET e == edges[i]
            IN  IF e.proto = "fdb" /\ e.dp = 0 /\ from(e) # {}
                THEN [e EXCEPT !.dp = edges[Max(from(e))].dp] ELSE e]

SynthesizeEdges(came) ==
    LET raw     == RawEdges(came)
        ipToId  == IpToId(came)
        macToId == MacToId(raw, ipToId, ArpMacToIp(came))
    IN  Backfill(ResolveEdgeDstDevices(raw, ipToId, macToId))

-----------------------------------------------------------------------------
(* Out-of-scope neighbours: [at, hint, proto], "at" the device and port     *)

\* One entry per device, port and hint: the first.
DeduplicateOOS(came) ==
    LET all == FlattenSeq([i \in DOMAIN Results(came) |-> answer[Results(came)[i]].oos])
        of(n) == {i \in DOMAIN all : all[i].at = n.at /\ all[i].hint = n.hint}
    IN  {First(all, of(n)) : n \in Range(all)}

\* Mutated form: the protocol is part of what identifies a neighbour.
MergeByProto(new, old) ==
    {LET was == {o \in old : o.at = n.at /\ o.hint = n.hint /\ o.proto = n.proto}
     IN  [at |-> n.at, hint |-> n.hint, proto |-> n.proto,
          seen |-> IF was = {} THEN tick ELSE (CHOOSE o \in was : TRUE).seen] : n \in new}

\* A neighbour of the previous graph keeps the time it was first seen.
MergeOOSFirstSeen(new, old) ==
    {LET was == {o \in old : o.at = n.at /\ o.hint = n.hint}
     IN  [at |-> n.at, hint |-> n.hint, proto |-> n.proto,
          seen |-> IF was = {} THEN tick ELSE (CHOOSE o \in was : TRUE).seen] : n \in new}

-----------------------------------------------------------------------------
(* The cycle                                                               *)

\* A probe returns and its goroutine takes mu.
Arrive == \E t \in DOMAIN Polled \ Range(arrived) : \E r \in Returns[t] :
    /\ answer' = [answer EXCEPT ![t] = r]
    /\ arrived' = Append(arrived, t)
    /\ UNCHANGED <<prev, tick, since>>

\* The cycle ends with what has come, the others having failed; publish takes the
\* graph or rejects it as too large.
EndOfCycle ==
    /\ tick < MaxTick
    /\ tick' = tick + 1
    /\ arrived' = <<>>
    /\ answer' = [t \in DOMAIN Polled |-> NoAnswer]
    /\ \/ UNCHANGED <<prev, since>>
       \/ LET new == DeduplicateOOS(arrived)
          IN  /\ prev' = MergeOOSFirstSeen(new, prev)
              /\ since' = {s \in since : \E n \in new : s[1] = n.at /\ s[2] = n.hint}
                            \cup {<<n.at, n.hint, tick>> : n \in {x \in new :
                                     \A s \in since : ~(s[1] = x.at /\ s[2] = x.hint)}}

NoMoreTicks == tick = MaxTick /\ Len(arrived) = Len(Polled) /\ UNCHANGED synthVars

SynthNext == Arrive \/ EndOfCycle \/ NoMoreTicks
SynthSpec == SynthInit /\ [][SynthNext]_synthVars

-----------------------------------------------------------------------------
(* Properties                                                              *)

Conflicting == \E t, u \in Range(arrived) : \E p \in answer[t].arp, q \in answer[u].arp :
                   p[1] = q[1] /\ p[2] # q[2]

\* The edges do not depend on the order in which the probes ended, unless two ARP
\* tables disagree about a MAC: that is the only thing settled by the scheduling.
SynthesisOrderFree ==
    ~Conflicting =>
        \A came \in [DOMAIN arrived -> Range(arrived)] :
            Range(came) = Range(arrived) => SynthesizeEdges(came) = SynthesizeEdges(arrived)

\* Every forwarding-table edge ends at a named device, the one LLDP named for the MAC
\* if it named one: a stale ARP table does not redirect it.
FdbEndsAtDevices ==
    LET raw    == RawEdges(arrived)
        macToId == MacToId(raw, IpToId(arrived), ArpMacToIp(arrived))
        names(e) == {x.dst : x \in {y \in Range(raw) : y.proto = "lldp" /\ y.dst[1] = "name" /\ y.mac # 0
                                                        /\ ParseMAC(y.mac) = ParseMAC(e.dst[2])}}
    IN  /\ \A e \in Range(SynthesizeEdges(arrived)) : e.proto = "fdb" => e.dst[1] = "name"
        /\ \A e \in Range(raw) : e.proto = "fdb" /\ e.dst[1] = "mac" /\ names(e) # {} =>
             Resolved(e, IpToId(arrived), macToId) \in names(e)

\* FirstSeen of an out-of-scope neighbour is the first of the accepted cycles in a row
\* that have it, whichever protocol reports it, rejected cycles in between included.
FirstSeenSticks == since = {<<n.at, n.hint, n.seen>> : n \in prev}
=============================================================================
