-------------------------- MODULE DiscoveryProofs ---------------------------
(***************************************************************************)
(* What the rules let a cycle walk, what it makes of neighbour and of      *)
(* forwarding tables, and the edges it synthesizes, for any rules,         *)
(* devices, targets and orders.                                            *)
(***************************************************************************)
EXTENDS TargetRules, NeighbourWalk, FdbWalk, EdgeSynthesis, SeqProofs

\* A leaf that names no prover is for Zenon; SMT has those with numbers or sequences.
USE ZenonT(60)

-----------------------------------------------------------------------------
(* TargetRules                                                             *)

\* The file has rules an operator may write, and a running process has accepted them.
RulesInv ==
    /\ overrides \in Seq(Overrides) /\ assignments \in Seq(Assignments)
    /\ loaded = "running" => OverridesValid(overrides)

LEMMA RulesStep == RulesInv /\ [RulesNext]_ruleVars => RulesInv'
<1> SUFFICES ASSUME RulesInv, [RulesNext]_ruleVars PROVE RulesInv'
  OBVIOUS
<1>1. CASE WriteRule
  <2>1. loaded' = "no"
    BY <1>1 DEF WriteRule
  <2>2. overrides' \in Seq(Overrides) /\ assignments' \in Seq(Assignments)
    <3>1. CASE \E o \in Overrides : overrides' = Append(overrides, o) /\ UNCHANGED assignments
      BY <3>1, SMTT(30) DEF RulesInv
    <3>2. CASE \E a \in Assignments : assignments' = Append(assignments, a) /\ UNCHANGED overrides
      BY <3>2, SMT DEF RulesInv
    <3> QED
      BY <1>1, <3>1, <3>2 DEF WriteRule
  <2> QED
    BY <2>1, <2>2 DEF RulesInv
<1>2. CASE LoadRules
  BY <1>2 DEF LoadRules, RulesInv
<1>3. CASE EditRules
  BY <1>3, SMT DEF EditRules, RulesInv
<1>4. CASE UNCHANGED ruleVars
  BY <1>4 DEF ruleVars, RulesInv, OverridesValid
<1> QED
  BY <1>1, <1>2, <1>3, <1>4 DEF RulesNext

\* Of places that match, one comes first in the sorted list.
LEMMA FirstIsThere ==
    ASSUME NEW list, NEW hit \in SUBSET Nat, hit # {}, \A i \in hit : list[i].len \in 0..Bits
    PROVE  \E i \in hit : FirstOf(list, hit) = list[i] /\ \A j \in hit : list[i].len >= list[j].len
<1>1. Bits \in Nat
  BY RulesAssumption
<1> DEFINE gaps == {Bits - list[i].len : i \in hit}
<1>2. PICK g \in gaps : \A h \in gaps : g <= h
  <2>0. \A n \in 0..Bits : Bits - n \in Nat
    BY <1>1, SMT
  <2>1. \A i \in hit : Bits - list[i].len \in Nat
    BY <2>0
  <2>2. gaps \in SUBSET Nat /\ gaps # {}
    BY <2>1
  <2> HIDE DEF gaps
  <2> QED
    BY <2>2, LeastElement
<1>3. \A j \in hit : Bits - list[j].len \in gaps
  OBVIOUS
<1>4. \E i \in hit : g = Bits - list[i].len
  OBVIOUS
<1> HIDE DEF gaps
<1> DEFINE longest == {i \in hit : Bits - list[i].len = g}
<1>5. PICK i \in longest : \A j \in longest : i <= j
  <2>1. longest \in SUBSET Nat /\ longest # {}
    BY <1>4
  <2> HIDE DEF longest
  <2> QED
    BY <2>1, LeastElement
<1>6. \A j \in hit \ {i} : LongestFirst(list, i, j)
  <2> SUFFICES ASSUME NEW j \in hit \ {i} PROVE LongestFirst(list, i, j)
    OBVIOUS
  <2>1. g <= Bits - list[j].len /\ g = Bits - list[i].len /\ i \in Nat /\ j \in Nat
    BY <1>2, <1>3, <1>5
  <2>2. list[i].len \in 0..Bits /\ list[j].len \in 0..Bits
    BY <1>5
  <2>3. list[i].len = list[j].len => i <= j
    BY <1>5, <2>1
  <2> QED
    BY <1>1, <2>1, <2>2, <2>3, SMTT(30) DEF LongestFirst
<1> DEFINE c == CHOOSE x \in hit : \A j \in hit \ {x} : LongestFirst(list, x, j)
<1>7. c \in hit /\ \A j \in hit \ {c} : LongestFirst(list, c, j)
  <2>1. \E x \in hit : \A j \in hit \ {x} : LongestFirst(list, x, j)
    BY <1>5, <1>6
  <2> QED
    BY <2>1
<1>8. FirstOf(list, hit) = list[c]
  BY DEF FirstOf
<1> HIDE DEF c
<1>9. \A j \in hit : list[c].len >= list[j].len
  <2> SUFFICES ASSUME NEW j \in hit PROVE list[c].len >= list[j].len
    OBVIOUS
  <2>1. list[c].len \in 0..Bits /\ list[j].len \in 0..Bits
    BY <1>7
  <2>2. j = c \/ LongestFirst(list, c, j)
    BY <1>7
  <2> QED
    BY <1>1, <2>1, <2>2, SMTT(30) DEF LongestFirst
<1> QED
  BY <1>7, <1>8, <1>9

\* An accepted list has at most one network of a length that holds an address.
LEMMA OneNetworkEach ==
    ASSUME NEW list, OverridesValid(list), NEW i \in DOMAIN list, NEW j \in DOMAIN list, NEW ip,
           InNet(list[i], ip), InNet(list[j], ip), list[i].len = list[j].len
    PROVE  i = j
<1>1. Network(list[i]) = Network(list[j])
  BY DEF InNet
<1>2. <<list[i].len, Network(list[i])>> = <<list[j].len, Network(list[j])>>
  BY <1>1
<1> QED
  BY <1>2 DEF OverridesValid

\* The modules at an address are those of the narrowest override that holds it.
LEMMA NarrowestModules ==
    ASSUME NEW list \in Seq(Overrides), OverridesValid(list), NEW ip, NEW i \in DOMAIN list, InNet(list[i], ip),
           \A j \in DOMAIN list : InNet(list[j], ip) => list[j].len <= list[i].len
    PROVE  ModulesForIP(list, ip) = list[i].modules
<1> DEFINE hit == {j \in DOMAIN list : InNet(list[j], ip)}
<1>1. hit \in SUBSET Nat /\ hit # {} /\ \A j \in hit : list[j].len \in 0..Bits
  BY RulesAssumption, SMTT(30)
<1>2. hit \subseteq DOMAIN list /\ i \in hit /\ \A j \in hit : InNet(list[j], ip) /\ list[j].len <= list[i].len
  OBVIOUS
<1>3. ModulesForIP(list, ip) = FirstOf(list, hit).modules \cap Enabled
  BY <1>1 DEF ModulesForIP
<1> HIDE DEF hit
<1>4. PICK c \in hit : FirstOf(list, hit) = list[c] /\ \A j \in hit : list[c].len >= list[j].len
  BY <1>1, FirstIsThere
<1>5. list[c].len = list[i].len
  BY <1>1, <1>2, <1>4, RulesAssumption, SMTT(20)
<1>6. c = i
  BY <1>2, <1>4, <1>5, OneNetworkEach
<1>7. list[i].modules \subseteq Enabled
  BY DEF OverridesValid
<1> QED
  BY <1>3, <1>4, <1>6, <1>7

\* A network that holds an address is no longer than the longest that does.
LEMMA SomeNarrowest ==
    ASSUME NEW list \in Seq(Overrides), NEW ip, NEW i \in DOMAIN list, InNet(list[i], ip)
    PROVE  \E m \in DOMAIN list : InNet(list[m], ip) /\ \A j \in DOMAIN list : InNet(list[j], ip) => list[j].len <= list[m].len
<1> DEFINE hit == {j \in DOMAIN list : InNet(list[j], ip)}
<1>1. hit \in SUBSET Nat /\ hit # {} /\ \A j \in hit : list[j].len \in 0..Bits
  BY RulesAssumption, SMT
<1>2. PICK c \in hit : \A j \in hit : list[c].len >= list[j].len
  <2> HIDE DEF hit
  <2> QED
    BY <1>1, FirstIsThere
<1>3. Bits \in Nat
  BY RulesAssumption
<1> QED
  BY <1>1, <1>2, <1>3

\* The order in which the overrides are written does not matter.
LEMMA OrderDoesNotMatter ==
    ASSUME NEW list \in Seq(Overrides), OverridesValid(list), NEW other \in Permuted(list), NEW ip
    PROVE  ModulesForIP(list, ip) = ModulesForIP(other, ip)
<1>1. PICK p \in [DOMAIN list -> DOMAIN list] : IsInjective(p) /\ other = [i \in DOMAIN list |-> list[p[i]]]
  BY DEF Permuted
<1>2. Len(list) \in Nat /\ DOMAIN list = 1..Len(list) /\ DOMAIN other = DOMAIN list
  BY <1>1, SMTT(30)
<1>3. \A i \in DOMAIN list : \E j \in DOMAIN list : p[j] = i
  <2>1. p \in [1..Len(list) -> 1..Len(list)]
    BY <1>1, <1>2
  <2>2. \A i \in 1..Len(list) : \E j \in 1..Len(list) : p[j] = i
    BY <1>1, <1>2, <2>1, InjectiveIsOnto
  <2> QED
    BY <1>2, <2>2
<1>4. other \in Seq(Overrides) /\ \A i \in DOMAIN list : other[i] = list[p[i]] /\ p[i] \in DOMAIN list
  BY <1>1, <1>2, SMTT(30)
<1>5. OverridesValid(other)
  BY <1>1, <1>2, <1>4, SMTT(30) DEF OverridesValid, IsInjective
<1>6. CASE \A i \in DOMAIN list : ~InNet(list[i], ip)
  <2>1. {i \in DOMAIN list : InNet(list[i], ip)} = {} /\ {i \in DOMAIN other : InNet(other[i], ip)} = {}
    BY <1>2, <1>4, <1>6
  <2> QED
    BY <2>1 DEF ModulesForIP
<1>7. ASSUME NEW k \in DOMAIN list, InNet(list[k], ip) PROVE ModulesForIP(list, ip) = ModulesForIP(other, ip)
  <2>1. PICK m \in DOMAIN list : InNet(list[m], ip) /\ \A j \in DOMAIN list : InNet(list[j], ip) => list[j].len <= list[m].len
    BY <1>7, SomeNarrowest
  <2>2. PICK n \in DOMAIN other : p[n] = m
    BY <1>2, <1>3
  <2>3. InNet(other[n], ip) /\ \A j \in DOMAIN other : InNet(other[j], ip) => other[j].len <= other[n].len
    BY <1>2, <1>4, <2>1, <2>2, SMTT(20)
  <2>4. ModulesForIP(list, ip) = list[m].modules
    BY <2>1, NarrowestModules
  <2>5. ModulesForIP(other, ip) = other[n].modules
    BY <1>4, <1>5, <2>3, NarrowestModules
  <2> QED
    BY <1>2, <1>4, <2>2, <2>4, <2>5
<1> QED
  BY <1>6, <1>7

\* An exact assignment holds its address and no other.
LEMMA ExactIsOne ==
    ASSUME NEW a \in Assignments, a.exact, NEW ip \in Nat
    PROVE  InNet(a, ip) <=> a.net = ip
<1>1. a.len = Bits /\ a.net \in Nat /\ Bits \in Nat /\ 2^0 = 1
  BY RulesAssumption
<1>2. Bits - a.len = 0
  BY <1>1, SMT
<1>3. ip \div 1 = ip /\ a.net \div 1 = a.net
  BY <1>1, SMTT(30)
<1>4. ip \div 2^(Bits - a.len) = ip /\ a.net \div 2^(Bits - a.len) = a.net
  BY <1>1, <1>2, <1>3
<1> QED
  BY <1>4 DEF InNet, Network

\* No assignment that holds an address is narrower than one its profiles come from.
LEMMA NarrowestProfiles ==
    ASSUME RulesInv, NEW ip \in Nat, NEW i \in DOMAIN assignments, InNet(assignments[i], ip),
           assignments[i].exact => assignments[i].canonical
    PROVE  \E j \in DOMAIN assignments : /\ InNet(assignments[j], ip) /\ assignments[j].len >= assignments[i].len
                                         /\ ResolveProfiles(ip) = assignments[j].profiles
<1> DEFINE exact == {k \in DOMAIN assignments :
                       assignments[k].exact /\ assignments[k].canonical /\ assignments[k].net = ip}
           hit   == {k \in DOMAIN assignments : ~assignments[k].exact /\ InNet(assignments[k], ip)}
<1>1. /\ Bits \in Nat /\ Len(assignments) \in Nat /\ DOMAIN assignments = 1..Len(assignments)
      /\ \A k \in DOMAIN assignments : assignments[k] \in Assignments /\ assignments[k].len \in 0..Bits
  BY RulesAssumption, SMTT(30) DEF RulesInv
<1>2. CASE exact # {}
  <2>1. Max(exact) \in exact
    <3>1. exact \in SUBSET (1..Len(assignments))
      BY <1>1
    <3> HIDE DEF exact
    <3> QED
      BY <1>1, <1>2, <3>1, MaxIsIn
  <2> DEFINE j == Max(exact)
  <2>2. ResolveProfiles(ip) = assignments[j].profiles
    BY <1>2 DEF ResolveProfiles
  <2>3. j \in DOMAIN assignments /\ assignments[j].exact /\ assignments[j].net = ip
    BY <2>1
  <2> HIDE DEF j
  <2>4. InNet(assignments[j], ip) /\ assignments[j].len = Bits
    BY <1>1, <2>3, ExactIsOne, RulesAssumption
  <2>5. assignments[j].len >= assignments[i].len
    BY <1>1, <2>4, SMTT(30)
  <2> QED
    BY <2>2, <2>3, <2>4, <2>5
<1>3. CASE exact = {}
  <2>1. ~assignments[i].exact
    <3> SUFFICES ASSUME assignments[i].exact PROVE FALSE
      OBVIOUS
    <3>1. assignments[i].net = ip
      BY <1>1, ExactIsOne
    <3>2. i \in exact
      BY <3>1
    <3> QED
      BY <1>3, <3>2
  <2>2. i \in hit
    BY <2>1
  <2>3. hit \in SUBSET Nat /\ hit \subseteq DOMAIN assignments /\ \A k \in hit : InNet(assignments[k], ip)
    BY <1>1, SMTT(30)
  <2>4. ResolveProfiles(ip) = FirstOf(assignments, hit).profiles
    BY <1>3, <2>2 DEF ResolveProfiles
  <2> HIDE DEF hit
  <2>5. PICK j \in hit : FirstOf(assignments, hit) = assignments[j] /\ \A k \in hit : assignments[j].len >= assignments[k].len
    BY <1>1, <2>2, <2>3, FirstIsThere
  <2> QED
    BY <2>2, <2>3, <2>4, <2>5
<1> QED
  BY <1>2, <1>3

\* The narrowest rule decides, for every length of addresses and all rules an operator may
\* write.
THEOREM NarrowestDecides == RulesSpec => []NarrowestRuleDecides
<1>1. RulesInit => RulesInv
  BY SMT DEF RulesInit, RulesInv
<1>2. RulesInv => NarrowestRuleDecides
  <2> SUFFICES ASSUME RulesInv, loaded = "running", NEW ip \in Addresses
               PROVE  /\ \A other \in Permuted(overrides) : ModulesForIP(overrides, ip) = ModulesForIP(other, ip)
                      /\ \A i \in DOMAIN overrides :
                            InNet(overrides[i], ip) =>
                                \/ ModulesForIP(overrides, ip) = overrides[i].modules
                                \/ \E j \in DOMAIN overrides :
                                      InNet(overrides[j], ip) /\ overrides[j].len > overrides[i].len
                      /\ \A i \in DOMAIN assignments :
                            InNet(assignments[i], ip) /\ (assignments[i].exact => assignments[i].canonical) =>
                                \E j \in DOMAIN assignments :
                                    /\ InNet(assignments[j], ip) /\ assignments[j].len >= assignments[i].len
                                    /\ ResolveProfiles(ip) = assignments[j].profiles
    BY DEF NarrowestRuleDecides
  <2>1. overrides \in Seq(Overrides) /\ OverridesValid(overrides) /\ ip \in Nat
    BY SMT DEF RulesInv, Addresses
  <2>2. \A other \in Permuted(overrides) : ModulesForIP(overrides, ip) = ModulesForIP(other, ip)
    BY <2>1, OrderDoesNotMatter
  <2>3. ASSUME NEW i \in DOMAIN overrides, InNet(overrides[i], ip),
               ~\E j \in DOMAIN overrides : InNet(overrides[j], ip) /\ overrides[j].len > overrides[i].len
        PROVE  ModulesForIP(overrides, ip) = overrides[i].modules
    <3>1. \A j \in DOMAIN overrides : overrides[j].len \in Nat
      BY <2>1, RulesAssumption, SMTT(30)
    <3>2. \A j \in DOMAIN overrides : InNet(overrides[j], ip) => overrides[j].len <= overrides[i].len
      BY <2>3, <3>1, SMTT(30)
    <3> QED
      BY <2>1, <2>3, <3>2, NarrowestModules
  <2>4. \A i \in DOMAIN assignments :
          InNet(assignments[i], ip) /\ (assignments[i].exact => assignments[i].canonical) =>
             \E j \in DOMAIN assignments :
                 /\ InNet(assignments[j], ip) /\ assignments[j].len >= assignments[i].len
                 /\ ResolveProfiles(ip) = assignments[j].profiles
    BY <2>1, NarrowestProfiles
  <2> QED
    BY <2>2, <2>3, <2>4
<1> QED
  BY <1>1, <1>2, RulesStep, PTL DEF RulesSpec

-----------------------------------------------------------------------------
(* NeighbourWalk                                                           *)

\* A cell of a row that was read is of the row's own neighbour, which was there then;
\* one that says the neighbour is up was read while it was.
CellIsOfRow(k, q) ==
    /\ q.from # 0 => q.from = k[2] /\ (proto \notin Stateful => N(k[2]) \in witnessed)
    /\ q.good => q.from # 0
    /\ q.up => q.from # 0 /\ (proto \in Stateful => N(k[2]) \in witnessed)

NeighbourInv ==
    /\ proto \in {"lldp", "cdp"} \cup Stateful
    /\ present \subseteq Neighbours /\ up \subseteq present
    /\ (IF proto \in Stateful THEN up ELSE present) \subseteq witnessed
    /\ DOMAIN rows = RowKeys /\ \A k \in RowKeys : DOMAIN rows[k] = AllColumns
    /\ \A k \in RowKeys, c \in AllColumns : CellIsOfRow(k, rows[k][c])
    /\ EdgesAreWhole

\* The second half of a row's index tells its neighbour.
LEMMA RowHasNeighbour ==
    ASSUME NEW k \in RowKeys
    PROVE  N(k[2]) \in Neighbours /\ N(k[2]).who = k[2] /\ k[2] \in Nat \ {0} /\ RowKey(N(k[2])) = k
<1>1. PICK n \in Neighbours : k = <<n.port, n.who>>
  BY DEF RowKeys, RowKey
<1>2. N(n.who) = n
  BY NeighbourAssumption DEF N
<1> QED
  BY <1>1, <1>2, NeighbourAssumption DEF RowKey

\* The cells of a table that was not read yet.
LEMMA UnreadRows ==
    /\ DOMAIN NoRows = RowKeys
    /\ \A k \in RowKeys : DOMAIN NoRows[k] = AllColumns
    /\ \A k \in RowKeys, c \in AllColumns : NoRows[k][c] = Unread
BY DEF NoRows

\* What a reported row says is of one neighbour that the walk witnessed; with a scope
\* configured the address of an edge is inside it.
LEMMA RowIsWhole ==
    ASSUME NeighbourInv, NEW k \in Reported
    PROVE  /\ N(k[2]) \in witnessed /\ EdgeOf(k) = {N(k[2]).who}
           /\ scope = "inside" /\ k \in EdgeRows => N(k[2]).ip = 1
<1>1. k \in RowKeys /\ Usable(k) /\ ScopeKnown(k)
  BY DEF Reported
<1>2. N(k[2]) \in Neighbours /\ N(k[2]).who = k[2] /\ k[2] \in Nat \ {0} /\ N(k[2]).ip \in 0..3
  BY <1>1, RowHasNeighbour, NeighbourAssumption
<1>3. \A c \in AllColumns : From(k, c) \in {0, k[2]} /\ (Good(k, c) => From(k, c) = k[2])
  BY <1>1 DEF NeighbourInv, CellIsOfRow, From, Good
<1>4. AddressOf(k) \in {0, k[2]}
  <2>1. CASE proto = "lldp"
    BY <1>3, <2>1 DEF AddressOf, AllColumns
  <2>2. CASE proto = "cdp"
    BY <1>3, <2>2 DEF AddressOf, AllColumns
  <2>3. CASE proto = "mpls_te"
    BY <1>3, <2>3 DEF AddressOf, AllColumns
  <2>4. CASE proto \in {"ospf", "bgp", "isis"}
    BY <1>3, <2>4 DEF AddressOf, AllColumns
  <2> QED
    BY <2>1, <2>2, <2>3, <2>4 DEF NeighbourInv, Stateful
<1>5. DeviceOf(k) = k[2] \/ (DeviceOf(k) = AddressOf(k) /\ proto \notin {"lldp", "cdp"})
  <2>1. CASE proto = "lldp"
    <3>1. Good(k, "chassis")
      BY <1>1, <2>1 DEF Usable, Decodes
    <3> QED
      BY <1>3, <2>1, <3>1 DEF DeviceOf, AllColumns
  <2>2. CASE proto = "cdp"
    <3>1. Good(k, "name")
      BY <1>1, <2>2 DEF Usable, Decodes
    <3> QED
      BY <1>3, <2>2, <3>1 DEF DeviceOf, AllColumns
  <2>3. CASE proto \notin {"lldp", "cdp"}
    BY <2>3 DEF DeviceOf
  <2> QED
    BY <2>1, <2>2, <2>3
<1>6. proto \notin {"lldp", "cdp"} => AddressOf(k) = k[2]
  <2> SUFFICES ASSUME proto \notin {"lldp", "cdp"} PROVE AddressOf(k) # 0
    BY <1>4
  <2>1. Ip(k) # 0
    BY <1>1 DEF Usable, Decodes
  <2> QED
    BY <2>1 DEF Ip
<1>7. EdgeOf(k) = {k[2]}
  <2>1. From(k, "port") \in {0, k[2]} /\ From(k, "state") \in {0, k[2]}
    BY <1>3 DEF AllColumns
  <2>2. DeviceOf(k) = k[2]
    BY <1>5, <1>6
  <2> QED
    BY <1>2, <1>4, <2>1, <2>2 DEF EdgeOf
<1>8. N(k[2]) \in witnessed
  <2>1. CASE proto \in Stateful
    <3>1. rows[k]["state"].up
      BY <1>1, <2>1 DEF Usable
    <3>2. CellIsOfRow(k, rows[k]["state"])
      BY <1>1 DEF NeighbourInv, AllColumns
    <3> QED
      BY <2>1, <3>1, <3>2 DEF CellIsOfRow
  <2>2. CASE proto \notin Stateful
    <3>1. \E c \in AllColumns : Good(k, c)
      BY <1>1, <2>2 DEF NeighbourInv, Usable, Decodes, AllColumns
    <3>2. PICK c \in AllColumns : Good(k, c)
      BY <3>1
    <3>3. CellIsOfRow(k, rows[k][c])
      BY <1>1 DEF NeighbourInv
    <3> QED
      BY <2>2, <3>2, <3>3 DEF CellIsOfRow, Good
  <2> QED
    BY <2>1, <2>2
<1>9. ASSUME scope = "inside", k \in EdgeRows PROVE N(k[2]).ip = 1
  <2>1. Ip(k) \notin {0, 2, 3}
    BY <1>1, <1>9 DEF EdgeRows, OutOfScope, ScopeKnown
  <2>2. Ip(k) = N(k[2]).ip
    BY <1>4, <2>1 DEF Ip
  <2> QED
    BY <1>2, <2>1, <2>2, SMTT(30)
<1> QED
  BY <1>2, <1>7, <1>8, <1>9

\* The initial states satisfy the invariant.
LEMMA NeighbourStart == NeighbourInit => NeighbourInv
<1> SUFFICES ASSUME NeighbourInit PROVE NeighbourInv
  OBVIOUS
<1>1. \A k \in RowKeys, c \in AllColumns : CellIsOfRow(k, rows[k][c])
  <2>1. \A k \in RowKeys, c \in AllColumns : rows[k][c] = Unread
    BY UnreadRows DEF NeighbourInit
  <2>2. \A k : CellIsOfRow(k, Unread)
    BY DEF CellIsOfRow, Unread
  <2> QED
    BY <2>1, <2>2
<1>2. EdgesAreWhole
  BY DEF NeighbourInit, EdgesAreWhole
<1> QED
  BY <1>1, <1>2, UnreadRows DEF NeighbourInit, NeighbourInv

\* A step that leaves the rows and the result, and loses no witness, keeps them whole.
LEMMA SameRows ==
    ASSUME NeighbourInv, UNCHANGED <<proto, scope, rows>>, witnessed \subseteq witnessed',
           result' = NoResult \/ UNCHANGED <<result, witnessed>>
    PROVE  /\ \A k \in RowKeys, c \in AllColumns : CellIsOfRow(k, rows[k][c])'
           /\ EdgesAreWhole'
<1>1. ASSUME NEW k \in RowKeys, NEW c \in AllColumns PROVE CellIsOfRow(k, rows[k][c])'
  <2>1. CellIsOfRow(k, rows[k][c])
    BY DEF NeighbourInv
  <2> QED
    BY <2>1 DEF CellIsOfRow
<1>2. EdgesAreWhole'
  <2>1. CASE result' = NoResult
    BY <2>1 DEF EdgesAreWhole
  <2>2. CASE UNCHANGED <<result, witnessed>>
    BY <2>2 DEF NeighbourInv, EdgesAreWhole
  <2> QED
    BY <2>1, <2>2
<1> QED
  BY <1>1, <1>2

\* A column is read while the neighbour of the row is there.
LEMMA ColumnKeeps ==
    ASSUME NeighbourInv, ReadColumn
    PROVE  NeighbourInv'
<1> DEFINE d       == Columns(proto)[col + 1]
           here(k) == {n.who : n \in {x \in present : RowKey(x) = k}}
<1>1. /\ rows' = [k \in RowKeys |-> IF here(k) = {} THEN rows[k] ELSE [rows[k] EXCEPT ![d] = Cell(N(Max(here(k))), d)]]
      /\ UNCHANGED <<proto, scope, present, up, witnessed, result>> /\ result = NoResult
  BY DEF ReadColumn
<1>2. ASSUME NEW k \in RowKeys, here(k) # {} PROVE here(k) = {k[2]} /\ N(k[2]) \in present
  <2>1. PICK n \in present : RowKey(n) = k
    BY <1>2
  <2>2. \A x \in present : RowKey(x) = k => x.who = k[2] /\ x \in Neighbours
    BY SMTT(30) DEF RowKey, NeighbourInv
  <2>3. N(k[2]) = n
    BY <2>1, <2>2, RowHasNeighbour, NeighbourAssumption
  <2> QED
    BY <2>1, <2>2, <2>3
<1>3. ASSUME NEW k \in RowKeys, here(k) # {} PROVE Max(here(k)) = k[2]
  <2>1. k[2] \in Nat
    BY RowHasNeighbour
  <2> QED
    BY <1>2, <1>3, <2>1, SMTT(30) DEF Max
<1>4. ASSUME NEW k \in RowKeys, N(k[2]) \in present PROVE CellIsOfRow(k, Cell(N(k[2]), d))
  <2>1. N(k[2]).who = k[2] /\ k[2] # 0
    BY RowHasNeighbour
  <2>2. proto \notin Stateful => N(k[2]) \in witnessed
    BY <1>4 DEF NeighbourInv
  <2>3. proto \in Stateful /\ N(k[2]) \in up => N(k[2]) \in witnessed
    BY DEF NeighbourInv
  <2>4. Cell(N(k[2]), d).from = k[2] /\ (Cell(N(k[2]), d).up => N(k[2]) \in up)
    BY <2>1 DEF Cell
  <2> QED
    BY <2>1, <2>2, <2>3, <2>4 DEF CellIsOfRow
<1> HIDE DEF here, d
<1>5. ASSUME NEW k \in RowKeys, NEW c \in AllColumns
      PROVE  DOMAIN rows'[k] = AllColumns /\ CellIsOfRow(k, rows'[k][c])
  <2>1. CellIsOfRow(k, rows[k][c]) /\ DOMAIN rows[k] = AllColumns
    BY DEF NeighbourInv
  <2>2. CASE here(k) = {}
    BY <1>1, <2>1, <2>2
  <2>3. CASE here(k) # {}
    <3>1. rows'[k] = [rows[k] EXCEPT ![d] = Cell(N(k[2]), d)]
      BY <1>1, <1>3, <2>3
    <3>2. rows'[k][c] = Cell(N(k[2]), d) \/ rows'[k][c] = rows[k][c]
      BY <2>1, <3>1
    <3>3. CellIsOfRow(k, Cell(N(k[2]), d))
      BY <1>2, <1>4, <2>3
    <3> QED
      BY <2>1, <3>1, <3>2, <3>3
  <2> QED
    BY <2>2, <2>3
<1>6. \A k \in RowKeys, c \in AllColumns : CellIsOfRow(k, rows[k][c])'
  BY <1>1, <1>5 DEF CellIsOfRow
<1>7. EdgesAreWhole'
  BY <1>1 DEF EdgesAreWhole
<1>8. DOMAIN rows' = RowKeys /\ \A k \in RowKeys : DOMAIN rows'[k] = AllColumns
  <2>1. "ip" \in AllColumns
    BY DEF AllColumns
  <2> QED
    BY <1>1, <1>5, <2>1
<1> QED
  BY <1>1, <1>6, <1>7, <1>8 DEF NeighbourInv

\* The edges of a walk are whole.
LEMMA BuiltIsWhole ==
    ASSUME NeighbourInv, BuildEdges
    PROVE  EdgesAreWhole'
<1>1. /\ result'.edges = {EdgeOf(k) : k \in EdgeRows} /\ result'.oos = {EdgeOf(k) : k \in Reported \ EdgeRows}
      /\ UNCHANGED <<witnessed, scope>>
  BY DEF BuildEdges
<1>2. EdgeRows \subseteq Reported
  BY DEF EdgeRows
<1>3. ASSUME NEW e \in result'.edges \cup result'.oos PROVE \E n \in witnessed : e = {n.who}
  <2>1. PICK k \in Reported : e = EdgeOf(k)
    BY <1>1, <1>2, <1>3
  <2> QED
    BY <2>1, RowIsWhole
<1>4. ASSUME scope = "inside", NEW e \in result'.edges, NEW who \in e PROVE N(who).ip = 1
  <2>1. PICK k \in EdgeRows : e = EdgeOf(k)
    BY <1>1, <1>4
  <2>2. k \in Reported /\ k \in RowKeys
    BY <1>2, <2>1 DEF Reported
  <2>3. e = {N(k[2]).who} /\ N(k[2]).ip = 1 /\ N(k[2]).who = k[2]
    BY <1>4, <2>1, <2>2, RowIsWhole, RowHasNeighbour
  <2> QED
    BY <1>4, <2>3
<1> QED
  BY <1>1, <1>3, <1>4 DEF EdgesAreWhole

\* Every step keeps the invariant.
LEMMA NeighbourStep == NeighbourInv /\ [NeighbourNext]_neighbourVars => NeighbourInv'
<1> SUFFICES ASSUME NeighbourInv, [NeighbourNext]_neighbourVars PROVE NeighbourInv'
  OBVIOUS
<1>1. CASE TableChanges
  <2>1. /\ UNCHANGED <<proto, scope, rows, result>> /\ result = NoResult
        /\ witnessed' = witnessed \cup (IF proto \in Stateful THEN up' ELSE present')
    BY <1>1 DEF TableChanges
  <2>2. present' \subseteq Neighbours /\ up' \subseteq present'
    BY <1>1 DEF TableChanges, NeighbourInv
  <2> QED
    BY <2>1, <2>2, SameRows DEF NeighbourInv
<1>2. CASE PolicyFails
  <2>1. UNCHANGED <<proto, scope, present, up, rows, witnessed>> /\ result'.edges = {} /\ result'.oos = {}
    BY <1>2 DEF PolicyFails
  <2>2. EdgesAreWhole'
    BY <2>1 DEF EdgesAreWhole
  <2> QED
    BY <2>1, <2>2 DEF NeighbourInv, CellIsOfRow
<1>3. CASE ReadColumn
  BY <1>3, ColumnKeeps
<1>4. CASE ColumnFails
  <2>1. /\ UNCHANGED <<proto, scope, present, up, rows, witnessed>>
        /\ UNCHANGED result \/ (result'.edges = {} /\ result'.oos = {})
    BY <1>4, SMTT(30) DEF ColumnFails
  <2>2. EdgesAreWhole'
    BY <2>1, SMTT(30) DEF EdgesAreWhole, NeighbourInv
  <2> QED
    BY <2>1, <2>2 DEF NeighbourInv, CellIsOfRow
<1>5. CASE BuildEdges
  <2>1. UNCHANGED <<proto, scope, present, up, rows, witnessed>>
    BY <1>5 DEF BuildEdges
  <2> QED
    BY <1>5, <2>1, BuiltIsWhole DEF NeighbourInv, CellIsOfRow
<1>6. CASE NextWalk
  <2>1. /\ UNCHANGED <<proto, scope, present, up>> /\ rows' = NoRows /\ result' = NoResult
        /\ witnessed' = IF proto \in Stateful THEN up ELSE present
    BY <1>6 DEF NextWalk
  <2>2. \A k \in RowKeys, c \in AllColumns : CellIsOfRow(k, rows[k][c])'
    <3>1. \A k \in RowKeys, c \in AllColumns : rows'[k][c] = Unread
      BY <2>1, UnreadRows
    <3>2. Unread.from = 0 /\ ~Unread.good /\ ~Unread.up
      BY DEF Unread
    <3> QED
      BY <3>1, <3>2 DEF CellIsOfRow
  <2>3. EdgesAreWhole'
    BY <2>1 DEF EdgesAreWhole
  <2> QED
    BY <2>1, <2>2, <2>3, UnreadRows DEF NeighbourInv
<1>7. CASE UNCHANGED neighbourVars
  BY <1>7, SameRows DEF neighbourVars, NeighbourInv
<1> QED
  BY <1>1, <1>2, <1>3, <1>4, <1>5, <1>6, <1>7 DEF NeighbourNext

\* An edge never mixes two neighbours and never names one that the walk did not witness,
\* for any neighbours and however often the table changes under the walk.
THEOREM WalksAreWhole == NeighbourSpec => []EdgesAreWhole
<1>1. NeighbourInv => EdgesAreWhole
  BY DEF NeighbourInv
<1> QED
  BY <1>1, NeighbourStart, NeighbourStep, PTL DEF NeighbourSpec

-----------------------------------------------------------------------------
(* FdbWalk                                                                 *)

\* Where the walk is, and what it has read by then when nothing was left out.  A walk whose
\* context has ended does not return.
FdbInv ==
    /\ bridge \in Bridges
    /\ fdbPc \in {"bmib", "qbridge", "vlans", "fan", "ports", "returned", "failed"}
    /\ fdbPc # "fan" => \A i \in DOMAIN job : job[i] = "over"
    /\ signs = {} /\ ~quiet =>
         /\ fdbPc = "qbridge" => entries = bridge.b
         /\ fdbPc \in {"vlans", "fan"} => entries = QBridgeOver(bridge.b, bridge.q)
         /\ fdbPc = "fan" =>
              /\ job \in [DOMAIN bridge.vlans -> {"waiting", "walking", "over"}]
              /\ found = [i \in DOMAIN bridge.vlans |-> found[i]]
              /\ \A i \in DOMAIN job : job[i] = "over" => cancelled \/ found[i] = bridge.vlans[i]
         /\ fdbPc = "ports" => cancelled \/ entries = AllTables(bridge)
         /\ fdbPc = "returned" => fdbResult.edges = Direct(AllTables(bridge), bridge)

\* The merge in the order of the VLANs is that of everything the device knows.
LEMMA AllMerged ==
    ASSUME NEW device
    PROVE  AllTables(device) = Merged(QBridgeOver(device.b, device.q), device.vlans)
BY DEF Merged, AllTables

\* A port with one learned address, said in the two ways.
LEMMA DirectIsAlone ==
    ASSUME NEW t, NEW device
    PROVE  LET macs == Learned(t, device)
               on(p) == {m \in macs : t[m].port = p}
           IN  Direct(t, device) = {<<t[m].port, m>> : m \in {x \in macs :
                                        t[x].port \in device.mapped /\ on(t[x].port) = {x}}}
<1> DEFINE macs == Learned(t, device)
           on(p) == {m \in macs : t[m].port = p}
<1>1. \A x \in macs : (\A other \in macs \ {x} : t[other].port # t[x].port) <=> on(t[x].port) = {x}
  OBVIOUS
<1> HIDE DEF macs
<1>2. {x \in macs : t[x].port \in device.mapped /\ \A other \in macs \ {x} : t[other].port # t[x].port}
        = {x \in macs : t[x].port \in device.mapped /\ on(t[x].port) = {x}}
  BY <1>1
<1> QED
  BY <1>2 DEF Direct, macs

\* The list of VLANs is whole when nothing is said of it.
LEMMA AllListed ==
    ASSUME FdbInv, ListVlans, signs' = {}, ~quiet'
    PROVE  /\ signs = {} /\ ~quiet
           /\ job' = [i \in DOMAIN bridge.vlans |-> "waiting"]
           /\ found' = [i \in DOMAIN bridge.vlans |-> NoTable]
<1>1. bridge.vlans \in Seq(Range(bridge.vlans)) /\ MaxVlans \in Nat
  BY FdbAssumption DEF FdbInv
<1>2. DOMAIN bridge.vlans = 1..Len(bridge.vlans) /\ Len(bridge.vlans) \in Nat
      /\ (bridge.vlans = <<>> => Len(bridge.vlans) = 0)
  BY <1>1, SMTT(30)
<1>3. PICK n \in {Len(bridge.vlans), 0} :
        LET walked == IF ~bridge.indexed THEN 0 ELSE IF n > MaxVlans THEN MaxVlans ELSE n IN
        /\ job' = [i \in 1..walked |-> "waiting"]
        /\ found' = [i \in 1..walked |-> NoTable]
        /\ signs' = (IF bridge.indexed /\ n > MaxVlans THEN signs \cup {"truncated"} ELSE signs)
        /\ quiet' = (quiet \/ ((n = 0 \/ ~bridge.indexed) /\ bridge.vlans # <<>>))
  BY DEF ListVlans
<1>4. signs = {} /\ ~(bridge.indexed /\ n > MaxVlans)
  BY <1>3
<1>5. ~quiet /\ ~((n = 0 \/ ~bridge.indexed) /\ bridge.vlans # <<>>)
  BY <1>3
<1>6. CASE bridge.vlans = <<>>
  <2>1. n = 0
    BY <1>2, <1>6
  <2>2. (IF ~bridge.indexed THEN 0 ELSE IF n > MaxVlans THEN MaxVlans ELSE n) = 0
    BY <1>4, <2>1
  <2>3. 1..0 = DOMAIN bridge.vlans
    BY <1>2, <1>6
  <2> QED
    BY <1>3, <1>4, <1>5, <2>2, <2>3
<1>7. CASE bridge.vlans # <<>>
  <2>1. n # 0 /\ bridge.indexed
    BY <1>5, <1>7
  <2>2. n = Len(bridge.vlans)
    BY <2>1
  <2>3. (IF ~bridge.indexed THEN 0 ELSE IF n > MaxVlans THEN MaxVlans ELSE n) = n
    BY <1>4, <2>1
  <2> QED
    BY <1>2, <1>3, <1>4, <1>5, <2>2, <2>3
<1> QED
  BY <1>6, <1>7

\* The goroutines of the VLANs are all over: every table has been read, or the context
\* has ended.
LEMMA AllRead ==
    ASSUME FdbInv, MergeVlans, signs = {}, ~quiet, ~cancelled
    PROVE  entries' = AllTables(bridge)
<1>1. /\ entries = QBridgeOver(bridge.b, bridge.q) /\ found = [i \in DOMAIN bridge.vlans |-> found[i]]
      /\ \A i \in DOMAIN bridge.vlans : found[i] = bridge.vlans[i]
  BY DEF FdbInv, MergeVlans
<1>2. bridge.vlans \in Seq(Range(bridge.vlans))
  BY FdbAssumption DEF FdbInv
<1>3. bridge.vlans = [i \in DOMAIN bridge.vlans |-> bridge.vlans[i]]
  BY <1>2, SMTT(30)
<1>4. found = bridge.vlans
  BY <1>1, <1>3
<1> QED
  BY <1>1, <1>4, AllMerged DEF MergeVlans

\* What a step of one VLAN leaves.
LEMMA VlanKeeps ==
    ASSUME FdbInv, NEW i \in DOMAIN job, VlanStep(i)
    PROVE  FdbInv'
<1>1. /\ fdbPc = "fan" /\ UNCHANGED <<bridge, fdbPc, entries, cancelled, quiet, fdbResult>>
      /\ \A j \in DOMAIN job : job[j] = "over" \/ job[j] # "over"
  BY DEF FdbInv, VlanStep, TakeSlot, GiveUp, ReadVlan, VlanFails, VlanPanics
<1>2. ASSUME signs' = {}, ~quiet'
      PROVE  /\ signs = {} /\ ~quiet
             /\ job' \in [DOMAIN bridge.vlans -> {"waiting", "walking", "over"}]
             /\ found' = [j \in DOMAIN bridge.vlans |-> found'[j]]
             /\ \A j \in DOMAIN job' : job'[j] = "over" => cancelled \/ found'[j] = bridge.vlans[j]
  <2>1. signs = {} /\ ~quiet
    BY <1>1, <1>2 DEF VlanStep, TakeSlot, GiveUp, ReadVlan, VlanFails, VlanPanics
  <2>2. /\ job \in [DOMAIN bridge.vlans -> {"waiting", "walking", "over"}]
        /\ found = [j \in DOMAIN bridge.vlans |-> found[j]]
        /\ \A j \in DOMAIN job : job[j] = "over" => cancelled \/ found[j] = bridge.vlans[j]
    BY <1>1, <2>1 DEF FdbInv
  <2>3. CASE TakeSlot(i)
    BY <2>1, <2>2, <2>3 DEF TakeSlot
  <2>4. CASE GiveUp(i)
    BY <2>1, <2>2, <2>4 DEF GiveUp, Over
  <2>5. CASE ReadVlan(i)
    BY <2>1, <2>2, <2>5 DEF ReadVlan, Over
  <2>6. CASE VlanFails(i) \/ VlanPanics(i)
    BY <1>2, <2>6 DEF VlanFails, VlanPanics
  <2> QED
    BY <2>3, <2>4, <2>5, <2>6 DEF VlanStep
<1> QED
  BY <1>1, <1>2 DEF FdbInv

\* Every step keeps the invariant.
LEMMA FdbStep == FdbInv /\ [FdbNext]_fdbVars => FdbInv'
<1> SUFFICES ASSUME FdbInv, [FdbNext]_fdbVars PROVE FdbInv'
  OBVIOUS
<1>1. CASE Cancel
  BY <1>1 DEF Cancel, FdbInv
<1>2. CASE ReadBridgeTable
  BY <1>2 DEF ReadBridgeTable, FdbInv
<1>3. CASE ReadQBridgeTable
  BY <1>3 DEF ReadQBridgeTable, FdbInv
<1>4. CASE ListVlans
  <2>1. /\ fdbPc = "vlans" /\ fdbPc' = "fan" /\ UNCHANGED <<bridge, entries, used, cancelled, fdbResult>>
    BY <1>4 DEF ListVlans
  <2>2. ASSUME signs' = {}, ~quiet'
        PROVE  /\ job' \in [DOMAIN bridge.vlans -> {"waiting", "walking", "over"}]
               /\ found' = [i \in DOMAIN bridge.vlans |-> found'[i]]
               /\ \A i \in DOMAIN job' : job'[i] # "over"
               /\ entries = QBridgeOver(bridge.b, bridge.q)
    BY <1>4, <2>1, <2>2, AllListed DEF FdbInv
  <2> QED
    BY <2>1, <2>2 DEF FdbInv
<1>5. ASSUME NEW i \in DOMAIN job, VlanStep(i) PROVE FdbInv'
  BY <1>5, VlanKeeps
<1>6. CASE MergeVlans
  <2>1. /\ fdbPc' = "ports" /\ UNCHANGED <<bridge, job, found, used, cancelled, signs, quiet, fdbResult>>
        /\ \A i \in DOMAIN job : job[i] = "over"
    BY <1>6 DEF MergeVlans
  <2>2. signs = {} /\ ~quiet => cancelled \/ entries' = AllTables(bridge)
    BY <1>6, <2>1, AllRead
  <2> QED
    BY <2>1, <2>2 DEF FdbInv
<1>7. CASE ReadPorts
  <2>1. /\ fdbPc = "ports" /\ fdbPc' \in {"returned", "failed"}
        /\ UNCHANGED <<bridge, entries, job, found, used, cancelled, signs, quiet>>
        /\ fdbPc' = "returned" => ~cancelled /\ fdbResult'.edges = Direct(entries, bridge)
    BY <1>7, SMTT(30) DEF ReadPorts
  <2> QED
    BY <2>1 DEF FdbInv
<1>8. CASE NextBridge
  BY <1>8, SMTT(30) DEF NextBridge, FdbInv
<1>9. CASE UNCHANGED fdbVars
  BY <1>9 DEF fdbVars, FdbInv
<1> QED
  BY <1>1, <1>2, <1>3, <1>4, <1>5, <1>6, <1>7, <1>8, <1>9 DEF FdbNext

\* The FDB walker takes no trunk for a link, for every number of VLANs and of slots, every
\* device and every order in which its goroutines end.
THEOREM TrunksAreLeftOut == FdbSpec => []TrunksAreNotLinks
<1>1. FdbInit => FdbInv
  BY SMT DEF FdbInit, FdbInv
<1>2. FdbInv => TrunksAreNotLinks
  BY DirectIsAlone DEF FdbInv, TrunksAreNotLinks
<1> QED
  BY <1>1, <1>2, FdbStep, PTL DEF FdbSpec

-----------------------------------------------------------------------------
(* EdgeSynthesis                                                           *)

\* What has come is of the targets and of their form.
AnswersFit ==
    /\ arrived \in Seq(DOMAIN Polled)
    /\ answer = [t \in DOMAIN Polled |-> answer[t]] /\ \A t \in DOMAIN Polled : IsReturn(answer[t])

\* A graph has one entry for a neighbour.
OneEach(known) == \A n, o \in known : n.at = o.at /\ n.hint = o.hint => n = o

SynthInv == AnswersFit /\ OneEach(prev) /\ FirstSeenSticks

\* The targets are numbers.
LEMMA TargetsAre == DOMAIN Polled = 1..Len(Polled) /\ Len(Polled) \in Nat
BY PolledAssumption, SMTT(30)

\* The sorted results are targets.
LEMMA ResultsAre ==
    ASSUME NEW came, Range(came) \subseteq DOMAIN Polled
    PROVE  Results(came) \in Seq(DOMAIN Polled)
<1> DEFINE s == [t \in DOMAIN Polled |-> t]
           at == Range(came)
<1>1. s \in Seq(DOMAIN Polled) /\ DOMAIN s = DOMAIN Polled /\ \A t \in at : s[t] \in DOMAIN Polled
  BY TargetsAre, SMTT(30)
<1> HIDE DEF s, at
<1>2. at \in SUBSET (DOMAIN s)
  BY <1>1 DEF at
<1>3. Kept(s, at) \in Seq(DOMAIN Polled)
  BY <1>1, <1>2, KeptIsSeq
<1> QED
  BY <1>3 DEF Results, s, at

\* The edges of a cycle are edges of its walks.
LEMMA RawAre ==
    ASSUME NEW came, AnswersFit, Range(came) \subseteq DOMAIN Polled
    PROVE  RawEdges(came) \in Seq(FromWalk)
<1> DEFINE r == Results(came)
           seqs == [i \in DOMAIN r |-> answer[r[i]].edges]
<1>1. r \in Seq(DOMAIN Polled)
  BY ResultsAre
<1> HIDE DEF r
<1>2. seqs \in Seq(Seq(FromWalk))
  <2>1. \A i \in DOMAIN r : answer[r[i]].edges \in Seq(FromWalk)
    BY <1>1, SMTT(30) DEF AnswersFit, IsReturn
  <2>2. DOMAIN r = 1..Len(r) /\ Len(r) \in Nat
    BY <1>1, SMTT(30)
  <2> QED
    BY <2>1, <2>2, SMTT(20)
<1>3. RawEdges(came) = FlattenSeq(seqs)
  BY DEF RawEdges, r
<1> HIDE DEF seqs
<1> QED
  BY <1>2, <1>3, FlattenIsSeq

\* DeduplicateOOS returns one entry for a neighbour.
LEMMA DedupIsOneEach ==
    ASSUME AnswersFit
    PROVE  OneEach(DeduplicateOOS(arrived))
<1> DEFINE r == Results(arrived)
           seqs == [i \in DOMAIN r |-> answer[r[i]].oos]
           all == FlattenSeq(seqs)
           of(n) == {i \in DOMAIN all : all[i].at = n.at /\ all[i].hint = n.hint}
<1>1. Range(arrived) \subseteq DOMAIN Polled
  BY SMTT(30) DEF AnswersFit, Range
<1>2. r \in Seq(DOMAIN Polled)
  BY <1>1, ResultsAre
<1>3. DeduplicateOOS(arrived) = {First(all, of(n)) : n \in Range(all)}
  BY DEF DeduplicateOOS
<1> HIDE DEF r
<1>4. seqs \in Seq(Seq(Outsider))
  <2>1. \A i \in DOMAIN r : answer[r[i]].oos \in Seq(Outsider)
    BY <1>2, SMTT(30) DEF AnswersFit, IsReturn
  <2>2. DOMAIN r = 1..Len(r) /\ Len(r) \in Nat
    BY <1>2, SMTT(30)
  <2> QED
    BY <2>1, <2>2, SMTT(20)
<1> HIDE DEF seqs
<1>5. all \in Seq(Outsider)
  BY <1>4, FlattenIsSeq
<1> HIDE DEF all
<1>6. DOMAIN all \subseteq Nat
  BY <1>5, SMTT(30)
<1>7. ASSUME NEW n \in Range(all)
      PROVE  First(all, of(n)).at = n.at /\ First(all, of(n)).hint = n.hint
  <2>1. of(n) # {} /\ of(n) \in SUBSET Nat
    BY <1>6 DEF Range
  <2>2. Min(of(n)) \in of(n)
    <3> HIDE DEF of
    <3> QED
      BY <2>1, MinIsIn
  <2> QED
    BY <2>2 DEF First
<1>8. \A n, o \in Range(all) : n.at = o.at /\ n.hint = o.hint => of(n) = of(o)
  OBVIOUS
<1> HIDE DEF of
<1>9. ASSUME NEW n \in Range(all), NEW o \in Range(all),
             First(all, of(n)).at = First(all, of(o)).at, First(all, of(n)).hint = First(all, of(o)).hint
      PROVE  First(all, of(n)) = First(all, of(o))
  BY <1>7, <1>8, <1>9
<1> QED
  BY <1>3, <1>9 DEF OneEach

\* The times are kept for the neighbours that are still there.
LEMMA MergeKeepsFirstSeen ==
    ASSUME NEW new, OneEach(prev), OneEach(new), FirstSeenSticks, NEW later, NEW first,
           later = MergeOOSFirstSeen(new, prev),
           first = {s \in since : \E n \in new : s[1] = n.at /\ s[2] = n.hint}
                     \cup {<<n.at, n.hint, tick>> : n \in {x \in new : \A s \in since : ~(s[1] = x.at /\ s[2] = x.hint)}}
    PROVE  OneEach(later) /\ first = {<<n.at, n.hint, n.seen>> : n \in later}
<1> DEFINE was(n) == {o \in prev : o.at = n.at /\ o.hint = n.hint}
           when(n) == IF was(n) = {} THEN tick ELSE (CHOOSE o \in was(n) : TRUE).seen
           entry(n) == [at |-> n.at, hint |-> n.hint, proto |-> n.proto, seen |-> when(n)]
<1>1. later = {entry(n) : n \in new}
  BY DEF MergeOOSFirstSeen
<1>2. \A n : entry(n).at = n.at /\ entry(n).hint = n.hint /\ entry(n).seen = when(n)
  OBVIOUS
<1>3. since = {<<o.at, o.hint, o.seen>> : o \in prev}
  BY DEF FirstSeenSticks
<1>4. ASSUME NEW n \in new, NEW o \in was(n) PROVE when(n) = o.seen /\ <<n.at, n.hint, o.seen>> \in since
  <2> DEFINE c == CHOOSE x \in was(n) : TRUE
  <2>1. c \in was(n)
    BY <1>4
  <2>2. c = o
    BY <1>4, <2>1 DEF OneEach
  <2>3. when(n) = c.seen
    BY <1>4
  <2>4. <<o.at, o.hint, o.seen>> \in since /\ o.at = n.at /\ o.hint = n.hint
    BY <1>3, <1>4
  <2> QED
    BY <2>2, <2>3, <2>4
<1>5. ASSUME NEW n \in new, was(n) = {} PROVE when(n) = tick /\ \A s \in since : ~(s[1] = n.at /\ s[2] = n.hint)
  <2>1. when(n) = tick
    BY <1>5
  <2> QED
    BY <1>3, <1>5, <2>1, SMTT(30)
<1>6. ASSUME NEW n \in new, NEW s \in since, s[1] = n.at, s[2] = n.hint
      PROVE  \E o \in was(n) : s = <<n.at, n.hint, o.seen>>
  BY <1>3, <1>6, SMTT(20)
<1> HIDE DEF entry, when
<1>7. OneEach(later)
  BY <1>1, <1>2, SMTT(30) DEF OneEach
<1>8. ASSUME NEW n \in later PROVE <<n.at, n.hint, n.seen>> \in first
  <2>1. PICK m \in new : n = entry(m)
    BY <1>1
  <2>2. <<n.at, n.hint, n.seen>> = <<m.at, m.hint, when(m)>>
    BY <1>2, <2>1
  <2>3. CASE was(m) = {}
    <3>1. when(m) = tick /\ \A s \in since : ~(s[1] = m.at /\ s[2] = m.hint)
      BY <1>5, <2>3
    <3> QED
      BY <2>2, <3>1
  <2>4. CASE was(m) # {}
    <3>1. PICK o \in was(m) : TRUE
      BY <2>4
    <3>2. <<m.at, m.hint, when(m)>> \in since
      BY <1>4, <3>1
    <3> QED
      BY <2>2, <3>2
  <2> QED
    BY <2>3, <2>4
<1>9. ASSUME NEW f \in first PROVE \E n \in later : f = <<n.at, n.hint, n.seen>>
  <2>1. CASE f \in since /\ \E n \in new : f[1] = n.at /\ f[2] = n.hint
    <3>1. PICK n \in new : f[1] = n.at /\ f[2] = n.hint
      BY <2>1
    <3>2. PICK o \in was(n) : f = <<n.at, n.hint, o.seen>>
      BY <1>6, <2>1, <3>1
    <3>3. f = <<n.at, n.hint, when(n)>>
      BY <1>4, <3>2
    <3> QED
      BY <1>1, <1>2, <3>3
  <2>2. CASE \E n \in new : f = <<n.at, n.hint, tick>> /\ \A s \in since : ~(s[1] = n.at /\ s[2] = n.hint)
    <3>1. PICK n \in new : f = <<n.at, n.hint, tick>> /\ \A s \in since : ~(s[1] = n.at /\ s[2] = n.hint)
      BY <2>2
    <3>2. was(n) = {}
      <4> SUFFICES ASSUME NEW o \in was(n) PROVE FALSE
        OBVIOUS
      <4> QED
        BY <1>4, <3>1
    <3>3. f = <<n.at, n.hint, when(n)>>
      BY <1>5, <3>1, <3>2
    <3> QED
      BY <1>1, <1>2, <3>3
  <2> QED
    BY <1>9, <2>1, <2>2
<1> QED
  BY <1>7, <1>8, <1>9

\* Every step keeps the invariant.
LEMMA SynthStep == SynthInv /\ [SynthNext]_synthVars => SynthInv'
<1> SUFFICES ASSUME SynthInv, [SynthNext]_synthVars PROVE SynthInv'
  OBVIOUS
<1> USE DEF SynthInv
<1>1. CASE Arrive
  <2>1. PICK t \in DOMAIN Polled \ Range(arrived) : \E r \in Returns[t] :
          answer' = [answer EXCEPT ![t] = r] /\ arrived' = Append(arrived, t) /\ UNCHANGED <<prev, tick, since>>
    BY <1>1 DEF Arrive
  <2>2. PICK r \in Returns[t] : answer' = [answer EXCEPT ![t] = r]
    BY <2>1
  <2>3. IsReturn(r)
    BY <2>1, PolledAssumption
  <2>4. arrived' \in Seq(DOMAIN Polled)
    BY <2>1, SMTT(30) DEF AnswersFit
  <2>5. answer' = [u \in DOMAIN Polled |-> answer'[u]] /\ \A u \in DOMAIN Polled : answer'[u] = IF u = t THEN r ELSE answer[u]
    BY <2>1, <2>2 DEF AnswersFit
  <2>6. AnswersFit'
    BY <2>3, <2>4, <2>5 DEF AnswersFit
  <2> QED
    BY <2>1, <2>6 DEF FirstSeenSticks
<1>2. CASE EndOfCycle
  <2>1. AnswersFit'
    <3>1. IsReturn(NoAnswer)
      BY SMT DEF IsReturn, NoAnswer, Range
    <3>2. arrived' = <<>> /\ answer' = [t \in DOMAIN Polled |-> NoAnswer]
      BY <1>2 DEF EndOfCycle
    <3> QED
      BY <3>1, <3>2, SMTT(20) DEF AnswersFit
  <2>2. CASE UNCHANGED <<prev, since>>
    BY <2>1, <2>2 DEF FirstSeenSticks
  <2>3. CASE ~UNCHANGED <<prev, since>>
    <3> DEFINE new == DeduplicateOOS(arrived)
    <3>1. /\ prev' = MergeOOSFirstSeen(new, prev)
          /\ since' = {s \in since : \E n \in new : s[1] = n.at /\ s[2] = n.hint}
                        \cup {<<n.at, n.hint, tick>> : n \in {x \in new :
                                 \A s \in since : ~(s[1] = x.at /\ s[2] = x.hint)}}
      BY <1>2, <2>3 DEF EndOfCycle
    <3>2. OneEach(new)
      BY DedupIsOneEach
    <3> HIDE DEF new
    <3>3. OneEach(prev') /\ since' = {<<n.at, n.hint, n.seen>> : n \in prev'}
      BY <3>1, <3>2, MergeKeepsFirstSeen
    <3> QED
      BY <2>1, <3>3 DEF FirstSeenSticks, OneEach
  <2> QED
    BY <2>2, <2>3
<1>3. CASE UNCHANGED synthVars
  BY <1>3 DEF synthVars, AnswersFit, FirstSeenSticks, OneEach
<1> QED
  BY <1>1, <1>2, <1>3 DEF SynthNext, NoMoreTicks

\* What holds of every state of the synthesis.
THEOREM SynthInvariant == SynthSpec => []SynthInv
<1>1. SynthInit => SynthInv
  <2> SUFFICES ASSUME SynthInit PROVE SynthInv
    OBVIOUS
  <2>1. IsReturn(NoAnswer)
    BY SMTT(30) DEF IsReturn, NoAnswer, Range
  <2> QED
    BY <2>1, SMTT(30) DEF SynthInit, SynthInv, AnswersFit, OneEach, FirstSeenSticks
<1> QED
  BY <1>1, SynthStep, PTL DEF SynthSpec

\* FirstSeen of an out-of-scope neighbour is the first of the accepted cycles in a row that
\* have it, for every set of targets and whatever their probes return.
THEOREM FirstSeenIsKept == SynthSpec => []FirstSeenSticks
<1>1. SynthInv => FirstSeenSticks
  BY DEF SynthInv
<1> QED
  BY <1>1, SynthInvariant, PTL

-----------------------------------------------------------------------------
(* The order of the probes                                                 *)

\* The ARP tables give a MAC the same address in every order, unless two of them disagree.
LEMMA ArpOrderFree ==
    ASSUME SynthInv, ~Conflicting, NEW came \in [DOMAIN arrived -> Range(arrived)], Range(came) = Range(arrived)
    PROVE  ArpMacToIp(came) = ArpMacToIp(arrived)
<1> DEFINE macsOf(t) == {p[1] : p \in answer[t].arp}
           firstOf(seq, m) == First(seq, {i \in DOMAIN seq : m \in macsOf(seq[i])})
           ipOf(t, m) == CHOOSE ip \in {p[2] : p \in answer[t].arp} : <<m, ip>> \in answer[t].arp
           macs == UNION {macsOf(t) : t \in Range(arrived)}
<1>1. Range(arrived) \subseteq DOMAIN Polled /\ DOMAIN arrived \subseteq Nat
  BY SMTT(30) DEF SynthInv, AnswersFit, Range
<1>2. /\ ArpMacToIp(came) = [m \in macs |-> ipOf(firstOf(came, m), m)]
      /\ ArpMacToIp(arrived) = [m \in macs |-> ipOf(firstOf(arrived, m), m)]
  BY DEF ArpMacToIp
<1>3. ASSUME NEW t \in Range(arrived), NEW m \in macsOf(t) PROVE <<m, ipOf(t, m)>> \in answer[t].arp
  <2>1. answer[t].arp \subseteq Nat \X Nat
    BY <1>1 DEF SynthInv, AnswersFit, IsReturn
  <2>2. PICK p \in answer[t].arp : p[1] = m
    OBVIOUS
  <2>3. p = <<m, p[2]>>
    BY <2>1, <2>2, SMTT(20)
  <2>4. \E ip \in {q[2] : q \in answer[t].arp} : <<m, ip>> \in answer[t].arp
    BY <2>2, <2>3
  <2> QED
    BY <2>4
<1>4. ASSUME NEW seq, DOMAIN seq \subseteq Nat, NEW m, \E t \in Range(seq) : m \in macsOf(t)
      PROVE  firstOf(seq, m) \in Range(seq) /\ m \in macsOf(firstOf(seq, m))
  <2> DEFINE at == {i \in DOMAIN seq : m \in macsOf(seq[i])}
  <2>1. at # {} /\ at \in SUBSET Nat
    BY <1>4 DEF Range
  <2>2. Min(at) \in at
    <3> HIDE DEF at
    <3> QED
      BY <2>1, MinIsIn
  <2>3. firstOf(seq, m) = seq[Min(at)]
    BY DEF First
  <2>4. Min(at) \in DOMAIN seq /\ m \in macsOf(seq[Min(at)])
    BY <2>2
  <2> HIDE DEF at, macsOf
  <2> QED
    BY <2>3, <2>4 DEF Range
<1> HIDE DEF macsOf, ipOf, firstOf
<1>5. ASSUME NEW m \in macs PROVE ipOf(firstOf(came, m), m) = ipOf(firstOf(arrived, m), m)
  <2>1. \E t \in Range(arrived) : m \in macsOf(t)
    OBVIOUS
  <2>2. DOMAIN came = DOMAIN arrived
    OBVIOUS
  <2> DEFINE t == firstOf(came, m)
             u == firstOf(arrived, m)
  <2>3. t \in Range(arrived) /\ m \in macsOf(t)
    BY <1>1, <1>4, <2>1, <2>2
  <2>4. u \in Range(arrived) /\ m \in macsOf(u)
    BY <1>1, <1>4, <2>1
  <2> HIDE DEF t, u
  <2>5. <<m, ipOf(t, m)>> \in answer[t].arp /\ <<m, ipOf(u, m)>> \in answer[u].arp
    BY <1>3, <2>3, <2>4
  <2>6. ipOf(t, m) = ipOf(u, m)
    BY <2>3, <2>4, <2>5, SMTT(60) DEF Conflicting
  <2> QED
    BY <2>6 DEF t, u
<1> HIDE DEF macs
<1> QED
  BY <1>2, <1>5

\* The edges of a cycle do not depend on the order in which its probes ended, for every
\* number of targets, unless two ARP tables disagree.
THEOREM OrderIsFree == SynthSpec => []SynthesisOrderFree
<1>1. SynthInv => SynthesisOrderFree
  <2> SUFFICES ASSUME SynthInv, ~Conflicting, NEW came \in [DOMAIN arrived -> Range(arrived)],
                      Range(came) = Range(arrived)
               PROVE  SynthesizeEdges(came) = SynthesizeEdges(arrived)
    BY DEF SynthesisOrderFree
  <2>1. Results(came) = Results(arrived)
    BY DEF Results
  <2>2. RawEdges(came) = RawEdges(arrived) /\ IpToId(came) = IpToId(arrived)
    BY <2>1 DEF RawEdges, IpToId
  <2>3. ArpMacToIp(came) = ArpMacToIp(arrived)
    BY ArpOrderFree
  <2> QED
    BY <2>2, <2>3 DEF SynthesizeEdges
<1> QED
  BY <1>1, SynthInvariant, PTL

-----------------------------------------------------------------------------
(* The ends of the edges of forwarding tables                              *)

\* What is resolved of an edge that is kept.
LEMMA KeptResolves ==
    ASSUME NEW e, NEW ipToId, NEW macToId, e \in FromWalk, Keep(e, macToId), e.proto = "fdb"
    PROVE  Resolved(e, ipToId, macToId)[1] = "name"
<1>1. e.dst[1] = "mac" /\ ParseMAC(e.dst[2]) \in DOMAIN macToId
  BY DEF FromWalk, Keep
<1>2. Resolved(e, ipToId, macToId) = <<"name", macToId[ParseMAC(e.dst[2])]>>
  BY <1>1 DEF Resolved
<1> QED
  BY <1>2, SMTT(30)

\* The protocol and the far end of every edge of the synthesis are those of a resolved one.
LEMMA SynthesizedAre ==
    ASSUME NEW raw \in Seq(FromWalk), NEW ipToId, NEW macToId,
           NEW e \in Range(Backfill(ResolveEdgeDstDevices(raw, ipToId, macToId))), e.proto = "fdb"
    PROVE  e.dst[1] = "name"
<1> DEFINE at == {i \in DOMAIN raw : Keep(raw[i], macToId)}
           V == {x \in FromWalk : Keep(x, macToId)}
           kept == Kept(raw, at)
           edges == [i \in DOMAIN kept |-> [kept[i] EXCEPT !.dst = Resolved(kept[i], ipToId, macToId)]]
<1>1. ResolveEdgeDstDevices(raw, ipToId, macToId) = edges
  BY DEF ResolveEdgeDstDevices
<1>2. kept \in Seq(V)
  <2>1. at \in SUBSET (DOMAIN raw) /\ \A i \in at : raw[i] \in V
    BY ElementOfSeq, SMTT(30)
  <2> HIDE DEF at, V
  <2> QED
    BY <2>1, KeptIsSeq
<1> HIDE DEF kept
<1>3. \A i \in DOMAIN kept : kept[i] \in FromWalk /\ Keep(kept[i], macToId)
  BY <1>2, SMTT(30)
<1>4. \A i \in DOMAIN kept : edges[i].proto = kept[i].proto /\ edges[i].dst = Resolved(kept[i], ipToId, macToId)
  BY <1>3 DEF FromWalk, RawEdge
<1>5. \A i \in DOMAIN kept : edges[i].proto = "fdb" => edges[i].dst[1] = "name"
  BY <1>3, <1>4, KeptResolves, SMTT(20)
<1>6. \A i \in DOMAIN kept : edges[i] = [src |-> kept[i].src, sp |-> kept[i].sp, dst |-> edges[i].dst,
                                         dp |-> kept[i].dp, proto |-> kept[i].proto, mac |-> kept[i].mac]
  BY <1>3, <1>4 DEF FromWalk, RawEdge
<1>7. DOMAIN edges = DOMAIN kept
  OBVIOUS
<1> HIDE DEF edges
<1>8. PICK i \in DOMAIN kept : \E dp : e = edges[i] \/ e = [edges[i] EXCEPT !.dp = dp]
  BY <1>1, <1>7 DEF Backfill, Range
<1>9. e.proto = edges[i].proto /\ e.dst = edges[i].dst
  BY <1>6, <1>8
<1> QED
  BY <1>5, <1>9

\* What LLDP names a MAC.
LldpNames(raw, m) ==
    {x.dst : x \in {y \in Range(raw) : y.proto = "lldp" /\ y.dst[1] = "name" /\ y.mac # 0 /\ ParseMAC(y.mac) = m}}

\* If LLDP has a name for a MAC, MacToId has one of those.
LEMMA LldpIsFirst ==
    ASSUME NEW raw \in Seq(FromWalk), NEW ipToId, NEW arp, NEW m, LldpNames(raw, m) # {}
    PROVE  /\ m \in DOMAIN MacToId(raw, ipToId, arp)
           /\ <<"name", MacToId(raw, ipToId, arp)[m]>> \in LldpNames(raw, m)
<1> DEFINE named  == {i \in DOMAIN raw : raw[i].proto = "lldp" /\ raw[i].mac # 0 /\ raw[i].dst[1] = "name"}
           lldp   == {ParseMAC(raw[i].mac) : i \in named}
           viaArp == {k \in DOMAIN arp : arp[k] \in DOMAIN ipToId}
           at     == {i \in named : ParseMAC(raw[i].mac) = m}
<1>1. MacToId(raw, ipToId, arp) = [k \in lldp \cup viaArp |->
            IF k \in lldp THEN First(raw, {i \in named : ParseMAC(raw[i].mac) = k}).dst[2] ELSE ipToId[arp[k]]]
  BY DEF MacToId
<1>2. at # {} /\ at \in SUBSET Nat /\ m \in lldp
  BY SMTT(30) DEF Range, LldpNames
<1>3. m \in DOMAIN MacToId(raw, ipToId, arp) /\ MacToId(raw, ipToId, arp)[m] = raw[Min(at)].dst[2]
  BY <1>1, <1>2 DEF First
<1>4. Min(at) \in at
  <2> HIDE DEF at
  <2> QED
    BY <1>2, MinIsIn
<1> DEFINE y == raw[Min(at)]
<1>5. y \in Range(raw) /\ y.proto = "lldp" /\ y.dst[1] = "name" /\ y.mac # 0 /\ ParseMAC(y.mac) = m
  BY <1>4 DEF Range
<1>6. y.dst \in {"name", "ip", "mac"} \X Nat
  <2>1. y \in FromWalk
    <3>1. Min(at) \in DOMAIN raw
      BY <1>4
    <3>2. \A i \in DOMAIN raw : raw[i] \in FromWalk
      BY ONLY raw \in Seq(FromWalk), ElementOfSeq, SMTT(20)
    <3> QED
      BY <3>1, <3>2
  <2> QED
    BY <2>1 DEF FromWalk, RawEdge
<1> HIDE DEF y
<1>7. y.dst = <<"name", y.dst[2]>>
  <2> DEFINE d == y.dst
  <2>1. d \in {"name", "ip", "mac"} \X Nat /\ d[1] = "name"
    BY <1>5, <1>6
  <2> HIDE DEF d
  <2>2. d = <<"name", d[2]>>
    BY <2>1, SMTT(30)
  <2> QED
    BY <2>2 DEF d
<1>8. MacToId(raw, ipToId, arp)[m] = y.dst[2]
  BY <1>3 DEF y
<1>9. y.dst \in LldpNames(raw, m)
  BY <1>5 DEF LldpNames
<1> QED
  BY <1>3, <1>7, <1>8, <1>9

\* No forwarding-table edge ends at an address, and LLDP's name for a MAC comes before the
\* ARP tables', for every set of targets and whatever their probes return.
THEOREM FdbEdgesEndAtDevices == SynthSpec => []FdbEndsAtDevices
<1>1. SynthInv => FdbEndsAtDevices
  <2> SUFFICES ASSUME SynthInv PROVE FdbEndsAtDevices
    OBVIOUS
  <2> DEFINE raw     == RawEdges(arrived)
             ipToId  == IpToId(arrived)
             arp     == ArpMacToIp(arrived)
             macToId == MacToId(raw, ipToId, arp)
  <2>1. raw \in Seq(FromWalk)
    <3>1. Range(arrived) \subseteq DOMAIN Polled
      BY SMTT(30) DEF SynthInv, AnswersFit, Range
    <3> QED
      BY <3>1, RawAre DEF SynthInv
  <2>2. SynthesizeEdges(arrived) = Backfill(ResolveEdgeDstDevices(raw, ipToId, macToId))
    BY DEF SynthesizeEdges
  <2> HIDE DEF raw, ipToId, arp
  <2>3. ASSUME NEW e \in Range(SynthesizeEdges(arrived)), e.proto = "fdb" PROVE e.dst[1] = "name"
    <3> HIDE DEF macToId
    <3> QED
      BY <2>1, <2>2, <2>3, SynthesizedAre
  <2>4. ASSUME NEW e \in Range(raw), e.dst[1] = "mac", LldpNames(raw, ParseMAC(e.dst[2])) # {}
        PROVE  Resolved(e, ipToId, macToId) \in LldpNames(raw, ParseMAC(e.dst[2]))
    <3> DEFINE m == ParseMAC(e.dst[2])
    <3>1. m \in DOMAIN macToId /\ <<"name", macToId[m]>> \in LldpNames(raw, m)
      BY <2>1, <2>4, LldpIsFirst
    <3> HIDE DEF macToId
    <3>2. Resolved(e, ipToId, macToId) = <<"name", macToId[m]>>
      BY <2>4, <3>1 DEF Resolved
    <3> QED
      BY <3>1, <3>2
  <2> QED
    BY <2>3, <2>4 DEF FdbEndsAtDevices, LldpNames, raw, ipToId, arp
<1> QED
  BY <1>1, SynthInvariant, PTL
=============================================================================
