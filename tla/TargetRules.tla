---------------------------- MODULE TargetRules ----------------------------
(***************************************************************************)
(* What the configuration says of one target: discovery.target_overrides   *)
(* (internal/config), which narrows the modules walked at an address, and  *)
(* credentials.assignments (internal/credentials), which orders the        *)
(* profiles to try.  Both keep networks sorted by prefix length and take   *)
(* the first that holds the address.                                       *)
(*                                                                         *)
(* Addresses have Bits bits.  An override is [len, net, modules], an       *)
(* assignment [len, net, profiles, exact, canonical]: exact when it names  *)
(* an ip instead of a cidr, canonical when it is spelled as net.IP prints  *)
(* it.                                                                     *)
(***************************************************************************)
EXTENDS Integers, Sequences, FiniteSetsExt

CONSTANTS Bits,
          Overrides, Assignments, \* what an operator may write down
          Enabled,                \* modules.<m>.enabled
          Fallback,               \* credentials.fallback_order
          MaxRules                \* bound on the entries of a file

\* An exact assignment is a network of one address.
ASSUME RulesAssumption ==
    /\ Bits \in Nat /\ MaxRules \in Nat /\ 2^0 = 1
    /\ \A o \in Overrides : o.len \in 0..Bits /\ o.net \in Nat
    /\ \A a \in Assignments : a.len \in 0..Bits /\ a.net \in Nat /\ (a.exact => a.len = Bits)

VARIABLES overrides, assignments,
          loaded          \* "no", "refused" or "running"

ruleVars == <<overrides, assignments, loaded>>

Addresses == 0..(2^Bits - 1)

RulesInit == overrides = <<>> /\ assignments = <<>> /\ loaded = "no"

\* The operator writes the file.
WriteRule ==
    /\ loaded = "no" /\ Len(overrides) + Len(assignments) < MaxRules
    /\ \/ \E o \in Overrides : overrides' = Append(overrides, o) /\ UNCHANGED assignments
       \/ \E a \in Assignments : assignments' = Append(assignments, a) /\ UNCHANGED overrides
    /\ UNCHANGED loaded

\* net.IPNet.Contains, and what ParseCIDR makes of a network with host bits set.
Network(r) == r.net \div 2^(Bits - r.len)
InNet(r, ip) == ip \div 2^(Bits - r.len) = Network(r)

\* Mutated form: networks are compared as they are written.
OverridesValidAsWritten(list) ==
    /\ \A i, j \in DOMAIN list : i # j => <<list[i].len, list[i].net>> # <<list[j].len, list[j].net>>
    /\ \A i \in DOMAIN list : list[i].modules # {} /\ list[i].modules \subseteq Enabled

\* validateTargetOverrides: no network twice, no empty list, enabled modules only.
OverridesValid(list) ==
    /\ \A i, j \in DOMAIN list : i # j => <<list[i].len, Network(list[i])>> # <<list[j].len, Network(list[j])>>
    /\ \A i \in DOMAIN list : list[i].modules # {} /\ list[i].modules \subseteq Enabled

LoadRules ==
    /\ loaded = "no"
    /\ loaded' = IF OverridesValid(overrides) THEN "running" ELSE "refused"
    /\ UNCHANGED <<overrides, assignments>>

\* The process ends; the next one reads another file.
EditRules == loaded # "no" /\ loaded' = "no" /\ overrides' = <<>> /\ assignments' = <<>>

RulesNext == WriteRule \/ LoadRules \/ EditRules
RulesSpec == RulesInit /\ [][RulesNext]_ruleVars

-----------------------------------------------------------------------------
\* sort.SliceStable by prefix length: i comes before j.
LongestFirst(list, i, j) == list[i].len > list[j].len \/ (list[i].len = list[j].len /\ i < j)

\* The loop over the sorted list takes the first of the places that match.
FirstOf(list, hit) == list[CHOOSE i \in hit : \A j \in hit \ {i} : LongestFirst(list, i, j)]

\* ModulesForIP of a list of overrides, intersected with the enabled modules.
ModulesForIP(list, ip) ==
    LET hit == {i \in DOMAIN list : InNet(list[i], ip)}
    IN  IF hit = {} THEN Enabled ELSE FirstOf(list, hit).modules \cap Enabled

\* Resolver.Resolve: an exact assignment spelled as the address prints, the last of several;
\* then the networks; then the fallback order.
ResolveProfiles(ip) ==
    LET exact == {i \in DOMAIN assignments :
                    assignments[i].exact /\ assignments[i].canonical /\ assignments[i].net = ip}
        hit   == {i \in DOMAIN assignments : ~assignments[i].exact /\ InNet(assignments[i], ip)}
    IN  IF exact # {} THEN assignments[Max(exact)].profiles
        ELSE IF hit # {} THEN FirstOf(assignments, hit).profiles ELSE Fallback

-----------------------------------------------------------------------------
Permuted(list) ==
    {[i \in DOMAIN list |-> list[p[i]]] : p \in {f \in [DOMAIN list -> DOMAIN list] : IsInjective(f)}}

\* With an accepted configuration the narrowest rule that names an address decides: the
\* modules walked there are those of the smallest override that holds it, in whatever
\* order the overrides are written, and its profiles come from an assignment than which
\* no other is narrower, where an exact entry counts in its canonical spelling.
NarrowestRuleDecides ==
    loaded = "running" => \A ip \in Addresses :
        /\ \A other \in Permuted(overrides) : ModulesForIP(overrides, ip) = ModulesForIP(other, ip)
        /\ \A i \in DOMAIN overrides :
              InNet(overrides[i], ip) =>
                  \/ ModulesForIP(overrides, ip) = overrides[i].modules
                  \/ \E j \in DOMAIN overrides :
                        InNet(overrides[j], ip) /\ overrides[j].len > overrides[i].len
        /\ \A i \in DOMAIN assignments :
              LET a == assignments[i] IN
              InNet(a, ip) /\ (a.exact => a.canonical) =>
                  \E j \in DOMAIN assignments :
                      /\ InNet(assignments[j], ip) /\ assignments[j].len >= a.len
                      /\ ResolveProfiles(ip) = assignments[j].profiles
=============================================================================
