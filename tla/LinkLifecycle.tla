--------------------------- MODULE LinkLifecycle ---------------------------
(***************************************************************************)
(* The life of a link over discovery cycles: graph.AgeUnconfirmed counts   *)
(* the cycles in which a link was not reported by both of its ends,        *)
(* RunCycle withdraws the expired ones, publish accepts or rejects the     *)
(* graph, and the counters travel through the snapshot, under text keys,   *)
(* to the next process.                                                    *)
(***************************************************************************)
EXTENDS TopologyGraph

CONSTANTS Links,  \* edge keys in canonical order
          TTL     \* discovery.unconfirmed_link_ttl_cycles

ASSUME TTLAssumption == TTL \in Nat \ {0}

\* A key is four names: the two devices and their ports.
ASSUME LinksAssumption == Links \subseteq [1..4 -> Seq(STRING)]

VARIABLES ages,     \* cycleState.ages: per link its counter
          seen,     \* what the last cycle saw of each link: "none", "one" end or "both"
          kept,     \* the edges of the last cycle's graph
          expired,  \* what AgeUnconfirmed returned in the last cycle
          past,     \* history: per link the cycles without confirmation, and those
                    \* accepted in a row that served it one-sided
          disk      \* the last snapshot: the counters under text keys, and past

lifeVars == <<ages, seen, kept, expired, past, disk>>

NoPast == [quiet |-> 0, served |-> 0]

LifeInit ==
    /\ ages = [k \in {} |-> 0]
    /\ seen = [k \in Links |-> "none"]
    /\ kept = {}
    /\ expired = {}
    /\ past = [k \in Links |-> NoPast]
    /\ disk = [ages |-> [t \in {} |-> 0], past |-> past]

\* A counter that exists is incremented, and has then reached the limit.
ExpiredLinks(live, old) == {k \in live : k \in DOMAIN old /\ old[k] + 1 >= TTL}

\* The links that have a counter after the cycle, unless they expire in it: those
\* seen from one end and those that have one, but not the confirmed ones.
Unconfirmed(old, saw) ==
    ({k \in Links : saw[k] = "one"} \cup DOMAIN old) \ {k \in Links : saw[k] = "both"}

AgeUnconfirmed(old, saw) ==
    LET live == Unconfirmed(old, saw)
        gone == ExpiredLinks(live, old)
    IN  [ages    |-> [k \in live \ gone |-> IF k \in DOMAIN old THEN old[k] + 1 ELSE 0],
         expired |-> gone]

EdgeKeysToAges(in) ==
    LET texts == {EdgeKeyString(k) : k \in DOMAIN in}
    IN  [t \in texts |-> in[CHOOSE k \in DOMAIN in : EdgeKeyString(k) = t]]

\* Mutated form: the counters do not survive a restart.
AgesForgotten(in) == [k \in {} |-> 0]

AgesToEdgeKeys(in) ==
    LET keys == {EdgeKeyFromString(t) : t \in DOMAIN in} \ {<<>>}
    IN  [k \in keys |-> in[CHOOSE t \in DOMAIN in : EdgeKeyFromString(t) = k]]

\* The history after a cycle: it starts over when the link was confirmed or expired,
\* and a link that was never seen from one end has none.
Later(k, saw, keep, accepted) ==
    LET quiet == IF k \in expired THEN 0 ELSE past[k].quiet
    IN  [quiet  |-> IF saw = "both" \/ (saw = "none" /\ quiet = 0) THEN 0 ELSE quiet + 1,
         served |-> CASE saw = "both" \/ ~keep -> 0
                      [] saw # "both" /\ keep /\ ~accepted -> past[k].served
                      [] saw = "one" /\ keep /\ accepted -> past[k].served + 1
                      [] saw = "none" /\ keep /\ accepted -> 0]

\* One cycle: RunCycle ages the links and filters the expired ones.  publish rejects
\* the graph when it is over the size budget; the counters advance all the same.  Else
\* it saves a snapshot, which may be dropped.
Cycle ==
    \E saw \in [Links -> {"none", "one", "both"}], accepted, saved \in BOOLEAN :
        LET aged == AgeUnconfirmed(ages, saw)
        IN  /\ seen' = saw
            /\ ages' = aged.ages
            /\ expired' = aged.expired
            /\ kept' = {k \in Links : saw[k] # "none"} \ aged.expired
            /\ past' = [k \in Links |-> Later(k, saw[k], k \notin aged.expired, accepted)]
            /\ disk' = IF accepted /\ saved
                       THEN [ages |-> EdgeKeysToAges(aged.ages),
                             past |-> [k \in Links |-> IF k \in aged.expired THEN NoPast ELSE past'[k]]]
                       ELSE disk

\* A new process loads the snapshot; the history is that of the snapshot.
RestartLoop ==
    /\ ages' = AgesToEdgeKeys(disk.ages)
    /\ past' = disk.past
    /\ seen' = [k \in Links |-> "none"]
    /\ kept' = {}
    /\ expired' = {}
    /\ UNCHANGED disk

LifeNext == Cycle \/ RestartLoop
LifeSpec == LifeInit /\ [][LifeNext]_lifeVars

-----------------------------------------------------------------------------
(* Properties                                                              *)

\* A link that only one of its ends reports is served in at most TTL accepted cycles
\* in a row before it expires, restarts and rejected graphs in between included.  RunCycle
\* withdraws a link that was reported only when it has gone TTL cycles without being seen
\* from both ends, and never one that it saw from both ends.
WithdrawnOnTime ==
    \A k \in Links :
        /\ past[k].served <= TTL
        /\ seen[k] # "none" /\ k \notin kept => seen[k] = "one" /\ past[k].quiet > TTL
=============================================================================
