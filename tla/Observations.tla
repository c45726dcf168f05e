---------------------------- MODULE Observations ----------------------------
(***************************************************************************)
(* The observations of one cycle, delivered in any order by the modules    *)
(* that ran, and what graph.Reconcile and graph.Diff make of them.         *)
(***************************************************************************)
EXTENDS TopologyGraph

CONSTANTS Sightings,      \* the edges a module may report
          MaxSightings    \* bound: observations of one cycle

ASSUME SightingsAssumption == Sightings \subseteq EdgeRecord /\ MaxSightings \in Nat

VARIABLE observed         \* the input slice of Reconcile

ObservationsInit == observed = <<>>

Observe == \E e \in Sightings :
    /\ Len(observed) < MaxSightings
    /\ observed' = Append(observed, e)

\* The next cycle starts from nothing.
StartsOver == observed # <<>> /\ observed' = <<>>

ObservationsNext == Observe \/ StartsOver
ObservationsSpec == ObservationsInit /\ [][ObservationsNext]_observed

-----------------------------------------------------------------------------
(* Properties                                                              *)

Orders == {p \in [DOMAIN observed -> DOMAIN observed] : IsInjective(p)}

\* The graph is that of the links: neither the order in which the goroutines of RunCycle
\* delivered their observations, nor the spelling a protocol uses for a port, has an
\* influence on it, so a change of the winning protocol is no change event.
GraphIsCanonical ==
    LET short == [i \in DOMAIN observed |->
                    [observed[i] EXCEPT !.sp = NormalizePortName(@), !.dp = NormalizePortName(@)]]
    IN  /\ \A p \in Orders : Reconcile([i \in DOMAIN observed |-> observed[p[i]]]) = Reconcile(observed)
        /\ Diff(ReconciledEdges(short), ReconciledEdges(observed)) = NoChange
=============================================================================
