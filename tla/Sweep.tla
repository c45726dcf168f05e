------------------------------- MODULE Sweep -------------------------------
(***************************************************************************)
(* What one discovery cycle promises: every target gets one verdict, in    *)
(* any order, a verdict is final, and the report that closes the cycle     *)
(* counts them all.                                                        *)
(***************************************************************************)
EXTENDS Naturals, FiniteSets

CONSTANT Targets

VARIABLES verdict,  \* per target "pending", "ok" or "failed"
          report    \* the counts, {} while the cycle runs

Fresh == [t \in Targets |-> "pending"]
Sum == [ok     |-> Cardinality({t \in Targets : verdict[t] = "ok"}),
        failed |-> Cardinality({t \in Targets : verdict[t] = "failed"})]

Init == verdict = Fresh /\ report = {}

Settle(t) ==
    /\ verdict[t] = "pending"
    /\ \E v \in {"ok", "failed"} : verdict' = [verdict EXCEPT ![t] = v]
    /\ UNCHANGED report

Close ==
    /\ report = {}
    /\ \A t \in Targets : verdict[t] # "pending"
    /\ report' = {Sum}
    /\ UNCHANGED verdict

\* The next cycle starts over.
Again == report # {} /\ verdict' = Fresh /\ report' = {}

Next == (\E t \in Targets : Settle(t)) \/ Close \/ Again
Spec == Init /\ [][Next]_<<verdict, report>>
=============================================================================
