--------------------------- MODULE MCEventually ---------------------------
(***************************************************************************)
(* The goroutines that must come to an end: the hub's eviction, the        *)
(* spoke's pusher, the fan-out of a cycle, one call of an SNMP session.  A *)
(* behaviour is one of these parts, the others rest; each part is          *)
(* scheduled fairly, as its module says.                                   *)
(***************************************************************************)
EXTENDS Hub, SpokePusher, CycleFanout, SnmpWalk

VARIABLE part

eventuallyVars == <<hubVars, pusherVars, fanVars, walkVars, part>>

\* Later payloads are larger, so that a growing graph meets the budget.
SizeOfCycle == [c \in Cycle |-> c]

\* Two targets that are one device behind one address, with three profiles of which
\* two work.
MCIpOf == <<1, 1>>
MCIdOf == <<1, 1>>
MCProfilesFor == << <<1, 2, 3>> >>
MCModulesFor == << {"lldp"} >>

-----------------------------------------------------------------------------
PartsInit ==
    /\ part \in {"hub", "pusher", "fanout", "walk"}
    /\ topology \in (IF part = "hub" THEN [Spokes -> {0, 1}] ELSE {NoGraph})
    /\ limit \in (IF part = "fanout" THEN Limits ELSE {Min(Limits)})
    /\ cache \in (IF part = "fanout" THEN [Hosts -> {NoEntry} \cup [profile : UsableProfiles, stale : {FALSE}]]
                                     ELSE [Hosts -> {NoEntry}])
    /\ Init /\ PusherInit /\ FanInit /\ WalkInit

\* A step of p leaves the variables of the other parts alone.
StepOf(p) ==
    /\ part = p /\ UNCHANGED part
    /\ IF p = "hub" THEN HubNext ELSE UNCHANGED hubVars
    /\ IF p = "pusher" THEN PusherNext ELSE UNCHANGED pusherVars
    /\ IF p = "fanout" THEN FanNext ELSE UNCHANGED fanVars
    /\ IF p = "walk" THEN WalkNext ELSE UNCHANGED walkVars

PartsNext == StepOf("hub") \/ StepOf("pusher") \/ StepOf("fanout") \/ StepOf("walk")

\* The i-th goroutine or timer of the part: the fairness of FairHubSpec, FairPusherSpec,
\* FairFanSpec and FairWalkSpec, one part beside the other.
Turn(i) ==
    /\ UNCHANGED part
    /\ IF part # "hub" THEN UNCHANGED hubVars ELSE
         \/ i = 1 /\ Tick
         \/ i = 2 /\ (EvictTick \/ EvictDelete \/ EvictAdmit \/ EvictPublish \/ EvictFinish)
         \/ i = 3 /\ \E r \in Requests : Validate(r) \/ Admit(r) \/ Publish(r) \/ Finish(r)
    /\ IF part # "pusher" THEN UNCHANGED pusherVars ELSE
         \/ i = 1 /\ Enqueue
         \/ i = 2 /\ Consume
    /\ IF part # "fanout" THEN UNCHANGED fanVars ELSE
         \/ i = 1 /\ FinishCycle
         \/ i = 2 /\ Refill
         \/ i > 2 /\ Probe(i - 2)
    /\ IF part # "walk" THEN UNCHANGED walkVars ELSE i = 1 /\ WalkSteps

PartsFairness == \A i \in 1..4 : WF_eventuallyVars(Turn(i))

PartsSpec == PartsInit /\ [][PartsNext]_eventuallyVars /\ PartsFairness
=============================================================================
