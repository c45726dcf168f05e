------------------------------ MODULE MCShared ------------------------------
(***************************************************************************)
(* What goroutines and processes share: the fan-out of a cycle, the OTLP   *)
(* pushes, the hub's snapshot writer, the lease fence of two hubs on one   *)
(* file, and the file itself.  A behaviour is one of these parts, the      *)
(* others rest in an initial state.                                        *)
(***************************************************************************)
EXTENDS CycleFanout, OtlpPublisher, HubSnapshot, LeaseFence, SnapshotFile, TLC

VARIABLE part

SizeOfCycle == [c \in Cycle |-> c]
Symmetry == Permutations(Spokes)

\* Two targets that are one device behind one address, with three profiles of which
\* two work.
MCIpOf == <<1, 1>>
MCIdOf == <<1, 1>>
MCProfilesFor == << <<1, 2, 3>> >>
MCModulesFor == << {"lldp"} >>

-----------------------------------------------------------------------------
PartsInit ==
    /\ part \in {"fanout", "otlp", "writer", "fence", "file"}
    /\ limit \in (IF part = "fanout" THEN Limits ELSE {Min(Limits)})
    /\ cache \in (IF part = "fanout" THEN [Hosts -> {NoEntry} \cup [profile : UsableProfiles, stale : {FALSE}]]
                                     ELSE [Hosts -> {NoEntry}])
    /\ FanInit /\ OtlpInit /\ SnapInit /\ FenceInit /\ DiskInit
    /\ part # "writer" => topology = NoGraph

\* A step of p leaves the variables of the other parts alone.
StepOf(p) ==
    /\ part = p /\ UNCHANGED part
    /\ IF p = "fanout" THEN FanNext ELSE UNCHANGED fanVars
    /\ IF p = "otlp" THEN OtlpNext ELSE UNCHANGED otlpVars
    /\ IF p = "writer" THEN SnapNext ELSE UNCHANGED allVars
    /\ IF p = "fence" THEN FenceNext ELSE UNCHANGED fenceVars
    /\ IF p = "file" THEN DiskNext ELSE UNCHANGED diskVars

PartsNext ==
    StepOf("fanout") \/ StepOf("otlp") \/ StepOf("writer") \/ StepOf("fence") \/ StepOf("file")

PartsSpec == PartsInit /\ [][PartsNext]_<<fanVars, otlpVars, allVars, fenceVars, diskVars, part>>
=============================================================================
