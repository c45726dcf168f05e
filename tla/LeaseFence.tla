----------------------------- MODULE LeaseFence -----------------------------
(***************************************************************************)
(* Hub high availability with a shared snapshot: hub processes contend for *)
(* a Kubernetes Lease (elector_k8s.go, the callbacks in app.go), and each  *)
(* snapshot write carries a fence epoch that snapshot.Write compares with  *)
(* the file before it renames its own file over it.                        *)
(*                                                                         *)
(* A process may stall between any two steps and resume later, still       *)
(* believing it leads: nothing forces it to notice that its lease expired. *)
(* A tenure is one holding of the Lease, numbered by LeaderTransitions; a  *)
(* graph is known by the tenure it was published in.                       *)
(***************************************************************************)
EXTENDS Naturals

CONSTANTS Hubs,
          NewLease,      \* the Lease object is created by the first election
          ReadErrors,    \* CurrentEpoch may fail
          MaxTenure      \* bound on LeaderTransitions

ASSUME LeaseAssumption ==
    NewLease \in BOOLEAN /\ ReadErrors \in BOOLEAN /\ MaxTenure \in Nat \ {0}

VARIABLES
    lease,    \* the Lease: holder, LeaderTransitions, and whether it is held
    tenure,   \* per hub: LeaderTransitions when it was last elected
    elector,  \* per hub: where its election callbacks are
    epoch,    \* per hub: h.leaseEpoch
    queue,    \* per hub: h.snapshotCh, {} or {the tenure of the queued graph}
    write,    \* per hub: the write goroutine, and what it is about to rename
    file      \* the shared snapshot: LeaseEpoch, and the tenure of its graph

fenceVars == <<lease, tenure, elector, epoch, queue, write, file>>

NoHub   == "none"
Term    == 0..MaxTenure
NoWrite == [pc |-> "idle", epoch |-> 0, tenure |-> 0]

\* An existing Lease has been released by an earlier deployment at transition 1,
\* whose file may be on the volume.
FenceInit ==
    /\ lease = [holder |-> NoHub, held |-> FALSE, created |-> ~NewLease,
                transitions |-> IF NewLease THEN 0 ELSE 1]
    /\ tenure = [h \in Hubs |-> 0]
    /\ elector = [h \in Hubs |-> "follower"]
    /\ epoch = [h \in Hubs |-> 0]
    /\ queue = [h \in Hubs |-> {}]
    /\ write = [h \in Hubs |-> NoWrite]
    /\ file = [epoch |-> 0, tenure |-> 0]

-----------------------------------------------------------------------------
(* The Lease and client-go's elector (external).                           *)

\* LeaderTransitions counts changes of holder: 0 for the election that creates
\* the Lease, unchanged when a hub takes its own expired Lease again.
NextTransitions(h) ==
    IF ~lease.created \/ lease.holder = h THEN lease.transitions ELSE lease.transitions + 1

\* A hub whose elector is contending takes a Lease nobody holds; OnStartedLeading
\* begins with SetLeader(true).
Acquire(h) ==
    /\ elector[h] = "follower"
    /\ ~lease.held
    /\ NextTransitions(h) \in Term
    /\ lease' = [holder |-> h, held |-> TRUE, created |-> TRUE,
                 transitions |-> NextTransitions(h)]
    /\ tenure' = [tenure EXCEPT ![h] = NextTransitions(h)]
    /\ elector' = [elector EXCEPT ![h] = "reading"]
    /\ UNCHANGED <<epoch, queue, write, file>>

\* The holder misses its renew deadline (it stalled, or lost the API server).
Expire ==
    /\ lease.held
    /\ lease' = [holder |-> lease.holder, held |-> FALSE, created |-> lease.created,
                 transitions |-> lease.transitions]
    /\ UNCHANGED <<tenure, elector, epoch, queue, write, file>>

-----------------------------------------------------------------------------
(* The callbacks of app.go.                                                *)

\* CurrentEpoch reads the Lease as it is now; an error keeps the epoch.
EpochAfterError(h) == epoch[h]
CurrentEpoch(h) == lease.transitions

ReadEpoch(h) ==
    /\ elector[h] = "reading"
    /\ \/ /\ epoch' = [epoch EXCEPT ![h] = CurrentEpoch(h)]
          /\ elector' = [elector EXCEPT ![h] = "leading"]
       \/ /\ ReadErrors
          /\ epoch' = [epoch EXCEPT ![h] = EpochAfterError(h)]
          /\ elector' = [elector EXCEPT ![h] = "blind"]
    /\ UNCHANGED <<lease, tenure, queue, write, file>>

IsLeader(h) == elector[h] # "follower"

\* OnStoppedLeading: the elector notices that the Lease is gone.
StopLeading(h) ==
    /\ IsLeader(h)
    /\ lease.holder # h \/ ~lease.held
    /\ elector' = [elector EXCEPT ![h] = "follower"]
    /\ UNCHANGED <<lease, tenure, epoch, queue, write, file>>

\* The process exits (a clean exit releases the Lease) and is started again.
Restart(h) ==
    /\ elector' = [elector EXCEPT ![h] = "follower"]
    /\ epoch' = [epoch EXCEPT ![h] = 0]
    /\ queue' = [queue EXCEPT ![h] = {}]
    /\ write' = [write EXCEPT ![h] = NoWrite]
    /\ \/ /\ lease.holder = h /\ lease.held
          /\ lease' = [holder |-> NoHub, held |-> FALSE, created |-> TRUE,
                       transitions |-> lease.transitions]
       \/ UNCHANGED lease
    /\ UNCHANGED <<tenure, file>>

-----------------------------------------------------------------------------
(* Publishing and persisting.                                              *)

\* A push passed the leader gate and was published; writeSnapshotAsync.
PublishGraph(h) ==
    /\ IsLeader(h)
    /\ queue[h] = {}
    /\ queue' = [queue EXCEPT ![h] = {tenure[h]}]
    /\ UNCHANGED <<lease, tenure, elector, epoch, write, file>>

\* The fence of snapshot.Write.
RefusedOrEqual(e) == e > 0 /\ file.epoch >= e
RefusedNever(e) == FALSE
Refused(e) == e > 0 /\ file.epoch > e

\* The writer takes the graph, writeSnapshot loads the epoch, Write reads the file.
BeginWrite(h) ==
    /\ write[h].pc = "idle"
    /\ \E t \in queue[h] :
         write' = [write EXCEPT ![h] =
                     IF Refused(epoch[h]) THEN NoWrite
                     ELSE [pc |-> "passed", epoch |-> epoch[h], tenure |-> t]]
    /\ queue' = [queue EXCEPT ![h] = {}]
    /\ UNCHANGED <<lease, tenure, elector, epoch, file>>

\* The rename, or a failed write that leaves the file alone.
EndWrite(h) ==
    /\ write[h].pc = "passed"
    /\ \/ file' = [epoch |-> write[h].epoch, tenure |-> write[h].tenure]
       \/ UNCHANGED file
    /\ write' = [write EXCEPT ![h] = NoWrite]
    /\ UNCHANGED <<lease, tenure, elector, epoch, queue>>

FenceNext ==
    \/ Expire
    \/ \E h \in Hubs : \/ Acquire(h) \/ ReadEpoch(h) \/ StopLeading(h) \/ Restart(h)
                       \/ PublishGraph(h) \/ BeginWrite(h) \/ EndWrite(h)

FenceSpec == FenceInit /\ [][FenceNext]_fenceVars

-----------------------------------------------------------------------------
(* Properties.                                                             *)

\* Every variable has its Go type; epochs stay within the transitions counted.
FenceTypeOK ==
    /\ lease \in [holder : Hubs \cup {NoHub}, held : BOOLEAN, created : BOOLEAN,
                  transitions : Term]
    /\ tenure \in [Hubs -> Term]
    /\ elector \in [Hubs -> {"follower", "reading", "leading", "blind"}]
    /\ epoch \in [Hubs -> Term]
    /\ queue \in [Hubs -> SUBSET Term]
    /\ write \in [Hubs -> [pc : {"idle", "passed"}, epoch : Term, tenure : Term]]
    /\ file \in [epoch : Term, tenure : Term]

\* app.go:292-302: a hub process never lowers its fence epoch, through failed
\* reads and repeated elections, so it cannot make its own later writes stale.
EpochNeverDecreases ==
    [][\A h \in Hubs : epoch'[h] < epoch[h] => Restart(h)]_fenceVars

\* The hub that holds the Lease and has read its epoch is never refused by the
\* fence, whatever stalled hubs and restarts left in the file.
HolderNotRefused ==
    \A h \in Hubs :
      lease.holder = h /\ lease.held /\ elector[h] = "leading" => ~Refused(epoch[h])

\* docs/operator/federation.md:438-441: a resumed stale leader cannot overwrite the
\* new leader's snapshot.  True of the plain case: the stale hub has a fence epoch
\* (Write does not fence 0, the epoch of the election that creates the Lease), both
\* hubs read the epoch of their own tenure, and the file was complete before the
\* stale hub's check.
StaleTenureRefused ==
    [][\A h \in Hubs :
         /\ write[h].pc = "idle" /\ write'[h].pc = "passed"
         /\ elector[h] = "leading" /\ epoch[h] = tenure[h] /\ epoch[h] > 0
         /\ file.epoch = file.tenure
         => tenure[h] >= file.tenure]_fenceVars

\* elector_k8s.go:144-152: a leader that has read the Lease fences its writes with
\* the transition that promoted it, or with a later one if it stalled in between;
\* never with an older one, which would get its writes refused.
EpochCoversTenure == \A h \in Hubs : elector[h] = "leading" => epoch[h] >= tenure[h]
=============================================================================
