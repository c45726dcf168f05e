---------------------------- MODULE HubSnapshot ----------------------------
(***************************************************************************)
(* The hub with its snapshot writer (hub_snapshot.go): the handlers and    *)
(* the eviction loop of Hub hand graphs to runSnapshotWriter through       *)
(* snapshotCh; the writer runs each write in a goroutine of its own and    *)
(* stops waiting for it after snapshotWriteTimeout.  A crash restarts the  *)
(* hub from the file (LD-13).                                              *)
(***************************************************************************)
EXTENDS Hub

CONSTANT MaxCrashes  \* bound on restarts

VARIABLES writer,      \* pc of runSnapshotWriter, and the write it waits for
          writes,      \* running write goroutines: their id and graph
          drops,       \* SnapshotDropsTotal > 0 (queue_full or write_in_flight)
          failures,    \* some write failed or panicked (only logged)
          disk,        \* the graph in the snapshot file
          crashes,
          everServed   \* history: every graph this hub or a predecessor served

snapVars == <<writer, writes, drops, failures, disk, crashes, everServed>>
allVars  == <<hubVars, snapVars>>

\* writer.done is the id of the goroutine behind writeDone, 0 while it is nil.
WriterIdle == [pc |-> "recv", done |-> 0]

\* writeDone is closed once the goroutine behind it has returned.
InFlight(id) == \E w \in writes : w.id = id

SnapInit ==
    /\ Init
    /\ writer = WriterIdle
    /\ writes = {}
    /\ drops = FALSE
    /\ failures = FALSE
    /\ disk = topology
    /\ crashes = 0
    /\ everServed = {topology}

\* A step of Hub; writeSnapshotAsync counts the graph it drops.
Offers  == \/ \E r \in Requests : req[r].pc = "won" /\ req'[r].pc = "204"
           \/ ev.pc = "won" /\ ev'.pc = "idle"
HubStep ==
    /\ HubNext
    /\ everServed' = everServed \cup {topology'}
    /\ drops' = (drops \/ (Offers /\ snapshotCh # {}))
    /\ UNCHANGED <<writer, writes, failures, disk, crashes>>

MayWrite == writer.done = 0 \/ ~InFlight(writer.done)

\* Receive from snapshotCh: drop the graph if the last write is still in
\* flight, else start a goroutine for it and wait.
WriterReceive ==
    /\ writer.pc = "recv"
    /\ snapshotCh # {}
    /\ snapshotCh' = {}
    /\ IF MayWrite
       THEN /\ writes' = writes \cup [id : {writer.done + 1}, graph : snapshotCh]
            /\ writer' = [pc |-> "wait", done |-> writer.done + 1]
            /\ UNCHANGED drops
       ELSE /\ drops' = TRUE
            /\ UNCHANGED <<writes, writer>>
    /\ UNCHANGED <<clock, isLeader, spokes, gauge, topology, firstLive, publishGen,
                   lastPublishedGen, rebuildRefused, rebuildPanics, req, ev,
                   failures, disk, crashes, everServed>>

\* Either writeDone is closed or the timeout fires: the writer goes on.
WriterWaited ==
    /\ writer.pc = "wait"
    /\ writer' = [pc |-> "recv", done |-> writer.done]
    /\ UNCHANGED <<hubVars, writes, drops, failures, disk, crashes, everServed>>

\* The file is written in place: a failed write leaves part of a file behind.
Torn == [id \in Spokes |-> MaxTime + FutureSlack + 2]
WriteEndsInPlace(w) ==
    /\ writes' = writes \ {w}
    /\ \/ disk' = w.graph /\ UNCHANGED failures
       \/ failures' = TRUE /\ disk' = Torn
    /\ UNCHANGED <<hubVars, writer, drops, crashes, everServed>>

\* A write goroutine ends: the rename replaced the file, or the write failed
\* (logged) or panicked, and close(done) runs either way.
WriteEnds(w) ==
    /\ writes' = writes \ {w}
    /\ \/ disk' = w.graph /\ UNCHANGED failures
       \/ failures' = TRUE /\ UNCHANGED disk
    /\ UNCHANGED <<hubVars, writer, drops, crashes, everServed>>

\* The process dies and comes back: RestoreGraph serves the file's graph.
Crash ==
    /\ crashes < MaxCrashes
    /\ crashes' = crashes + 1
    /\ spokes' = [id \in Spokes |-> Absent]
    /\ gauge' = [id \in Spokes |-> 0]
    /\ topology' = disk
    /\ firstLive' = FALSE
    /\ publishGen' = 0
    /\ lastPublishedGen' = 0
    /\ rebuildRefused' = FALSE
    /\ rebuildPanics' = FALSE
    /\ snapshotCh' = {}
    /\ req' = [r \in Requests |-> Finished("idle")]
    /\ ev' = NoEviction
    /\ writer' = WriterIdle
    /\ writes' = {}
    /\ drops' = FALSE
    /\ failures' = FALSE
    /\ isLeader' = ~HA
    /\ UNCHANGED <<clock, disk, everServed>>

Writer == WriterReceive \/ WriterWaited \/ \E w \in writes : WriteEnds(w)

SnapNext == HubStep \/ Writer \/ Crash

SnapSpec == SnapInit /\ [][SnapNext]_allVars
-----------------------------------------------------------------------------
(* Properties.                                                             *)

\* The types of the writer's state.
SnapTypeOK ==
    /\ writer \in [pc : {"recv", "wait"}, done : Nat]
    /\ writes \subseteq [id : Nat, graph : Graph]
    /\ drops \in BOOLEAN /\ failures \in BOOLEAN
    /\ disk \in Graph

\* A stalled file system never accumulates write goroutines: at most one runs,
\* however long the writer's timeouts let it go on (hub_snapshot.go:38-40).
OneWriteAtATime == Cardinality(writes) <= 1

\* The file, and so the graph a restarted hub serves, is always a graph that was
\* once served, never a mixture: losses, drops and restarts only make it older.
DiskWasServed == disk \in everServed
=============================================================================
