---------------------------- MODULE SnapshotFile ----------------------------
(***************************************************************************)
(* internal/snapshot/snapshot.go on a disk that may fail: Load and its     *)
(* quarantine, the steps of Write, each of which may return an error, the  *)
(* process dying between two of them and the machine losing power.         *)
(*                                                                         *)
(* A file holds unreadable text (garbage, or another version), a torn      *)
(* text, or a snapshot, known by the number of its rename.                 *)
(* What is not synced may be lost with the power.                          *)
(***************************************************************************)
EXTENDS Integers, FiniteSets

CONSTANTS Procs,       \* processes that share the volume
          Slots,       \* the .bad names (maxAttempts = 100 in the code)
          MaxWrites    \* bound on the snapshots renamed to the path

ASSUME SnapshotAssumption == MaxWrites \in Nat

VARIABLES path,      \* the file at the configured path, or NoFile
          onDisk,    \* what the path holds once the power has failed
          temp,      \* per process: its temp file
          bad,       \* the quarantined texts, by slot
          proc,      \* per process: where it is, and the text it read
          written,   \* number of snapshots renamed to the path
          acked,     \* the newest snapshot for which Write returned nil
          gaveUp,    \* the text was not read, or its quarantine failed or found no slot
          raced,     \* a quarantine removed another text than the one it had read
          power      \* the power has not failed

diskVars == <<path, onDisk, temp, bad, proc, written, acked, gaveUp, raced, power>>

Snapshots  == 1..MaxWrites
NoFile     == 0
Unreadable == -1
TornText   == -2

At(p, pc) == proc[p].pc = pc
Goes(p, pc) == proc' = [proc EXCEPT ![p] = [pc |-> pc, read |-> proc[p].read]]

\* A volume that an older build used.
DiskInit ==
    /\ path = Unreadable /\ onDisk = Unreadable
    /\ temp = [p \in Procs |-> "none"]
    /\ bad = [s \in Slots |-> NoFile]
    /\ proc = [p \in Procs |-> [pc |-> "down", read |-> NoFile]]
    /\ written = 0 /\ acked = 0
    /\ gaveUp = FALSE /\ raced = FALSE /\ power = TRUE

-----------------------------------------------------------------------------
(* Load                                                                    *)

\* A process starts and goes on with what it reads, with nothing, or with an error:
\* of reading, which leaves the file, or of parsing, which quarantines it.
Load(p) ==
    /\ At(p, "down")
    /\ \/ /\ path \in {Unreadable, TornText}
          /\ proc' = [proc EXCEPT ![p] = [pc |-> "quarantine", read |-> path]]
          /\ UNCHANGED gaveUp
       \/ /\ Goes(p, "running")
          /\ gaveUp' = (gaveUp \/ path = Unreadable)
    /\ UNCHANGED <<path, onDisk, temp, bad, written, acked, raced, power>>

\* Mutated form: an error of the copy is not looked at.
QuarantineBlindly(p) ==
    /\ At(p, "quarantine")
    /\ \/ \E s \in Slots : bad[s] = NoFile /\ bad' = [bad EXCEPT ![s] = proc[p].read]
       \/ UNCHANGED bad
    /\ Goes(p, "remove")
    /\ UNCHANGED <<path, onDisk, temp, written, acked, gaveUp, raced, power>>

\* The first name nobody took (O_EXCL); an error removes the copy and ends it.
Quarantine(p) ==
    /\ At(p, "quarantine")
    /\ \/ \E s \in Slots :
            /\ bad[s] = NoFile /\ \A t \in Slots : t < s => bad[t] # NoFile
            /\ bad' = [bad EXCEPT ![s] = proc[p].read]
            /\ Goes(p, "remove")
            /\ UNCHANGED gaveUp
       \/ /\ \A s \in Slots : bad[s] # NoFile
          /\ gaveUp' = TRUE /\ Goes(p, "remove")
          /\ UNCHANGED bad
       \/ /\ gaveUp' = TRUE /\ Goes(p, "running")
          /\ UNCHANGED bad
    /\ UNCHANGED <<path, onDisk, temp, written, acked, raced, power>>

\* os.Remove(path), whatever the path holds by now.
RemoveOriginal(p) ==
    /\ At(p, "remove")
    /\ path' = NoFile
    /\ raced' = (raced \/ path \notin {NoFile, proc[p].read})
    /\ Goes(p, "running")
    /\ UNCHANGED <<onDisk, temp, bad, written, acked, gaveUp, power>>

-----------------------------------------------------------------------------
(* Write                                                                   *)

\* marshalFn, mkdirAllFn, createTempFn and tmp.Write.
WriteTemp(p) ==
    /\ At(p, "running") /\ written < MaxWrites
    /\ temp' = [temp EXCEPT ![p] = "unsynced"]
    /\ Goes(p, "sync")
    /\ UNCHANGED <<path, onDisk, bad, written, acked, gaveUp, raced, power>>

Sync(p) ==
    /\ At(p, "sync")
    /\ temp' = [temp EXCEPT ![p] = "synced"]
    /\ Goes(p, "rename")
    /\ UNCHANGED <<path, onDisk, bad, written, acked, gaveUp, raced, power>>

\* Until the directory is synced a power loss may leave the file that was there,
\* or, when the data was never synced, a torn one.
Rename(p) ==
    /\ At(p, "rename") /\ written < MaxWrites
    /\ written' = written + 1
    /\ path' = written + 1
    /\ onDisk' = IF temp[p] = "synced" THEN onDisk ELSE TornText
    /\ temp' = [temp EXCEPT ![p] = "none"]
    /\ Goes(p, "dirsync")
    /\ UNCHANGED <<bad, acked, gaveUp, raced, power>>

\* Mutated form: Write returns without syncing the directory.
AckAfterRename(p) ==
    /\ At(p, "dirsync")
    /\ acked' = IF path \in Snapshots /\ path > acked THEN path ELSE acked
    /\ Goes(p, "running")
    /\ UNCHANGED <<path, onDisk, temp, bad, written, gaveUp, raced, power>>

\* fd.Sync, on a filesystem that has it; Write returns nil.
SyncDir(p) ==
    /\ At(p, "dirsync")
    /\ onDisk' = IF onDisk = TornText THEN onDisk ELSE path
    /\ acked' = IF path \in Snapshots /\ path > acked THEN path ELSE acked
    /\ Goes(p, "running")
    /\ UNCHANGED <<path, temp, bad, written, gaveUp, raced, power>>

\* tmp.Write, Sync, Close or renameFn returns an error: cleanup().
WriteFails(p) ==
    /\ proc[p].pc \in {"sync", "rename"}
    /\ temp' = [temp EXCEPT ![p] = "none"]
    /\ Goes(p, "running")
    /\ UNCHANGED <<path, onDisk, bad, written, acked, gaveUp, raced, power>>

-----------------------------------------------------------------------------
(* Faults                                                                  *)

Dies(p) == [pc |-> "down", read |-> NoFile]

ProcessDies(p) ==
    /\ ~At(p, "down")
    /\ proc' = [proc EXCEPT ![p] = Dies(p)]
    /\ temp' = [temp EXCEPT ![p] = "none"]
    /\ UNCHANGED <<path, onDisk, bad, written, acked, gaveUp, raced, power>>

\* The path holds what it held, or what was last made durable; a copy in
\* quarantine, which nobody synced, may be gone.
PowerFails ==
    /\ power
    /\ power' = FALSE
    /\ path' \in {path, onDisk} /\ onDisk' = path'
    /\ \E gone \in SUBSET Slots : bad' = [s \in Slots |-> IF s \in gone THEN NoFile ELSE bad[s]]
    /\ proc' = [p \in Procs |-> Dies(p)]
    /\ temp' = [p \in Procs |-> "none"]
    /\ UNCHANGED <<written, acked, gaveUp, raced>>

DiskNext ==
    \/ PowerFails
    \/ \E p \in Procs : Load(p) \/ Quarantine(p) \/ RemoveOriginal(p) \/ WriteTemp(p) \/ Sync(p)
                          \/ Rename(p) \/ SyncDir(p) \/ WriteFails(p) \/ ProcessDies(p)

DiskSpec == DiskInit /\ [][DiskNext]_diskVars

-----------------------------------------------------------------------------
\* Whoever reads the path finds a whole snapshot or the text of the older build: no
\* crash, error or loss of power promotes a partial write (the fsync of Write before its
\* rename).  A snapshot Write reported as written is there afterwards, or a newer one is;
\* unless another process, quarantining the older text it had read, removed the file by
\* its name.
FileIsDurable ==
    /\ path # TornText
    /\ acked > 0 /\ ~raced => path \in Snapshots /\ path >= acked

\* The text that could not be read is at its path or in quarantine until the power
\* fails, unless it could not be read at all or its quarantine failed or found no
\* free name: the next Write replaces it then.
EvidenceIsKept ==
    power /\ ~gaveUp => Unreadable \in {path} \cup {bad[s] : s \in Slots}
=============================================================================
