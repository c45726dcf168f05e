------------------------------ MODULE FdbWalk ------------------------------
(***************************************************************************)
(* The walker of the forwarding tables, internal/discovery/fdb: the bridge *)
(* table, the Q-BRIDGE table written over it, then one goroutine for each  *)
(* VLAN, which a semaphore holds back and whose rows fill the gaps.  A     *)
(* port with one learned address is an edge; a port with more is a trunk   *)
(* and is left out, so an unread table can make a trunk look like a link.  *)
(*                                                                         *)
(* A device is [b, q, vlans, blocked, mapped, indexed]: its tables (rows   *)
(* by address), the ports that do not forward, those with an ifIndex, and  *)
(* whether community@vlan may be used at all (v2c, no '@' in it).  A row   *)
(* is [mac, port, status]; Special addresses are multicast or zero.        *)
(***************************************************************************)
EXTENDS Integers, Sequences, FiniteSets, Functions, TLC

CONSTANTS Bridges,        \* the devices a walk may meet
          Special,
          Slots,          \* maxVlanConcurrency
          MaxVlans        \* fdb.max_vlans

ASSUME FdbAssumption ==
    /\ Slots \in Nat \ {0} /\ MaxVlans \in Nat \ {0}
    /\ \A device \in Bridges : device.vlans \in Seq(Range(device.vlans))

VARIABLES bridge, fdbPc, entries,
          job,            \* per VLAN: "waiting", "walking" or "over"
          found,          \* per VLAN: results[idx]
          used,           \* slots taken from the semaphore
          cancelled,      \* the context has ended
          signs,          \* what the operator can see of an incomplete walk
          quiet,          \* a table was left out without such a sign
          fdbResult

fdbVars == <<bridge, fdbPc, entries, job, found, used, cancelled, signs, quiet, fdbResult>>

NoTable == [m \in {} |-> 0]
NoFdbResult == [edges |-> {}, outcome |-> "none"]

FdbInit ==
    /\ bridge \in Bridges
    /\ fdbPc = "bmib" /\ entries = NoTable /\ job = <<>> /\ found = <<>> /\ used = 0
    /\ cancelled = FALSE /\ signs = {} /\ quiet = FALSE /\ fdbResult = NoFdbResult

\* The deadline of the module or of the device.
Cancel ==
    /\ ~cancelled /\ fdbPc \notin {"returned", "failed"}
    /\ cancelled' = TRUE
    /\ UNCHANGED <<bridge, fdbPc, entries, job, found, used, signs, quiet, fdbResult>>

\* walkFdbTableInto: an error ends the walk.
ReadBridgeTable ==
    /\ fdbPc = "bmib"
    /\ \/ ~cancelled /\ entries' = bridge.b /\ fdbPc' = "qbridge"
       \/ fdbPc' = "failed" /\ UNCHANGED entries
    /\ UNCHANGED <<bridge, job, found, used, cancelled, signs, quiet, fdbResult>>

\* A Q-BRIDGE row over the bridge row of its address: port and status where they are
\* valid, the address itself when it is missing.
QBridgeOver(b, q) ==
    LET old(m) == IF m \in DOMAIN b THEN b[m] ELSE [mac |-> FALSE, port |-> 0, status |-> "none"]
        row(m) == [mac |-> TRUE,
                   port |-> IF q[m].port > 0 THEN q[m].port ELSE old(m).port,
                   status |-> IF q[m].status # "bad" THEN q[m].status ELSE old(m).status]
    IN  [m \in DOMAIN q |-> row(m)] @@ b

\* An error counts as degraded only when the bridge table was empty.
ReadQBridgeTable ==
    /\ fdbPc = "qbridge"
    /\ \/ ~cancelled /\ entries' = QBridgeOver(entries, bridge.q) /\ UNCHANGED <<signs, quiet>>
       \/ /\ UNCHANGED entries
          /\ IF entries = NoTable
             THEN signs' = signs \cup {"degraded"} /\ UNCHANGED quiet
             ELSE quiet' = TRUE /\ UNCHANGED signs
    /\ fdbPc' = "vlans"
    /\ UNCHANGED <<bridge, job, found, used, cancelled, fdbResult>>

\* discoverVlanIDs, cut to max_vlans; an error is an empty list.
ListVlans ==
    /\ fdbPc = "vlans"
    /\ \E n \in {Len(bridge.vlans), 0} :
         LET walked == IF ~bridge.indexed THEN 0 ELSE IF n > MaxVlans THEN MaxVlans ELSE n IN
         /\ cancelled => n = 0
         /\ job' = [i \in 1..walked |-> "waiting"]
         /\ found' = [i \in 1..walked |-> NoTable]
         /\ signs' = IF bridge.indexed /\ n > MaxVlans THEN signs \cup {"truncated"} ELSE signs
         /\ quiet' = (quiet \/ ((n = 0 \/ ~bridge.indexed) /\ bridge.vlans # <<>>))
    /\ fdbPc' = "fan"
    /\ UNCHANGED <<bridge, entries, used, cancelled, fdbResult>>

-----------------------------------------------------------------------------
(* the goroutine of one VLAN                                               *)

Over(i) == job' = [job EXCEPT ![i] = "over"]

\* sem <- struct{}{}
TakeSlot(i) ==
    /\ job[i] = "waiting" /\ used < Slots
    /\ job' = [job EXCEPT ![i] = "walking"] /\ used' = used + 1
    /\ UNCHANGED <<bridge, fdbPc, entries, found, cancelled, signs, quiet, fdbResult>>

\* <-ctx.Done() while waiting; no sign of it, the walk as a whole will fail.
GiveUp(i) ==
    /\ job[i] = "waiting" /\ cancelled
    /\ Over(i)
    /\ UNCHANGED <<bridge, fdbPc, entries, found, used, cancelled, signs, quiet, fdbResult>>

ReadVlan(i) ==
    /\ job[i] = "walking"
    /\ found' = [found EXCEPT ![i] = bridge.vlans[i]]
    /\ Over(i) /\ used' = used - 1
    /\ UNCHANGED <<bridge, fdbPc, entries, cancelled, signs, quiet, fdbResult>>

\* Open or BulkWalk returns an error.
VlanFails(i) ==
    /\ job[i] = "walking"
    /\ signs' = signs \cup {"degraded"}
    /\ Over(i) /\ used' = used - 1
    /\ UNCHANGED <<bridge, fdbPc, entries, found, cancelled, quiet, fdbResult>>

\* The deferred calls free the slot, close the session and report the panic.
VlanPanics(i) ==
    /\ job[i] = "walking"
    /\ signs' = signs \cup {"panic"}
    /\ Over(i) /\ used' = used - 1
    /\ UNCHANGED <<bridge, fdbPc, entries, found, cancelled, quiet, fdbResult>>

-----------------------------------------------------------------------------
(* the merge and buildEdges                                                *)

\* Mutated form: a later table is written over an earlier one.
MergedOver(first, vlans) ==
    LET upTo[i \in 0..Len(vlans)] == IF i = 0 THEN first ELSE vlans[i] @@ upTo[i - 1]
    IN  upTo[Len(vlans)]

\* The tables in the order of the VLANs; a row that is there stays.
Merged(first, vlans) ==
    LET upTo[i \in 0..Len(vlans)] == IF i = 0 THEN first ELSE upTo[i - 1] @@ vlans[i]
    IN  upTo[Len(vlans)]

\* wg.Wait, then the merge.
MergeVlans ==
    /\ fdbPc = "fan" /\ \A i \in DOMAIN job : job[i] = "over"
    /\ entries' = Merged(entries, found)
    /\ fdbPc' = "ports"
    /\ UNCHANGED <<bridge, job, found, used, cancelled, signs, quiet, fdbResult>>

\* Rows with an address on a valid port, and of these the learned addresses on a port
\* that forwards.
Valid(t) == {m \in DOMAIN t : t[m].mac /\ t[m].port > 0}
Learned(t, device) ==
    {m \in Valid(t) : t[m].status = "learned" /\ m \notin Special /\ t[m].port \notin device.blocked}

\* One learned address, on a port with an ifIndex.
Direct(t, device) ==
    {<<t[m].port, m>> : m \in {x \in Learned(t, device) :
        /\ t[x].port \in device.mapped
        /\ \A other \in Learned(t, device) \ {x} : t[other].port # t[x].port}}

\* The base port, STP and interface names, each by BulkWalk, which checks the context
\* first; then buildEdges and ClassifyNeighbourOutcome.
ReadPorts ==
    /\ fdbPc = "ports"
    /\ \/ /\ ~cancelled
          /\ fdbPc' = "returned"
          /\ LET edges == Direct(entries, bridge) IN
             fdbResult' = [edges |-> edges,
                 outcome |-> IF edges # {} THEN "edges"
                             ELSE IF entries = NoTable THEN "mib_unimplemented"
                             ELSE IF Valid(entries) # {} THEN "no_neighbours" ELSE "walker_drift"]
       \/ /\ fdbPc' = "failed" /\ UNCHANGED fdbResult
    /\ UNCHANGED <<bridge, entries, job, found, used, cancelled, signs, quiet>>

\* The next walk, of this device or another.
NextBridge ==
    /\ fdbPc \in {"returned", "failed"}
    /\ bridge' \in Bridges
    /\ fdbPc' = "bmib" /\ entries' = NoTable /\ job' = <<>> /\ found' = <<>> /\ cancelled' = FALSE
    /\ signs' = {} /\ quiet' = FALSE /\ fdbResult' = NoFdbResult
    /\ UNCHANGED used

VlanStep(i) == TakeSlot(i) \/ GiveUp(i) \/ ReadVlan(i) \/ VlanFails(i) \/ VlanPanics(i)

FdbNext ==
    \/ Cancel \/ ReadBridgeTable \/ ReadQBridgeTable \/ ListVlans
    \/ \E i \in DOMAIN job : VlanStep(i)
    \/ MergeVlans \/ ReadPorts \/ NextBridge

FdbSpec == FdbInit /\ [][FdbNext]_fdbVars

-----------------------------------------------------------------------------
\* The whole of what the device knows, read without a failure.
AllTables(device) ==
    LET upTo[i \in 0..Len(device.vlans)] ==
            IF i = 0 THEN QBridgeOver(device.b, device.q) ELSE upTo[i - 1] @@ device.vlans[i]
    IN  upTo[Len(device.vlans)]

\* A walk that returns reports exactly the ports with one address, whatever the order
\* in which the VLANs were read and whatever was cancelled; it may take a trunk for a
\* link only when a table was left out, with a sign or, of Q-BRIDGE beside a filled
\* bridge table and of the list of VLANs, quietly.
TrunksAreNotLinks ==
    fdbPc = "returned" /\ signs = {} /\ ~quiet =>
        LET all   == AllTables(bridge)
            macs  == Learned(all, bridge)
            on(p) == {m \in macs : all[m].port = p}
        IN  fdbResult.edges =
                {<<all[m].port, m>> : m \in {x \in macs :
                    all[x].port \in bridge.mapped /\ on(all[x].port) = {x}}}
=============================================================================
