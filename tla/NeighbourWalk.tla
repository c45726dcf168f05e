--------------------------- MODULE NeighbourWalk ---------------------------
(***************************************************************************)
(* The walkers of the neighbour tables: lldp, cdp, ospf, bgp (RFC 4273),   *)
(* isis and mpls_te under internal/discovery.  A walk reads a table column *)
(* by column while the device goes on changing it, puts the cells together *)
(* by the row's index and makes edges and out-of-scope reports of the      *)
(* rows.                                                                   *)
(*                                                                         *)
(* A neighbour is [who, port, ip, named, bad]: ip is 1 inside the scope, 2 *)
(* outside, 3 one that the walkers skip (unspecified; link-local for all   *)
(* but lldp and cdp), 0 when it shows none; bad is the column whose value  *)
(* does not decode.  The index of a row holds the local port and a number  *)
(* that the device does not use again.                                     *)
(***************************************************************************)
EXTENDS Integers, Sequences, FiniteSetsExt

CONSTANTS Neighbours,
          MaxChanges      \* bound on the changes of the table during a walk

\* The number in its index tells a neighbour from every other.
ASSUME NeighbourAssumption ==
    /\ \A n \in Neighbours : n.who \in Nat \ {0} /\ n.ip \in 0..3
    /\ \A m, n \in Neighbours : m.who = n.who => m = n

VARIABLES proto, scope,   \* which walker; "off", "all" (0.0.0.0/0) or "inside"
          present,        \* the neighbours in the table
          up,             \* those whose session or adjacency is up
          col,            \* columns read so far
          rows,           \* the cells, by row index and column
          witnessed,      \* neighbours that were present, up where it matters, at some time
          changes, result

neighbourVars == <<proto, scope, present, up, col, rows, witnessed, changes, result>>

Columns(p) ==
    CASE p = "lldp" -> <<"chassis_type", "chassis", "port_type", "port", "desc", "name">>
      [] p = "cdp"  -> <<"addr_type", "addr", "name", "port">>
      [] p = "ospf" -> <<"ip", "state">>
      [] p = "bgp"  -> <<"state", "ip", "as">>
      [] p = "isis" -> <<"state", "circuit", "ip">>
      [] p = "mpls_te" -> <<"state", "admin">>
AllColumns == {"chassis_type", "chassis", "port_type", "port", "desc", "name", "addr_type", "addr",
               "ip", "state", "as", "circuit", "admin"}

Stateful == {"ospf", "bgp", "isis", "mpls_te"}
Optional == {"circuit", "admin"}

N(who) == CHOOSE n \in Neighbours : n.who = who

\* Mutated form: rows are told apart by the local port only.
RowKeyByPort(n) == <<n.port, 0>>

RowKey(n) == <<n.port, n.who>>
RowKeys == {RowKey(n) : n \in Neighbours}

Unread == [from |-> 0, good |-> FALSE, up |-> FALSE]
Cell(n, c) == [from |-> n.who, good |-> n.bad # c, up |-> n \in up]
NoRows == [k \in RowKeys |-> [c \in AllColumns |-> Unread]]
NoResult == [status |-> "none"]

NeighbourInit ==
    /\ proto \in {"lldp", "cdp"} \cup Stateful
    /\ scope \in {"off", "all", "inside"}
    /\ present \in SUBSET Neighbours /\ up \in SUBSET present
    /\ col = 0 /\ rows = NoRows /\ changes = 0 /\ result = NoResult
    /\ witnessed = IF proto \in Stateful THEN up ELSE present

-----------------------------------------------------------------------------
(* the device and the walk                                                 *)

\* A neighbour comes, goes, or its session changes.
TableChanges ==
    /\ result = NoResult /\ changes < MaxChanges /\ col \in 1..(Len(Columns(proto)) - 1)
    /\ \/ \E n \in Neighbours \ present : present' = present \cup {n} /\ up' = up \cup {n}
       \/ \E n \in present : present' = present \ {n} /\ up' = up \ {n}
       \/ \E n \in up : up' = up \ {n} /\ UNCHANGED present
    /\ witnessed' = witnessed \cup (IF proto \in Stateful THEN up' ELSE present')
    /\ changes' = changes + 1
    /\ UNCHANGED <<proto, scope, col, rows, result>>

\* EvaluateRequiredTablePolicy of isis and mpls_te, on the column of states: at most half
\* of them may be invalid.
HardFail ==
    LET invalid == {k \in RowKeys : rows[k]["state"].from # 0 /\ ~rows[k]["state"].good}
        total   == {k \in RowKeys : rows[k]["state"].from # 0}
    IN  proto \in {"isis", "mpls_te"} /\ 2 * Cardinality(invalid) > Cardinality(total)

PolicyFails ==
    /\ result = NoResult /\ HardFail
    /\ result' = [status |-> "error", edges |-> {}, oos |-> {}, outcome |-> "policy"]
    /\ UNCHANGED <<proto, scope, present, up, col, rows, witnessed, changes>>

\* BulkWalk of one column: a later row of the same index overwrites the cell.
ReadColumn ==
    /\ result = NoResult /\ ~HardFail /\ col < Len(Columns(proto))
    /\ LET c == Columns(proto)[col + 1]
           here(k) == {n.who : n \in {x \in present : RowKey(x) = k}}
       IN  rows' = [k \in RowKeys |-> IF here(k) = {} THEN rows[k]
                                   ELSE [rows[k] EXCEPT ![c] = Cell(N(Max(here(k))), c)]]
    /\ col' = col + 1
    /\ UNCHANGED <<proto, scope, present, up, witnessed, changes, result>>

\* BulkWalk returns an error: the end of the walk, or, of an optional column, of
\* what it would have added.
ColumnFails ==
    /\ result = NoResult /\ ~HardFail /\ col < Len(Columns(proto))
    /\ IF Columns(proto)[col + 1] \in Optional
       THEN col' = col + 1 /\ UNCHANGED result
       ELSE result' = [status |-> "error", edges |-> {}, oos |-> {}, outcome |-> "error"]
            /\ UNCHANGED col
    /\ UNCHANGED <<proto, scope, present, up, rows, witnessed, changes>>

-----------------------------------------------------------------------------
(* buildEdges                                                              *)

Good(k, c) == rows[k][c].good
From(k, c) == rows[k][c].from
Seen(k) == \E c \in AllColumns : From(k, c) # 0

\* The neighbour whose address the row shows, 0 when it shows none.
AddressOf(k) ==
    CASE proto = "lldp" -> IF N(From(k, "chassis")).ip = 0 THEN 0 ELSE From(k, "chassis")
      [] proto = "cdp"  -> IF Good(k, "addr_type") /\ Good(k, "addr") /\ N(From(k, "addr")).ip # 0
                           THEN From(k, "addr") ELSE 0
      [] proto = "mpls_te" -> From(k, "state")      \* part of the index
      [] OTHER -> IF Good(k, "ip") /\ N(From(k, "ip")).ip # 0 THEN From(k, "ip") ELSE 0
Ip(k) == IF AddressOf(k) = 0 THEN 0 ELSE N(AddressOf(k)).ip

\* The gates on the encoding of a row; ospf also wants a usable address.
Decodes(k) ==
    CASE proto = "lldp" -> \A c \in {"chassis_type", "chassis", "port_type", "port"} : Good(k, c)
      [] proto = "cdp"  -> Good(k, "name") /\ Good(k, "port")
      [] OTHER -> Ip(k) \notin {0, 3}

\* What is left of the row's filters before the scope.
Usable(k) ==
    /\ Decodes(k)
    /\ Ip(k) # 3 \/ proto = "cdp"
    /\ proto \in Stateful => Good(k, "state") /\ rows[k]["state"].up

OutOfScope(ip) == scope = "inside" /\ ip \in {2, 3}

\* lldp and cdp drop a neighbour whose address they cannot hold against the scope.
ScopeKnown(k) == scope # "inside" \/ Ip(k) # 0

\* sysName, or the chassis when there is none; the address for the others.
DeviceOf(k) ==
    CASE proto = "lldp" -> IF Good(k, "name") /\ N(From(k, "name")).named
                           THEN From(k, "name") ELSE From(k, "chassis")
      [] proto = "cdp" -> From(k, "name")
      [] OTHER -> AddressOf(k)

\* The parts of an edge, each the neighbour it was read from.
EdgeOf(k) == {DeviceOf(k), AddressOf(k), From(k, "port"), From(k, "state")} \ {0}

Reported == {k \in RowKeys : Seen(k) /\ Usable(k) /\ ScopeKnown(k)}
EdgeRows == {k \in Reported : ~OutOfScope(Ip(k))}

DecodedRows == {k \in RowKeys : Seen(k) /\ Decodes(k)}

\* ClassifyNeighbourOutcome; bgp does not look at the decoding, isis and mpls_te
\* record none.
Outcome ==
    IF proto \in {"isis", "mpls_te"} THEN "unrecorded"
    ELSE IF EdgeRows # {} THEN "edges"
    ELSE IF ~\E k \in RowKeys : Seen(k) THEN "mib_unimplemented"
    ELSE IF proto = "bgp" THEN "no_peers"
    ELSE IF DecodedRows # {} THEN "no_neighbours" ELSE "walker_drift"

BuildEdges ==
    /\ result = NoResult /\ ~HardFail /\ col = Len(Columns(proto))
    /\ result' = [status |-> "ok", outcome |-> Outcome,
                  edges |-> {EdgeOf(k) : k \in EdgeRows},
                  oos |-> {EdgeOf(k) : k \in Reported \ EdgeRows}]
    /\ UNCHANGED <<proto, scope, present, up, col, rows, witnessed, changes>>

\* The next cycle walks the table as it is.
NextWalk ==
    /\ result # NoResult
    /\ col' = 0 /\ rows' = NoRows /\ changes' = 0 /\ result' = NoResult
    /\ witnessed' = IF proto \in Stateful THEN up ELSE present
    /\ UNCHANGED <<proto, scope, present, up>>

NeighbourNext == TableChanges \/ PolicyFails \/ ReadColumn \/ ColumnFails \/ BuildEdges \/ NextWalk
NeighbourSpec == NeighbourInit /\ [][NeighbourNext]_neighbourVars

-----------------------------------------------------------------------------
\* An edge or an out-of-scope report never mixes two neighbours, and its neighbour
\* was there, adjacent where the protocol has a state, at some time of the walk,
\* however the table changed between the columns; with a scope configured no edge leads
\* outside it, nor to a neighbour whose address the walk did not see.
EdgesAreWhole ==
    result # NoResult =>
        /\ \A e \in result.edges \cup result.oos : \E n \in witnessed : e = {n.who}
        /\ scope = "inside" => \A e \in result.edges : \A who \in e : N(who).ip = 1
=============================================================================
