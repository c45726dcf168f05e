--------------------------- MODULE TopologyGraph ---------------------------
(***************************************************************************)
(* The pure operators of internal/graph/graph.go: reconciling the          *)
(* observations of a cycle, the difference of two graphs and the keys.     *)
(*                                                                         *)
(* Names are numbers in lexical order: a device, where 0 is the empty      *)
(* name; a port, where 0 is the empty name and an odd number is a long     *)
(* spelling of the even number before it ("GigabitEthernet0/1" for         *)
(* "Gi0/1"); a discovery protocol.  A slice the code sorts by key is a     *)
(* set of edges.                                                           *)
(***************************************************************************)
EXTENDS Integers, FiniteSetsExt, Places

Edge(s, sp, d, dp, proto, rank, dir) ==
    [src |-> s, sp |-> sp, dst |-> d, dp |-> dp, proto |-> proto, rank |-> rank, dir |-> dir]

EdgeRecord == [src : Nat, sp : Nat, dst : Nat, dp : Nat, proto : Nat, rank : Nat, dir : {"uni", "bi"}]

\* The same link, named from its other end.
Reversed(e) == Edge(e.dst, e.dp, e.src, e.sp, e.proto, e.rank, e.dir)

-----------------------------------------------------------------------------
(* keys                                                                    *)

NormalizePortName(p) == p - (p % 2)

compareEdgeKey(a, b) == \* a sorts before b
    \E i \in 1..4 : a[i] < b[i] /\ \A j \in 1..(i - 1) : a[j] = b[j]

Key(e) ==
    LET a == <<e.src, e.sp, e.dst, e.dp>>
        b == <<e.dst, e.dp, e.src, e.sp>>
    IN  IF compareEdgeKey(b, a) THEN b ELSE a

normalizedGroupKey(e) ==
    Key([e EXCEPT !.sp = NormalizePortName(@), !.dp = NormalizePortName(@)])

-----------------------------------------------------------------------------
(* Reconcile                                                               *)

WellFormed(e) == e.src # 0 /\ e.dst # 0 /\ e.src # e.dst

\* The places of the observations of one link, in the order in which they were delivered.
Group(edges, k) == {i \in DOMAIN edges : WellFormed(edges[i]) /\ normalizedGroupKey(edges[i]) = k}
GroupKeys(edges) == {normalizedGroupKey(e) : e \in {x \in Range(edges) : WellFormed(x)}}

Candidates(edges, group) == {i \in group : \A o \in group : edges[i].rank <= edges[o].rank}

\* Mutated form: no tie-break among the protocols of one side.
PreferredSideOnly(c, d, k) == c.src = k[1] /\ d.src # k[1]

\* The canonical side first, then the lexically first protocol.
Preferred(c, d, k) ==
    \/ c.src = k[1] /\ d.src # k[1]
    \/ (c.src = k[1]) = (d.src = k[1]) /\ c.proto < d.proto

\* The loop over the candidates ends at the first one that none is preferred to.
Chosen(edges, candidates, k) ==
    edges[Min({i \in candidates : \A c \in candidates : ~Preferred(edges[c], edges[i], k)})]

Reconciled(edges, k) ==
    LET group  == Group(edges, k)
        chosen == Chosen(edges, Candidates(edges, group), k)
        e      == IF chosen.src = k[1] THEN chosen ELSE Reversed(chosen)
        sides  == {edges[o].src : o \in group}
    IN  Edge(e.src, NormalizePortName(e.sp), e.dst, NormalizePortName(e.dp), e.proto, e.rank,
             IF Cardinality(sides) >= 2 THEN "bi" ELSE "uni")

ReconciledEdges(edges) == {Reconciled(edges, k) : k \in GroupKeys(edges)}

ValidEdges(edges) == {e \in Range(edges) : WellFormed(e)}
PortsOf(valid) == {<<e.src, NormalizePortName(e.sp)>> : e \in valid}
SeenAt(valid, port) == {e \in valid : <<e.src, NormalizePortName(e.sp)>> = port}

ConflictAt(edges, port) ==
    LET here == SeenAt(ValidEdges(edges), port)
        keys == {normalizedGroupKey(e) : e \in here}
    IN  [src |-> port[1], sp |-> Min({e.sp : e \in here}),
         sources |-> UNION {{edges[c].proto : c \in Candidates(edges, Group(edges, k))} : k \in keys},
         edges |-> {Reconciled(edges, k) : k \in keys}]

\* One conflict per local port for which the observations, of whatever rank, name
\* several neighbours.
Conflicts(edges) ==
    {ConflictAt(edges, port) : port \in
        {p \in PortsOf(ValidEdges(edges)) : Cardinality({e.dst : e \in SeenAt(ValidEdges(edges), p)}) > 1}}

Reconcile(edges) == [edges |-> ReconciledEdges(edges), conflicts |-> Conflicts(edges)]

-----------------------------------------------------------------------------
(* Diff, over two reconciled sets                                          *)

edgeMateriallyChanged(b, a) == b.dir # a.dir \/ b.proto # a.proto \/ b.rank # a.rank

Diff(before, after) ==
    LET In(k, edges) == {e \in edges : Key(e) = k}
    IN  [added   |-> {a \in after : In(Key(a), before) = {}},
         updated |-> {p \in before \X after : Key(p[1]) = Key(p[2]) /\ edgeMateriallyChanged(p[1], p[2])},
         removed |-> {b \in before : In(Key(b), after) = {}}]

NoChange == [added |-> {}, updated |-> {}, removed |-> {}]

-----------------------------------------------------------------------------
(* The key as text.  A name is a sequence of marks: "%", "|", the two      *)
(* digits that follow an escape, or any other run of letters.              *)

Sep == "|"

Escaped(c) == CASE c = "%" -> <<"%", "25">> [] c = "|" -> <<"%", "7C">> [] OTHER -> <<c>>

esc(s) == FlattenSeq([i \in DOMAIN s |-> Escaped(s[i])])

EdgeKeyString(k) == esc(k[1]) \o <<Sep>> \o esc(k[2]) \o <<Sep>> \o esc(k[3]) \o <<Sep>> \o esc(k[4])

\* strings.ReplaceAll of an escape by the mark it stands for, left to right.
Unescape(s, digits, mark) ==
    LET u[i \in 1..(Len(s) + 2)] ==
            IF i > Len(s) THEN <<>>
            ELSE IF i < Len(s) /\ s[i] = "%" /\ s[i + 1] = digits THEN <<mark>> \o u[i + 2]
            ELSE <<s[i]>> \o u[i + 1]
    IN  u[1]

unesc(s) == Unescape(Unescape(s, "7C", "|"), "25", "%")

\* SplitN(s, "|", 4): the fourth part keeps what separators it has.
EdgeKeyFromString(s) ==
    LET at == {i \in DOMAIN s : s[i] = Sep}
        nth(n) == CHOOSE i \in at : Cardinality({j \in at : j <= i}) = n
    IN  IF Cardinality(at) < 3 THEN <<>>
        ELSE <<unesc(SubSeq(s, 1, nth(1) - 1)), unesc(SubSeq(s, nth(1) + 1, nth(2) - 1)),
               unesc(SubSeq(s, nth(2) + 1, nth(3) - 1)), unesc(SubSeq(s, nth(3) + 1, Len(s)))>>
=============================================================================
