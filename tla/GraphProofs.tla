---------------------------- MODULE GraphProofs -----------------------------
(***************************************************************************)
(* Reconciliation, the merge of the hub, and the federation of spokes and  *)
(* hubs, for any edges, any spokes and any hubs.                           *)
(***************************************************************************)
EXTENDS Observations, HubMerge, Federation, SeqProofs

\* A leaf that names no prover is for Zenon; SMT has those with numbers or sequences.
USE ZenonT(60)

-----------------------------------------------------------------------------
(* Observations: one graph for every order and spelling                    *)

\* The observations of one link, as a set.
LinkOf(edges, k) == {e \in Range(edges) : WellFormed(e) /\ normalizedGroupKey(e) = k}

\* Of the observations in g none has a lower rank than c, and none of its rank is preferred.
Best(g, c) == \A o \in g : c.rank <= o.rank
Winner(g, c, k) == c \in g /\ Best(g, c) /\ \A d \in g : Best(g, d) => ~Preferred(d, c, k)

\* An observation names its link by its own ends, or by those of the other side.
LEMMA KeyIsOfEnds ==
    ASSUME NEW e \in EdgeRecord
    PROVE  \/ normalizedGroupKey(e) = <<e.src, NormalizePortName(e.sp), e.dst, NormalizePortName(e.dp)>>
           \/ normalizedGroupKey(e) = <<e.dst, NormalizePortName(e.dp), e.src, NormalizePortName(e.sp)>>
<1> DEFINE n == [e EXCEPT !.sp = NormalizePortName(@), !.dp = NormalizePortName(@)]
<1>1. /\ n.src = e.src /\ n.dst = e.dst /\ n.sp = NormalizePortName(e.sp) /\ n.dp = NormalizePortName(e.dp)
  BY DEF EdgeRecord
<1>2. normalizedGroupKey(e) = Key(n)
  BY DEF normalizedGroupKey
<1> HIDE DEF n
<1>3. Key(n) = <<n.src, n.sp, n.dst, n.dp>> \/ Key(n) = <<n.dst, n.dp, n.src, n.sp>>
  BY DEF Key
<1> QED
  BY <1>1, <1>2, <1>3

\* A link that was observed has an observation that none is preferred to.
LEMMA WinnerExists ==
    ASSUME NEW g \in SUBSET EdgeRecord, g # {}, NEW k
    PROVE  \E c : Winner(g, c, k)
<1> DEFINE ranks == {e.rank : e \in g}
<1>1. \A e \in g : e.rank \in Nat /\ e.proto \in Nat
  BY DEF EdgeRecord
<1>2. PICK r \in ranks : \A s \in ranks : r <= s
  <2>1. ranks \in SUBSET Nat /\ ranks # {}
    BY <1>1
  <2> HIDE DEF ranks
  <2> QED
    BY <2>1, LeastElement
<1>3. \A o \in g : r <= o.rank
  BY <1>2
<1>4. PICK b \in g : b.rank = r
  OBVIOUS
<1> DEFINE best == {e \in g : Best(g, e)}
           near == {e \in best : e.src = k[1]}
           from == IF near # {} THEN near ELSE best
           protos == {e.proto : e \in from}
<1>5. b \in best
  BY <1>3, <1>4 DEF Best
<1>6. from # {} /\ from \subseteq best /\ best \subseteq g
  BY <1>5
<1>7. PICK p \in protos : \A q \in protos : p <= q
  <2>1. protos \in SUBSET Nat /\ protos # {}
    BY <1>1, <1>6
  <2> HIDE DEF protos
  <2> QED
    BY <2>1, LeastElement
<1>8. PICK c \in from : c.proto = p
  OBVIOUS
<1>9. \A e \in from : c.proto <= e.proto
  BY <1>7, <1>8
<1>10. c \in g /\ Best(g, c)
  BY <1>6, <1>8
<1>11. ASSUME NEW d \in g, Best(g, d) PROVE ~Preferred(d, c, k)
  <2>1. d \in best /\ d.proto \in Nat /\ c.proto \in Nat
    BY <1>1, <1>10, <1>11
  <2>2. CASE near # {}
    <3>1. c.src = k[1]
      BY <1>8, <2>2
    <3>2. d.src = k[1] => c.proto <= d.proto
      BY <1>9, <2>1, <2>2
    <3> QED
      BY <2>1, <3>1, <3>2, SMTT(30) DEF Preferred
  <2>3. CASE near = {}
    <3>1. d.src # k[1] /\ c.src # k[1]
      BY <1>6, <1>8, <2>1, <2>3
    <3>2. c.proto <= d.proto
      BY <1>9, <2>1, <2>3
    <3> QED
      BY <2>1, <3>1, <3>2, SMTT(30) DEF Preferred
  <2> QED
    BY <2>2, <2>3
<1> QED
  BY <1>10, <1>11 DEF Winner

\* What Reconcile makes of a link is told by its key and any winner.
LEMMA ReconciledIs ==
    ASSUME NEW edges \in Seq(EdgeRecord), NEW k \in GroupKeys(edges)
    PROVE  \E c : /\ Winner(LinkOf(edges, k), c, k)
                  /\ Reconciled(edges, k) =
                       Edge(k[1], k[2], k[3], k[4], c.proto, c.rank,
                            IF Cardinality({o.src : o \in LinkOf(edges, k)}) >= 2 THEN "bi" ELSE "uni")
<1> DEFINE g == LinkOf(edges, k)
           group == Group(edges, k)
           cands == Candidates(edges, group)
           at == {i \in cands : \A c \in cands : ~Preferred(edges[c], edges[i], k)}
           chosen == edges[Min(at)]
           e == IF chosen.src = k[1] THEN chosen ELSE Reversed(chosen)
           sides == {edges[o].src : o \in group}
           dir == IF Cardinality(sides) >= 2 THEN "bi" ELSE "uni"
<1>1. DOMAIN edges \subseteq Nat /\ \A i \in DOMAIN edges : edges[i] \in EdgeRecord
  BY ElementOfSeq, SMTT(30)
<1>2. g \in SUBSET EdgeRecord /\ g # {}
  BY <1>1 DEF LinkOf, Range, GroupKeys
<1>3. g = {edges[i] : i \in group} /\ group \subseteq DOMAIN edges
  BY DEF LinkOf, Group, Range
<1> HIDE DEF g, group
<1>4. \A i \in group : i \in cands <=> Best(g, edges[i])
  BY <1>3 DEF Candidates, Best
<1>5. cands \subseteq group
  BY DEF Candidates
<1> HIDE DEF cands
<1>6. \A i \in group : i \in at <=> Winner(g, edges[i], k)
  BY <1>3, <1>4, <1>5 DEF Winner
<1>7. at # {} /\ at \in SUBSET Nat
  <2>1. PICK c : Winner(g, c, k)
    BY <1>2, WinnerExists
  <2>2. PICK i \in group : c = edges[i]
    BY <1>3, <2>1 DEF Winner
  <2> QED
    BY <1>1, <1>3, <1>5, <1>6, <2>1, <2>2
<1>8. Min(at) \in at /\ at \subseteq group
  <2>1. at \subseteq group
    BY <1>5
  <2> HIDE DEF at
  <2> QED
    BY <1>7, <2>1, MinIsIn
<1>9. Winner(g, chosen, k) /\ chosen \in g
  BY <1>6, <1>8 DEF Winner
<1>10. chosen \in EdgeRecord /\ WellFormed(chosen) /\ normalizedGroupKey(chosen) = k
  BY <1>2, <1>9 DEF g, LinkOf
<1>11. Reconciled(edges, k) =
         Edge(e.src, NormalizePortName(e.sp), e.dst, NormalizePortName(e.dp), e.proto, e.rank, dir)
  BY DEF Reconciled, Chosen, cands, group
<1> HIDE DEF chosen
<1>12. e.proto = chosen.proto /\ e.rank = chosen.rank
  BY <1>10 DEF EdgeRecord, Reversed, Edge
<1>13. <<e.src, NormalizePortName(e.sp), e.dst, NormalizePortName(e.dp)>> = <<k[1], k[2], k[3], k[4]>>
  <2>1. chosen.src # chosen.dst
    BY <1>10 DEF WellFormed
  <2>2. CASE k = <<chosen.src, NormalizePortName(chosen.sp), chosen.dst, NormalizePortName(chosen.dp)>>
    <3>1. e = chosen
      BY <2>2
    <3> QED
      BY <2>2, <3>1
  <2>3. CASE k = <<chosen.dst, NormalizePortName(chosen.dp), chosen.src, NormalizePortName(chosen.sp)>>
    <3>1. e = Reversed(chosen)
      BY <2>1, <2>3
    <3>2. e.src = chosen.dst /\ e.sp = chosen.dp /\ e.dst = chosen.src /\ e.dp = chosen.sp
      BY <3>1, SMTT(30) DEF Reversed, Edge
    <3> QED
      BY <2>3, <3>2
  <2> QED
    BY <1>10, <2>2, <2>3, KeyIsOfEnds
<1>14. sides = {o.src : o \in g}
  BY <1>3
<1> HIDE DEF e, sides
<1>15. Reconciled(edges, k) = Edge(k[1], k[2], k[3], k[4], chosen.proto, chosen.rank, dir)
  BY <1>11, <1>12, <1>13
<1> QED
  BY <1>9, <1>14, <1>15 DEF g

-----------------------------------------------------------------------------
\* The same observation, but for the spelling of its ports.
Alike(e, f) ==
    /\ e.src = f.src /\ e.dst = f.dst /\ e.proto = f.proto /\ e.rank = f.rank
    /\ NormalizePortName(e.sp) = NormalizePortName(f.sp) /\ NormalizePortName(e.dp) = NormalizePortName(f.dp)

\* Each of the observations of g is, in some spelling, one of h.
Spells(g, h) == \A e \in g : \E f \in h : Alike(e, f)

LEMMA AlikeIsOneLink ==
    ASSUME NEW e \in EdgeRecord, NEW f \in EdgeRecord, Alike(e, f)
    PROVE  normalizedGroupKey(e) = normalizedGroupKey(f) /\ (WellFormed(e) <=> WellFormed(f)) /\ Alike(f, e)
<1> DEFINE n(x) == [x EXCEPT !.sp = NormalizePortName(@), !.dp = NormalizePortName(@)]
<1>1. \A x \in EdgeRecord : n(x).src = x.src /\ n(x).dst = x.dst /\ n(x).sp = NormalizePortName(x.sp)
                             /\ n(x).dp = NormalizePortName(x.dp)
  BY DEF EdgeRecord
<1>2. normalizedGroupKey(e) = Key(n(e)) /\ normalizedGroupKey(f) = Key(n(f))
  BY DEF normalizedGroupKey
<1> HIDE DEF n
<1>3. n(e).src = n(f).src /\ n(e).dst = n(f).dst /\ n(e).sp = n(f).sp /\ n(e).dp = n(f).dp
  BY <1>1 DEF Alike
<1>4. Key(n(e)) = Key(n(f))
  BY <1>3 DEF Key
<1> QED
  BY <1>2, <1>4 DEF Alike, WellFormed

\* Two winners have the same protocol and rank, in whatever spelling.
LEMMA WinnersAgree ==
    ASSUME NEW g \in SUBSET EdgeRecord, NEW h \in SUBSET EdgeRecord, NEW k, NEW c, NEW d,
           Winner(g, c, k), Winner(h, d, k),
           Spells(g, h), Spells(h, g)
    PROVE  c.proto = d.proto /\ c.rank = d.rank
<1>1. \A e \in EdgeRecord : e.rank \in Nat /\ e.proto \in Nat
  BY DEF EdgeRecord
<1>2. c \in g /\ d \in h /\ c \in EdgeRecord /\ d \in EdgeRecord
  BY DEF Winner
<1>3. PICK f \in h : Alike(c, f)
  BY <1>2 DEF Spells
<1>4. PICK e \in g : Alike(d, e)
  BY <1>2 DEF Spells
<1>5. f.rank = c.rank /\ e.rank = d.rank /\ c.rank <= e.rank /\ d.rank <= f.rank
  BY <1>3, <1>4 DEF Winner, Best, Alike
<1>6. c.rank = d.rank
  BY <1>1, <1>2, <1>5, SMTT(30)
<1>7. Best(g, e)
  BY <1>4, <1>5, <1>6 DEF Winner, Best
<1>8. Best(h, f)
  BY <1>3, <1>5, <1>6 DEF Winner, Best
<1>9. ~Preferred(e, c, k) /\ ~Preferred(f, d, k)
  BY <1>7, <1>8 DEF Winner
<1>10. e.src = d.src /\ e.proto = d.proto /\ f.src = c.src /\ f.proto = c.proto
  BY <1>3, <1>4 DEF Alike
<1>11. ~Preferred(d, c, k) /\ ~Preferred(c, d, k)
  BY <1>9, <1>10 DEF Preferred
<1>12. (c.src = k[1]) <=> (d.src = k[1])
  BY <1>11 DEF Preferred
<1>13. ~(c.proto < d.proto) /\ ~(d.proto < c.proto)
  BY <1>11, <1>12 DEF Preferred
<1> QED
  BY <1>1, <1>2, <1>6, <1>13, SMTT(30)

\* Reconcile depends on the observations only, not on their order or spelling.
LEMMA ReconcileIsCanonical ==
    ASSUME NEW s \in Seq(EdgeRecord), NEW t \in Seq(EdgeRecord), Spells(Range(s), Range(t)), Spells(Range(t), Range(s))
    PROVE  GroupKeys(s) = GroupKeys(t) /\ \A k \in GroupKeys(s) : Reconciled(s, k) = Reconciled(t, k)
<1>1. Range(s) \subseteq EdgeRecord /\ Range(t) \subseteq EdgeRecord
  BY ElementOfSeq, SMT DEF Range
<1>2. \A e \in Range(s) : \E f \in Range(t) :
         Alike(e, f) /\ normalizedGroupKey(e) = normalizedGroupKey(f) /\ (WellFormed(e) <=> WellFormed(f))
  BY <1>1, AlikeIsOneLink DEF Spells
<1>3. \A f \in Range(t) : \E e \in Range(s) :
         Alike(f, e) /\ normalizedGroupKey(e) = normalizedGroupKey(f) /\ (WellFormed(e) <=> WellFormed(f))
  BY <1>1, AlikeIsOneLink DEF Spells
<1>4. GroupKeys(s) = GroupKeys(t)
  BY <1>2, <1>3, SMTT(30) DEF GroupKeys
<1>5. ASSUME NEW k \in GroupKeys(s) PROVE Reconciled(s, k) = Reconciled(t, k)
  <2> DEFINE g == LinkOf(s, k)
             h == LinkOf(t, k)
             dir(x) == IF Cardinality({o.src : o \in x}) >= 2 THEN "bi" ELSE "uni"
  <2>1. g \in SUBSET EdgeRecord /\ h \in SUBSET EdgeRecord
    BY <1>1 DEF LinkOf
  <2>2. Spells(g, h)
    BY <1>2 DEF LinkOf, Spells
  <2>3. Spells(h, g)
    BY <1>3 DEF LinkOf, Spells
  <2>4. PICK c : Winner(g, c, k) /\ Reconciled(s, k) = Edge(k[1], k[2], k[3], k[4], c.proto, c.rank, dir(g))
    BY <1>5, ReconciledIs
  <2>5. PICK d : Winner(h, d, k) /\ Reconciled(t, k) = Edge(k[1], k[2], k[3], k[4], d.proto, d.rank, dir(h))
    BY <1>4, <1>5, ReconciledIs
  <2> HIDE DEF g, h
  <2>6. c.proto = d.proto /\ c.rank = d.rank
    <3>1. Winner(g, c, k) /\ Winner(h, d, k)
      BY <2>4, <2>5
    <3> QED
      BY ONLY <2>1, <2>2, <2>3, <3>1, WinnersAgree, SMTT(30)
  <2>7. {o.src : o \in g} = {o.src : o \in h}
    BY <2>2, <2>3, SMTT(30) DEF Alike, Spells
  <2>8. dir(g) = dir(h)
    BY <2>7
  <2> HIDE DEF dir
  <2> QED
    BY <2>4, <2>5, <2>6, <2>8
<1> QED
  BY <1>4, <1>5

-----------------------------------------------------------------------------
\* The same observations in another order.
LEMMA ConflictsAreOfTheSet ==
    ASSUME NEW s \in Seq(EdgeRecord), NEW t \in Seq(EdgeRecord), Range(s) = Range(t)
    PROVE  Conflicts(s) = Conflicts(t)
<1>1. \A k : {s[c].proto : c \in Candidates(s, Group(s, k))} = {t[c].proto : c \in Candidates(t, Group(t, k))}
  <2> SUFFICES ASSUME NEW k
               PROVE  {s[c].proto : c \in Candidates(s, Group(s, k))} = {t[c].proto : c \in Candidates(t, Group(t, k))}
    OBVIOUS
  <2>1. LinkOf(s, k) = LinkOf(t, k)
    BY DEF LinkOf
  <2>2. LinkOf(s, k) = {s[i] : i \in Group(s, k)} /\ LinkOf(t, k) = {t[i] : i \in Group(t, k)}
    BY DEF LinkOf, Group, Range
  <2>3. {s[c] : c \in Candidates(s, Group(s, k))} = {e \in LinkOf(s, k) : Best(LinkOf(s, k), e)}
    BY <2>2 DEF Candidates, Best
  <2>4. {t[c] : c \in Candidates(t, Group(t, k))} = {e \in LinkOf(t, k) : Best(LinkOf(t, k), e)}
    BY <2>2 DEF Candidates, Best
  <2>5. {s[c] : c \in Candidates(s, Group(s, k))} = {t[c] : c \in Candidates(t, Group(t, k))}
    BY <2>1, <2>3, <2>4
  <2> DEFINE cs == Candidates(s, Group(s, k))
             ct == Candidates(t, Group(t, k))
  <2> HIDE DEF cs, ct
  <2>6. \A c \in cs : \E d \in ct : s[c] = t[d]
    BY <2>5 DEF cs, ct
  <2>7. \A d \in ct : \E c \in cs : s[c] = t[d]
    BY <2>5 DEF cs, ct
  <2>8. {s[c].proto : c \in cs} = {t[c].proto : c \in ct}
    BY <2>6, <2>7, SMTT(30)
  <2> QED
    BY <2>8 DEF cs, ct
<1>2. Spells(Range(s), Range(t)) /\ Spells(Range(t), Range(s))
  BY DEF Spells, Alike
<1>3. \A k \in GroupKeys(s) : Reconciled(s, k) = Reconciled(t, k)
  BY <1>2, ReconcileIsCanonical
<1>4. ValidEdges(s) = ValidEdges(t)
  BY DEF ValidEdges
<1>5. ASSUME NEW port PROVE ConflictAt(s, port) = ConflictAt(t, port)
  <2> DEFINE here == SeenAt(ValidEdges(s), port)
             keys == {normalizedGroupKey(e) : e \in here}
             src(x) == UNION {{x[c].proto : c \in Candidates(x, Group(x, k))} : k \in keys}
             out(x) == {Reconciled(x, k) : k \in keys}
  <2>1. /\ ConflictAt(s, port) = [src |-> port[1], sp |-> Min({e.sp : e \in here}), sources |-> src(s), edges |-> out(s)]
        /\ ConflictAt(t, port) = [src |-> port[1], sp |-> Min({e.sp : e \in here}), sources |-> src(t), edges |-> out(t)]
    BY <1>4 DEF ConflictAt
  <2>2. keys \subseteq GroupKeys(s)
    BY DEF SeenAt, ValidEdges, GroupKeys
  <2> HIDE DEF keys
  <2>3. out(s) = out(t)
    BY <1>3, <2>2
  <2>4. src(s) = src(t)
    BY <1>1
  <2> HIDE DEF src, out
  <2> QED
    BY <2>1, <2>3, <2>4
<1> QED
  BY <1>4, <1>5 DEF Conflicts

\* What is reconciled under a key has that key.
LEMMA KeyStays ==
    ASSUME NEW edges \in Seq(EdgeRecord), NEW k \in GroupKeys(edges)
    PROVE  Key(Reconciled(edges, k)) = k
<1>1. PICK x \in Range(edges) : k = normalizedGroupKey(x)
  BY DEF GroupKeys
<1>2. x \in EdgeRecord
  BY ElementOfSeq, SMTT(30) DEF Range
<1> DEFINE n == [x EXCEPT !.sp = NormalizePortName(@), !.dp = NormalizePortName(@)]
           a == <<n.src, n.sp, n.dst, n.dp>>
           b == <<n.dst, n.dp, n.src, n.sp>>
<1>3. n.src \in Int /\ n.sp \in Int /\ n.dst \in Int /\ n.dp \in Int
  BY <1>2, SMTT(30) DEF EdgeRecord, NormalizePortName
<1>4. k = IF compareEdgeKey(b, a) THEN b ELSE a
  BY <1>1 DEF normalizedGroupKey, Key
<1> HIDE DEF n
<1>5. compareEdgeKey(b, a) => ~compareEdgeKey(a, b)
  <2>1. ASSUME NEW u \in [1..4 -> Int], NEW v \in [1..4 -> Int], compareEdgeKey(u, v) PROVE ~compareEdgeKey(v, u)
    <3>1. PICK i \in 1..4 : u[i] < v[i] /\ \A j \in 1..(i - 1) : u[j] = v[j]
      BY <2>1 DEF compareEdgeKey
    <3>2. ASSUME NEW m \in 1..4, v[m] < u[m], \A j \in 1..(m - 1) : v[j] = u[j] PROVE FALSE
      <4>1. u[i] \in Int /\ v[i] \in Int /\ u[m] \in Int /\ v[m] \in Int
        OBVIOUS
      <4>2. m # i
        BY <3>1, <3>2, <4>1, SMTT(60)
      <4>3. m < i => m \in 1..(i - 1)
        BY SMT
      <4>4. i < m => i \in 1..(m - 1)
        BY SMT
      <4> QED
        BY <3>1, <3>2, <4>1, <4>2, <4>3, <4>4, SMTT(60)
    <3> QED
      BY <3>2 DEF compareEdgeKey
  <2>2. a \in [1..4 -> Int] /\ b \in [1..4 -> Int]
    BY <1>3, SMTT(30)
  <2> QED
    BY <2>1, <2>2
<1>6. PICK c, dir : Reconciled(edges, k) = Edge(k[1], k[2], k[3], k[4], c.proto, c.rank, dir)
  BY ReconciledIs
<1>7. Key(Reconciled(edges, k)) =
        IF compareEdgeKey(<<k[3], k[4], k[1], k[2]>>, <<k[1], k[2], k[3], k[4]>>)
        THEN <<k[3], k[4], k[1], k[2]>> ELSE <<k[1], k[2], k[3], k[4]>>
  BY <1>6, SMT DEF Key, Edge
<1>8. CASE compareEdgeKey(b, a)
  <2>1. k = b /\ <<k[1], k[2], k[3], k[4]>> = b /\ <<k[3], k[4], k[1], k[2]>> = a
    BY <1>4, <1>8
  <2> QED
    BY <1>5, <1>7, <1>8, <2>1
<1>9. CASE ~compareEdgeKey(b, a)
  <2>1. k = a /\ <<k[1], k[2], k[3], k[4]>> = a /\ <<k[3], k[4], k[1], k[2]>> = b
    BY <1>4, <1>9
  <2> QED
    BY <1>7, <1>9, <2>1
<1> QED
  BY <1>8, <1>9

\* A graph does not differ from itself.
LEMMA NoDifference ==
    ASSUME NEW edges \in Seq(EdgeRecord)
    PROVE  Diff(ReconciledEdges(edges), ReconciledEdges(edges)) = NoChange
<1> DEFINE g == ReconciledEdges(edges)
<1>1. \A x \in g, y \in g : Key(x) = Key(y) => x = y
  BY KeyStays DEF ReconciledEdges
<1> HIDE DEF g
<1>2. {x \in g : {e \in g : Key(e) = Key(x)} = {}} = {}
  OBVIOUS
<1>3. {p \in g \X g : Key(p[1]) = Key(p[2]) /\ edgeMateriallyChanged(p[1], p[2])} = {}
  BY <1>1 DEF edgeMateriallyChanged
<1>4. Diff(g, g) = [added |-> {}, updated |-> {}, removed |-> {}]
  BY <1>2, <1>3 DEF Diff
<1> QED
  BY <1>4 DEF g, NoChange

-----------------------------------------------------------------------------
\* Observations.  What was observed is always a sequence of the edges modules report.
LEMMA ObservedIsSeq == ObservationsSpec => [](observed \in Seq(EdgeRecord))
<1>1. ObservationsInit => observed \in Seq(EdgeRecord)
  BY SMT DEF ObservationsInit
<1>2. ASSUME observed \in Seq(EdgeRecord), [ObservationsNext]_observed PROVE (observed \in Seq(EdgeRecord))'
  <2>1. CASE Observe
    BY <1>2, <2>1, SightingsAssumption, SMTT(30) DEF Observe
  <2>2. CASE StartsOver
    BY <2>2, SMTT(30) DEF StartsOver
  <2> QED
    BY <1>2, <2>1, <2>2 DEF ObservationsNext
<1> QED
  BY <1>1, <1>2, PTL DEF ObservationsSpec

\* A sequence has the elements it had before it was reordered.
LEMMA ReorderedIsSame ==
    ASSUME NEW n \in Nat, NEW s, DOMAIN s = 1..n, NEW p \in [1..n -> 1..n],
           \A i \in 1..n : \E j \in 1..n : p[j] = i
    PROVE  Range([i \in 1..n |-> s[p[i]]]) = Range(s)
<1> DEFINE t == [i \in 1..n |-> s[p[i]]]
<1>1. Range(t) = {t[i] : i \in 1..n} /\ Range(s) = {s[i] : i \in 1..n}
  BY DEF Range
<1>2. \A i \in 1..n : t[i] = s[p[i]] /\ p[i] \in 1..n
  OBVIOUS
<1> HIDE DEF t
<1>3. ASSUME NEW i \in 1..n PROVE s[i] \in Range(t)
  <2>1. PICK j \in 1..n : p[j] = i
    OBVIOUS
  <2>2. t[j] = s[i]
    BY <1>2, <2>1
  <2> QED
    BY <1>1, <2>2
<1>4. ASSUME NEW i \in 1..n PROVE t[i] \in Range(s)
  BY <1>1, <1>2
<1>5. Range(t) = Range(s)
  <2>1. Range(s) \subseteq Range(t)
    BY <1>1, <1>3
  <2>2. Range(t) \subseteq Range(s)
    BY <1>1, <1>4
  <2> QED
    BY <2>1, <2>2
<1> QED
  BY <1>5 DEF t

\* GraphIsCanonical for any edges and any number of them.
THEOREM OneGraph == ObservationsSpec => []GraphIsCanonical
<1> SUFFICES ASSUME observed \in Seq(EdgeRecord) PROVE GraphIsCanonical
  BY ObservedIsSeq, PTL
<1> DEFINE n == Len(observed)
           N(e) == [e EXCEPT !.sp = NormalizePortName(@), !.dp = NormalizePortName(@)]
           short == [i \in DOMAIN observed |-> N(observed[i])]
<1>1. DOMAIN observed = 1..n /\ n \in Nat /\ \A i \in 1..n : observed[i] \in EdgeRecord
  BY ElementOfSeq, SMTT(30)
<1>2. ASSUME NEW p \in Orders
      PROVE  Reconcile([i \in DOMAIN observed |-> observed[p[i]]]) = Reconcile(observed)
  <2> DEFINE t == [i \in DOMAIN observed |-> observed[p[i]]]
  <2>1. p \in [1..n -> 1..n] /\ IsInjective(p)
    BY <1>1 DEF Orders
  <2>2. \A i \in 1..n : \E j \in 1..n : p[j] = i
    BY <1>1, <2>1, InjectiveIsOnto
  <2>3. t = [i \in 1..n |-> observed[p[i]]]
    BY <1>1
  <2>4. t \in Seq(EdgeRecord)
    BY <1>1, <2>1, <2>3, SMTT(30)
  <2>5. Range(t) = Range(observed)
    <3>1. Range([i \in 1..n |-> observed[p[i]]]) = Range(observed)
      BY <1>1, <2>1, <2>2, ReorderedIsSame
    <3> QED
      BY <2>3, <3>1
  <2> HIDE DEF t
  <2>6. Spells(Range(t), Range(observed)) /\ Spells(Range(observed), Range(t))
    BY <2>5 DEF Spells, Alike
  <2>7. GroupKeys(t) = GroupKeys(observed) /\ \A k \in GroupKeys(t) : Reconciled(t, k) = Reconciled(observed, k)
    BY <2>4, <2>6, ReconcileIsCanonical
  <2>8. ReconciledEdges(t) = ReconciledEdges(observed)
    BY <2>7 DEF ReconciledEdges
  <2>9. Conflicts(t) = Conflicts(observed)
    BY <2>4, <2>5, ConflictsAreOfTheSet
  <2>10. Reconcile(t) = Reconcile(observed)
    BY <2>8, <2>9 DEF Reconcile
  <2> QED
    BY <2>10 DEF t
<1>3. Diff(ReconciledEdges(short), ReconciledEdges(observed)) = NoChange
  <2>1. ASSUME NEW e \in EdgeRecord
        PROVE  N(e) \in EdgeRecord /\ Alike(N(e), e) /\ Alike(e, N(e))
    <3>1. \A m \in Nat : NormalizePortName(m) \in Nat /\ NormalizePortName(NormalizePortName(m)) = NormalizePortName(m)
      BY SMTT(30) DEF NormalizePortName
    <3> QED
      BY <3>1 DEF EdgeRecord, Alike
  <2> HIDE DEF N
  <2>2. short \in Seq(EdgeRecord) /\ short = [i \in 1..n |-> N(observed[i])]
    BY <1>1, <2>1, SMTT(30)
  <2>3. Spells(Range(short), Range(observed)) /\ Spells(Range(observed), Range(short))
    BY <1>1, <2>1, <2>2 DEF Spells, Range
  <2> HIDE DEF short
  <2>4. GroupKeys(short) = GroupKeys(observed) /\ \A k \in GroupKeys(short) : Reconciled(short, k) = Reconciled(observed, k)
    BY <2>2, <2>3, ReconcileIsCanonical
  <2>5. ReconciledEdges(short) = ReconciledEdges(observed)
    BY <2>4 DEF ReconciledEdges
  <2> QED
    BY <2>5, NoDifference
<1> QED
  BY <1>2, <1>3 DEF GraphIsCanonical

-----------------------------------------------------------------------------
(* HubMerge: nothing that the spokes saw is lost                           *)

\* For two ends that differ, the order of the ends decides the key.
LEMMA KeyByEnds ==
    ASSUME NEW e, e.src \in Int, e.dst \in Int, e.src # e.dst
    PROVE  Key(e) = IF e.src < e.dst THEN <<e.src, e.sp, e.dst, e.dp>> ELSE <<e.dst, e.dp, e.src, e.sp>>
<1> DEFINE s == e.src
           d == e.dst
           a == <<s, e.sp, d, e.dp>>
           b == <<d, e.dp, s, e.sp>>
<1>1. Key(e) = IF compareEdgeKey(b, a) THEN b ELSE a
  BY DEF Key
<1>2. a[1] = s /\ b[1] = d
  OBVIOUS
<1> HIDE DEF a, b
<1>3. compareEdgeKey(b, a) <=> d < s
  <2>1. ASSUME d < s PROVE compareEdgeKey(b, a)
    <3>1. 1 \in 1..4 /\ b[1] < a[1] /\ \A j \in 1..(1 - 1) : b[j] = a[j]
      BY <1>2, <2>1, SMTT(30)
    <3> QED
      BY <3>1 DEF compareEdgeKey
  <2>2. ASSUME ~(d < s) PROVE ~compareEdgeKey(b, a)
    <3> SUFFICES ASSUME NEW i \in 1..4, b[i] < a[i], \A j \in 1..(i - 1) : b[j] = a[j] PROVE FALSE
      BY DEF compareEdgeKey
    <3>1. i # 1
      BY <1>2, <2>2
    <3>2. 1 \in 1..(i - 1)
      BY <3>1, SMTT(30)
    <3> QED
      BY <1>2, <3>2
  <2> QED
    BY <2>1, <2>2
<1>4. (d < s) <=> ~(s < d)
  BY SMT
<1> QED
  BY <1>1, <1>3, <1>4 DEF a, b

\* The name of a link as either side spells it.
LEMMA LinkKey ==
    ASSUME NEW e \in EdgeRecord, e.src # e.dst
    PROVE  normalizedGroupKey(e) =
             IF e.src < e.dst THEN <<e.src, NormalizePortName(e.sp), e.dst, NormalizePortName(e.dp)>>
                              ELSE <<e.dst, NormalizePortName(e.dp), e.src, NormalizePortName(e.sp)>>
<1> DEFINE n == [e EXCEPT !.sp = NormalizePortName(@), !.dp = NormalizePortName(@)]
<1>1. n.src = e.src /\ n.dst = e.dst /\ n.sp = NormalizePortName(e.sp) /\ n.dp = NormalizePortName(e.dp)
  BY DEF EdgeRecord
<1>2. e.src \in Int /\ e.dst \in Int
  BY SMT DEF EdgeRecord
<1>3. normalizedGroupKey(e) = Key(n)
  BY DEF normalizedGroupKey
<1> HIDE DEF n
<1> QED
  BY <1>1, <1>2, <1>3, KeyByEnds

\* What Reconcile makes of a link: an edge of the graph, under its key, with short port
\* names, that is found under the same key again, from either side.
LEMMA ReconciledAgain ==
    ASSUME NEW edges \in Seq(EdgeRecord), NEW e \in ReconciledEdges(edges)
    PROVE  /\ e \in EdgeRecord /\ WellFormed(e) /\ normalizedGroupKey(e) = Key(e)
           /\ Reversed(e) \in EdgeRecord /\ WellFormed(Reversed(e)) /\ normalizedGroupKey(Reversed(e)) = Key(e)
<1>1. PICK k \in GroupKeys(edges) : e = Reconciled(edges, k)
  BY DEF ReconciledEdges
<1>2. PICK x \in Range(edges) : WellFormed(x) /\ k = normalizedGroupKey(x)
  BY DEF GroupKeys
<1>3. x \in EdgeRecord
  BY ElementOfSeq, SMTT(30) DEF Range
<1>4. \A m \in Nat : NormalizePortName(m) \in Nat /\ NormalizePortName(NormalizePortName(m)) = NormalizePortName(m)
  BY SMT DEF NormalizePortName
<1>5. /\ k[1] \in Nat /\ k[2] \in Nat /\ k[3] \in Nat /\ k[4] \in Nat
      /\ k[1] # 0 /\ k[3] # 0 /\ k[1] # k[3]
      /\ NormalizePortName(k[2]) = k[2] /\ NormalizePortName(k[4]) = k[4]
  <2>1. x.src \in Nat /\ x.sp \in Nat /\ x.dst \in Nat /\ x.dp \in Nat /\ x.src # 0 /\ x.dst # 0 /\ x.src # x.dst
    BY <1>2, <1>3 DEF WellFormed, EdgeRecord
  <2>2. NormalizePortName(x.sp) \in Nat /\ NormalizePortName(x.dp) \in Nat
    BY <1>4, <2>1
  <2>3. CASE k = <<x.src, NormalizePortName(x.sp), x.dst, NormalizePortName(x.dp)>>
    BY <1>4, <2>1, <2>2, <2>3
  <2>4. CASE k = <<x.dst, NormalizePortName(x.dp), x.src, NormalizePortName(x.sp)>>
    BY <1>4, <2>1, <2>2, <2>4
  <2> QED
    BY <1>2, <1>3, <2>3, <2>4, KeyIsOfEnds
<1>6. PICK c \in LinkOf(edges, k) : \E dir \in {"uni", "bi"} :
         e = Edge(k[1], k[2], k[3], k[4], c.proto, c.rank, dir)
  BY <1>1, ReconciledIs DEF Winner
<1>7. PICK dir \in {"uni", "bi"} : e = Edge(k[1], k[2], k[3], k[4], c.proto, c.rank, dir)
  BY <1>6
<1>8. c.proto \in Nat /\ c.rank \in Nat
  <2>1. c \in EdgeRecord
    BY ElementOfSeq, SMTT(30) DEF LinkOf, Range
  <2> QED
    BY <2>1 DEF EdgeRecord
<1>9. /\ e.src = k[1] /\ e.sp = k[2] /\ e.dst = k[3] /\ e.dp = k[4]
      /\ e.proto = c.proto /\ e.rank = c.rank /\ e.dir = dir
  BY <1>7 DEF Edge
<1>10. e \in EdgeRecord /\ WellFormed(e)
  BY <1>5, <1>7, <1>8, <1>9 DEF Edge, EdgeRecord, WellFormed
<1> DEFINE r == Reversed(e)
<1>11. r.src = e.dst /\ r.sp = e.dp /\ r.dst = e.src /\ r.dp = e.sp
  BY DEF Reversed, Edge
<1>12. r \in EdgeRecord /\ WellFormed(r)
  BY <1>10 DEF Reversed, Edge, EdgeRecord, WellFormed
<1> HIDE DEF r
<1>13. Key(e) = IF e.src < e.dst THEN <<e.src, e.sp, e.dst, e.dp>> ELSE <<e.dst, e.dp, e.src, e.sp>>
  <2>1. e.src \in Int /\ e.dst \in Int /\ e.src # e.dst
    BY <1>5, <1>9, SMTT(30)
  <2> QED
    BY <2>1, KeyByEnds
<1>14. normalizedGroupKey(e) = Key(e)
  BY <1>5, <1>9, <1>10, <1>13, LinkKey
<1>15. normalizedGroupKey(r) =
         IF r.src < r.dst THEN <<r.src, NormalizePortName(r.sp), r.dst, NormalizePortName(r.dp)>>
                          ELSE <<r.dst, NormalizePortName(r.dp), r.src, NormalizePortName(r.sp)>>
  BY <1>12, LinkKey DEF WellFormed
<1>16. normalizedGroupKey(r) = Key(e)
  BY <1>5, <1>9, <1>11, <1>13, <1>15, SMTT(20)
<1> QED
  BY <1>10, <1>12, <1>14, <1>16 DEF r

\* An observation of a link puts the link into the graph.
LEMMA ObservedIsInGraph ==
    ASSUME NEW edges \in Seq(EdgeRecord), NEW e \in Range(edges), WellFormed(e)
    PROVE  /\ normalizedGroupKey(e) \in GroupKeys(edges)
           /\ Key(Reconciled(edges, normalizedGroupKey(e))) = normalizedGroupKey(e)
<1>1. normalizedGroupKey(e) \in GroupKeys(edges)
  BY DEF GroupKeys
<1> QED
  BY <1>1, KeyStays

\* Observed from both sides, it is bidirectional.
LEMMA BothSidesConfirm ==
    ASSUME NEW edges \in Seq(EdgeRecord), NEW e \in Range(edges), NEW f \in Range(edges),
           WellFormed(e), WellFormed(f), normalizedGroupKey(e) = normalizedGroupKey(f), e.src # f.src
    PROVE  Reconciled(edges, normalizedGroupKey(e)).dir = "bi"
<1> DEFINE k == normalizedGroupKey(e)
           g == LinkOf(edges, k)
           sides == {o.src : o \in g}
<1>1. k \in GroupKeys(edges)
  BY ObservedIsInGraph
<1>2. e \in g /\ f \in g
  BY DEF LinkOf
<1>3. IsFiniteSet(sides)
  <2>1. g \subseteq Range(edges)
    BY DEF LinkOf
  <2>2. IsFiniteSet(g)
    BY <2>1, ElementsAreFinite, FS_Subset
  <2> HIDE DEF g
  <2> DEFINE h == [o \in g |-> o.src]
  <2>3. IsFiniteSet({h[o] : o \in g})
    <3>1. DOMAIN h = g
      OBVIOUS
    <3> HIDE DEF h
    <3> QED
      BY <2>2, <3>1, ImageIsFinite
  <2>4. {h[o] : o \in g} = sides
    OBVIOUS
  <2> QED
    BY <2>3, <2>4
<1>4. {e.src, f.src} \subseteq sides
  BY <1>2
<1> HIDE DEF sides
<1>5. Cardinality(sides) >= 2
  <2>1. IsFiniteSet({e.src}) /\ Cardinality({e.src}) = 1
    BY FS_Singleton
  <2>2. Cardinality({e.src} \cup {f.src}) = 2
    <3>1. f.src \notin {e.src}
      OBVIOUS
    <3>2. Cardinality({e.src} \cup {f.src}) = Cardinality({e.src}) + 1
      BY <2>1, <3>1, FS_AddElement
    <3> QED
      BY <2>1, <3>2, SMTT(30)
  <2>3. {e.src, f.src} = {e.src} \cup {f.src}
    OBVIOUS
  <2>4. Cardinality(sides) \in Nat /\ Cardinality({e.src, f.src}) <= Cardinality(sides)
    BY <1>3, <1>4, FS_Subset, FS_CardinalityType
  <2> QED
    BY <2>2, <2>3, <2>4
<1>6. PICK c : Reconciled(edges, k) =
         Edge(k[1], k[2], k[3], k[4], c.proto, c.rank, IF Cardinality(sides) >= 2 THEN "bi" ELSE "uni")
  BY <1>1, ReconciledIs DEF sides
<1> QED
  BY <1>5, <1>6, SMTT(30) DEF Edge

-----------------------------------------------------------------------------
\* A finite set of pairs of observations, one after the other.
LEMMA PairsHave ==
    ASSUME NEW P, IsFiniteSet(P), \A p \in P : p \in Seq(EdgeRecord)
    PROVE  /\ FlattenSeq(SetToSeq(P)) \in Seq(EdgeRecord)
           /\ Range(FlattenSeq(SetToSeq(P))) = UNION {Range(p) : p \in P}
<1> DEFINE ps == SetToSeq(P)
<1>1. ps \in Seq(P) /\ Range(ps) = P
  BY SetToSeqIsSeq
<1> HIDE DEF ps
<1>2. Len(ps) \in Nat /\ \A i \in 1..Len(ps) : ps[i] \in P
  BY <1>1, ElementOfSeq, SMTT(30)
<1>3. ps = [i \in 1..Len(ps) |-> ps[i]]
  BY <1>1, SMTT(30)
<1>4. ps \in Seq(Seq(EdgeRecord))
  BY <1>2, <1>3, SMTT(30)
<1>5. P = {ps[i] : i \in 1..Len(ps)}
  BY <1>1, ElementsAreFinite
<1>6. UNION {Range(ps[i]) : i \in 1..Len(ps)} = UNION {Range(p) : p \in P}
  BY <1>5
<1>7. FlattenSeq(ps) \in Seq(EdgeRecord) /\ Range(FlattenSeq(ps)) = UNION {Range(p) : p \in P}
  BY <1>4, <1>6, FlattenIsSeq
<1> QED
  BY <1>7 DEF ps

MergeInv ==
    /\ sightings \in [Members -> Seq(EdgeRecord)]
    /\ outOfScope \in [Members -> SUBSET NeighbourRecord]
    /\ \A s \in Members : IsFiniteSet(outOfScope[s])
    /\ loose \in BOOLEAN

LEMMA MergeInvHolds == MergeSpec => []MergeInv
<1>1. MergeInit => MergeInv
  BY FS_EmptySet, SMTT(30) DEF MergeInit, MergeInv
<1>2. ASSUME MergeInv, [MergeNext]_mergeVars PROVE MergeInv'
  <2> USE DEF MergeInv
  <2>1. CASE SpokeObserves
    <3>1. PICK s \in Members : \E e \in SpokeSightings[s] : sightings' = [sightings EXCEPT ![s] = Append(@, e)]
      BY <2>1 DEF SpokeObserves
    <3>2. PICK e \in EdgeRecord : sightings' = [sightings EXCEPT ![s] = Append(@, e)]
      BY <3>1, MergeAssumption DEF Members
    <3>3. sightings' \in [Members -> Seq(EdgeRecord)]
      BY <1>2, <3>1, <3>2, SMTT(30)
    <3> QED
      BY <1>2, <2>1, <3>3 DEF SpokeObserves
  <2>2. CASE SpokeSeesBoundary
    <3>1. PICK s \in Members : \E n \in SpokeBoundary[s] : outOfScope' = [outOfScope EXCEPT ![s] = @ \cup {n}]
      BY <2>2 DEF SpokeSeesBoundary
    <3>2. PICK n \in NeighbourRecord : outOfScope' = [outOfScope EXCEPT ![s] = @ \cup {n}]
      BY <3>1, MergeAssumption DEF Members
    <3>3. IsFiniteSet(outOfScope[s] \cup {n})
      BY <1>2, FS_AddElement
    <3>4. outOfScope' \in [Members -> SUBSET NeighbourRecord] /\ \A m \in Members : IsFiniteSet(outOfScope'[m])
      BY <1>2, <3>1, <3>2, <3>3
    <3> QED
      BY <1>2, <2>2, <3>4 DEF SpokeSeesBoundary
  <2>3. CASE SpokeStartsOver
    <3>1. PICK s \in Members : /\ sightings' = [sightings EXCEPT ![s] = <<>>]
                               /\ outOfScope' = [outOfScope EXCEPT ![s] = {}]
      BY <2>3 DEF SpokeStartsOver
    <3>2. outOfScope' \in [Members -> SUBSET NeighbourRecord] /\ \A m \in Members : IsFiniteSet(outOfScope'[m])
      BY <1>2, <3>1, FS_EmptySet
    <3>3. sightings' \in [Members -> Seq(EdgeRecord)]
      BY <1>2, <3>1, SMTT(30)
    <3> QED
      BY <1>2, <2>3, <3>2, <3>3 DEF SpokeStartsOver
  <2>4. CASE UNCHANGED mergeVars
    BY <1>2, <2>4 DEF mergeVars
  <2> QED
    BY <1>2, <2>1, <2>2, <2>3, <2>4 DEF MergeNext
<1> QED
  BY <1>1, <1>2, PTL DEF MergeSpec

\* A reconciled graph has finitely many edges.
LEMMA GraphIsFinite ==
    ASSUME NEW edges \in Seq(EdgeRecord)
    PROVE  IsFiniteSet(ReconciledEdges(edges))
<1> DEFINE V == ValidEdges(edges)
           f == [x \in V |-> Reconciled(edges, normalizedGroupKey(x))]
<1>1. V \subseteq Range(edges)
  BY DEF ValidEdges
<1>2. IsFiniteSet(V)
  BY <1>1, ElementsAreFinite, FS_Subset
<1>3. ReconciledEdges(edges) = {Reconciled(edges, normalizedGroupKey(x)) : x \in V}
  BY DEF ReconciledEdges, GroupKeys, ValidEdges
<1> HIDE DEF V
<1>4. DOMAIN f = V /\ {f[x] : x \in V} = {Reconciled(edges, normalizedGroupKey(x)) : x \in V}
  OBVIOUS
<1> HIDE DEF f
<1> QED
  BY <1>2, <1>3, <1>4, ImageIsFinite, SMTT(20)

-----------------------------------------------------------------------------
\* An observation of the boundary: one of a pair of edges between two devices.
IsPairOf(x, s, sp, d, dp, proto, rank) ==
    x = Edge(s, sp, d, dp, proto, rank, "uni") \/ x = Edge(d, dp, s, sp, proto, rank, "uni")

LEMMA PairIsSeq ==
    ASSUME NEW s \in Nat, NEW sp \in Nat, NEW d \in Nat, NEW dp \in Nat, NEW proto \in Nat, NEW rank \in Nat
    PROVE  /\ appendEdgePair(s, sp, d, dp, proto, rank) \in Seq(EdgeRecord)
           /\ \A x \in Range(appendEdgePair(s, sp, d, dp, proto, rank)) : IsPairOf(x, s, sp, d, dp, proto, rank)
<1> DEFINE x == Edge(s, sp, d, dp, proto, rank, "uni")
           y == Edge(d, dp, s, sp, proto, rank, "uni")
<1>1. x \in EdgeRecord /\ y \in EdgeRecord
  BY DEF Edge, EdgeRecord
<1>2. appendEdgePair(s, sp, d, dp, proto, rank) = <<x, y>>
  BY DEF appendEdgePair
<1> HIDE DEF x, y
<1>3. <<x, y>> \in Seq(EdgeRecord) /\ \A z \in Range(<<x, y>>) : z = x \/ z = y
  BY <1>1, SMTT(30) DEF Range
<1> QED
  BY <1>2, <1>3 DEF x, y, IsPairOf

\* The ends of a link are those of its observations, from one side or the other.
LEMMA KeyHasEnds ==
    ASSUME NEW x \in EdgeRecord
    PROVE  \/ normalizedGroupKey(x)[1] = x.src /\ normalizedGroupKey(x)[3] = x.dst
           \/ normalizedGroupKey(x)[1] = x.dst /\ normalizedGroupKey(x)[3] = x.src
  BY KeyIsOfEnds, SMT

\* The names of the devices are numbers in every spelling.
LEMMA CanonicalIsName ==
    ASSUME MergeInv, NEW n \in Nat
    PROVE  canonicalizeDeviceName(n) \in Nat
<1>1. normalizeDeviceName(n) \in Nat /\ ToLower(n) \in Nat
  BY SMT DEF normalizeDeviceName, ToLower
<1> QED
  BY <1>1 DEF canonicalizeDeviceName

\* A match of the boundary: two devices that name each other.
LEMMA MatchNamesBoth ==
    ASSUME MergeInv, NEW p \in Matches(Members)
    PROVE  /\ p[1] \in NeighbourRecord /\ p[2] \in NeighbourRecord
           /\ \E s \in Members : \E n \in outOfScope[s] :
                /\ canonicalizeDeviceName(n.device) = p[1].device
                /\ canonicalizeDeviceName(n.hint) = p[2].device
           /\ \E s \in Members : \E n \in outOfScope[s] :
                /\ canonicalizeDeviceName(n.device) = p[2].device
                /\ canonicalizeDeviceName(n.hint) = p[1].device
<1>1. p[1] \in OosIndex(Members) /\ p[2] \in OosIndex(Members) /\ Answers(p[1], p[2])
  BY DEF Matches
<1>2. ASSUME NEW q \in OosIndex(Members)
      PROVE  /\ q \in NeighbourRecord
             /\ \E s \in Members : \E n \in outOfScope[s] :
                  /\ canonicalizeDeviceName(n.device) = q.device
                  /\ canonicalizeDeviceName(n.hint) = q.hint
  <2>1. PICK s \in Members : \E n \in outOfScope[s] :
          q = Neighbour(canonicalizeDeviceName(n.device), n.port, canonicalizeDeviceName(n.hint), n.proto)
    BY DEF OosIndex
  <2>2. PICK n \in outOfScope[s] :
          q = Neighbour(canonicalizeDeviceName(n.device), n.port, canonicalizeDeviceName(n.hint), n.proto)
    BY <2>1
  <2>3. n \in NeighbourRecord
    BY DEF MergeInv
  <2>4. n.device \in Nat /\ n.port \in Nat /\ n.hint \in Nat /\ n.proto \in Nat
    BY <2>3 DEF NeighbourRecord
  <2>5. canonicalizeDeviceName(n.device) \in Nat /\ canonicalizeDeviceName(n.hint) \in Nat
    BY <2>4, CanonicalIsName
  <2>6. q.device = canonicalizeDeviceName(n.device) /\ q.hint = canonicalizeDeviceName(n.hint)
    BY <2>2 DEF Neighbour
  <2>7. q \in NeighbourRecord
    BY <2>2, <2>4, <2>5 DEF Neighbour, NeighbourRecord
  <2> QED
    BY <2>6, <2>7
<1>3. p[1].hint = p[2].device /\ p[2].hint = p[1].device
  BY <1>1 DEF Answers
<1> QED
  BY <1>1, <1>2, <1>3

\* The boundary is finite.
LEMMA PairsAreFinite ==
    ASSUME MergeInv
    PROVE  IsFiniteSet(PortPairs(Members))
<1> DEFINE all == {outOfScope[s] : s \in Members}
           N(n) == Neighbour(canonicalizeDeviceName(n.device), n.port, canonicalizeDeviceName(n.hint), n.proto)
           f == [n \in UNION all |-> N(n)]
           g == [p \in Matches(Members) |-> PortPair(p)]
<1>1. IsFiniteSet(all) /\ \A x \in all : IsFiniteSet(x)
  <2>1. DOMAIN outOfScope = Members /\ IsFiniteSet(Members)
    BY MergeAssumption DEF MergeInv, Members
  <2> QED
    BY <2>1, ImageIsFinite DEF MergeInv
<1>2. IsFiniteSet(UNION all)
  BY <1>1, FS_UNION
<1>3. OosIndex(Members) = {N(n) : n \in UNION all}
  BY DEF OosIndex
<1> HIDE DEF all, N
<1>4. DOMAIN f = UNION all /\ {f[n] : n \in UNION all} = {N(n) : n \in UNION all}
  OBVIOUS
<1> HIDE DEF f
<1>5. IsFiniteSet(OosIndex(Members))
  BY <1>2, <1>3, <1>4, ImageIsFinite, SMTT(20)
<1>6. IsFiniteSet(Matches(Members))
  <2>1. Matches(Members) \subseteq OosIndex(Members) \X OosIndex(Members)
    BY DEF Matches
  <2> QED
    BY <1>5, <2>1, FS_Product, FS_Subset
<1>7. DOMAIN g = Matches(Members) /\ {g[p] : p \in Matches(Members)} = PortPairs(Members)
  BY DEF PortPairs
<1> HIDE DEF g
<1> QED
  BY <1>6, <1>7, ImageIsFinite, SMTT(30)

\* A port pair lies between two devices that name each other.
LEMMA PairIsMatch ==
    ASSUME MergeInv, NEW k \in PortPairs(Members)
    PROVE  \E p \in Matches(Members) :
              /\ k[1] \in Nat /\ k[2] \in Nat /\ k[3] \in Nat /\ k[4] \in Nat
              /\ \/ k[1] = p[1].device /\ k[3] = p[2].device
                 \/ k[1] = p[2].device /\ k[3] = p[1].device
<1>1. PICK p \in Matches(Members) : k = PortPair(p)
  BY DEF PortPairs
<1>2. /\ p[1].device \in Nat /\ p[1].port \in Nat /\ p[2].device \in Nat /\ p[2].port \in Nat
  BY MatchNamesBoth DEF NeighbourRecord
<1> DEFINE e == Edge(p[1].device, p[1].port, p[2].device, p[2].port, 0, 0, "uni")
<1>3. k = <<e.src, e.sp, e.dst, e.dp>> \/ k = <<e.dst, e.dp, e.src, e.sp>>
  BY <1>1 DEF PortPair, Key
<1>4. e.src = p[1].device /\ e.sp = p[1].port /\ e.dst = p[2].device /\ e.dp = p[2].port
  BY DEF Edge
<1> HIDE DEF e
<1> QED
  BY <1>2, <1>3, <1>4, SMTT(30)

-----------------------------------------------------------------------------
\* Where an observation of the combined graph comes from.
FromSpoke(x) == \E s \in Members : \E e \in PayloadEdges(s) : x = e \/ x = Reversed(e)
FromBoundary(x, choice) == \E k \in PortPairs(Members) : IsPairOf(x, k[1], k[2], k[3], k[4], choice[k], 2)
FromConfig(x) == \E l \in KnownLinks(Members) : IsPairOf(x, l.src, l.sp, l.dst, l.dp, Configured, 0)

\* The observations of a spoke.
LEMMA SpokeHas ==
    ASSUME MergeInv, NEW s \in Members
    PROVE  /\ SpokeObservations(s) \in Seq(EdgeRecord)
           /\ \A e \in PayloadEdges(s) : e \in Range(SpokeObservations(s))
           /\ \A e \in PayloadEdges(s) : e.dir = "bi" => Reversed(e) \in Range(SpokeObservations(s))
           /\ \A x \in Range(SpokeObservations(s)) : FromSpoke(x)
<1> DEFINE P == PayloadEdges(s)
           B == {x \in P : x.dir = "bi"}
           f == [x \in B |-> Reversed(x)]
           R == {Reversed(e) : e \in B}
<1>1. sightings[s] \in Seq(EdgeRecord)
  BY DEF MergeInv
<1>2. IsFiniteSet(P) /\ P \subseteq EdgeRecord /\ \A e \in P : Reversed(e) \in EdgeRecord
  BY <1>1, GraphIsFinite, ReconciledAgain DEF PayloadEdges
<1>3. SpokeObservations(s) = SetToSeq(P) \o SetToSeq(R)
  BY DEF SpokeObservations
<1>4. \A x \in P : FromSpoke(x) /\ FromSpoke(Reversed(x))
  BY DEF FromSpoke
<1> HIDE DEF P
<1>5. IsFiniteSet(B)
  BY <1>2, FS_Subset
<1>6. DOMAIN f = B /\ {f[x] : x \in B} = R
  OBVIOUS
<1>7. IsFiniteSet(R)
  <2> HIDE DEF f, B, R
  <2> QED
    BY <1>5, <1>6, ImageIsFinite
<1>8. R \subseteq EdgeRecord
  BY <1>2
<1>9. \A e \in P : e.dir = "bi" => Reversed(e) \in R
  OBVIOUS
<1>10. \A x \in R : FromSpoke(x)
  BY <1>4
<1> HIDE DEF R
<1>11. SetToSeq(P) \in Seq(EdgeRecord) /\ Range(SetToSeq(P)) = P
  BY <1>2, SetToSeqIsSeq, SMTT(30)
<1>12. SetToSeq(R) \in Seq(EdgeRecord) /\ Range(SetToSeq(R)) = R
  BY <1>7, <1>8, SetToSeqIsSeq, SMTT(20)
<1>13. SpokeObservations(s) \in Seq(EdgeRecord) /\ Range(SpokeObservations(s)) = P \cup R
  BY <1>3, <1>11, <1>12, ConcatHasBoth, SMTT(20)
<1> QED
  BY <1>4, <1>9, <1>10, <1>13 DEF P

\* The observations of all the spokes.
LEMMA SpokesHave ==
    ASSUME MergeInv
    PROVE  LET all == FlattenSeq(SetToSeq({SpokeObservations(s) : s \in Members}))
           IN  /\ all \in Seq(EdgeRecord)
               /\ \A s \in Members : Range(SpokeObservations(s)) \subseteq Range(all)
               /\ \A x \in Range(all) : FromSpoke(x)
<1> DEFINE P == {SpokeObservations(s) : s \in Members}
           f == [s \in Members |-> SpokeObservations(s)]
           all == FlattenSeq(SetToSeq(P))
<1>1. DOMAIN f = Members /\ {f[s] : s \in Members} = P /\ IsFiniteSet(Members)
  BY MergeAssumption DEF Members
<1>2. IsFiniteSet(P)
  <2> HIDE DEF f, P
  <2> QED
    BY <1>1, ImageIsFinite
<1>3. \A p \in P : p \in Seq(EdgeRecord) /\ \A x \in Range(p) : FromSpoke(x)
  BY SpokeHas
<1>4. \A s \in Members : SpokeObservations(s) \in P
  OBVIOUS
<1> HIDE DEF P
<1>5. all \in Seq(EdgeRecord) /\ Range(all) = UNION {Range(p) : p \in P}
  BY <1>2, <1>3, PairsHave
<1> HIDE DEF all
<1>6. \A s \in Members : Range(SpokeObservations(s)) \subseteq Range(all)
  BY <1>4, <1>5
<1>7. \A x \in Range(all) : FromSpoke(x)
  BY <1>3, <1>5
<1> QED
  BY <1>5, <1>6, <1>7 DEF all, P

\* The observations of the boundary.
LEMMA BoundaryHas ==
    ASSUME MergeInv, NEW choice \in ProtoChoices(Members)
    PROVE  /\ BoundaryObservations(choice) \in Seq(EdgeRecord)
           /\ \A x \in Range(BoundaryObservations(choice)) : FromBoundary(x, choice)
           /\ \A k \in PortPairs(Members) : choice[k] \in Nat
<1> DEFINE K == PortPairs(Members)
           pair(k) == appendEdgePair(k[1], k[2], k[3], k[4], choice[k], 2)
           f == [k \in K |-> pair(k)]
           P == {pair(k) : k \in K}
<1>1. DOMAIN choice = K /\ \A k \in K : choice[k] \in PairProtos(Members, k)
  BY DEF ProtoChoices
<1>2. ASSUME NEW k \in K PROVE choice[k] \in Nat
  <2>1. PICK p \in Matches(Members) : choice[k] = IF p[1].proto # 0 THEN p[1].proto ELSE p[2].proto
    BY <1>1 DEF PairProtos
  <2>2. p[1].proto \in Nat /\ p[2].proto \in Nat
    BY MatchNamesBoth DEF NeighbourRecord
  <2> QED
    BY <2>1, <2>2
<1>3. ASSUME NEW k \in K
      PROVE  pair(k) \in Seq(EdgeRecord) /\ \A x \in Range(pair(k)) : FromBoundary(x, choice)
  <2>1. k[1] \in Nat /\ k[2] \in Nat /\ k[3] \in Nat /\ k[4] \in Nat
    BY PairIsMatch
  <2>2. /\ pair(k) \in Seq(EdgeRecord)
        /\ \A x \in Range(pair(k)) : IsPairOf(x, k[1], k[2], k[3], k[4], choice[k], 2)
    BY <1>2, <2>1, PairIsSeq
  <2> QED
    BY <2>2 DEF FromBoundary
<1>4. BoundaryObservations(choice) = FlattenSeq(SetToSeq(P))
  BY <1>1 DEF BoundaryObservations
<1>5. IsFiniteSet(K)
  BY PairsAreFinite
<1> HIDE DEF K, pair
<1>6. DOMAIN f = K /\ {f[k] : k \in K} = P
  OBVIOUS
<1>7. IsFiniteSet(P)
  <2> HIDE DEF f, P
  <2> QED
    BY <1>5, <1>6, ImageIsFinite
<1>8. \A p \in P : p \in Seq(EdgeRecord) /\ \A x \in Range(p) : FromBoundary(x, choice)
  BY <1>3
<1> HIDE DEF P
<1>9. FlattenSeq(SetToSeq(P)) \in Seq(EdgeRecord) /\ Range(FlattenSeq(SetToSeq(P))) = UNION {Range(p) : p \in P}
  BY <1>7, <1>8, PairsHave
<1>10. \A x \in Range(BoundaryObservations(choice)) : FromBoundary(x, choice)
  BY <1>4, <1>8, <1>9
<1> QED
  BY <1>2, <1>4, <1>9, <1>10 DEF K

\* The configured observations.
LEMMA ConfiguredHave ==
    /\ ConfiguredObservations(Members) \in Seq(EdgeRecord)
    /\ \A x \in Range(ConfiguredObservations(Members)) : FromConfig(x)
<1> DEFINE K == KnownLinks(Members)
           pair(l) == appendEdgePair(l.src, l.sp, l.dst, l.dp, Configured, 0)
           f == [k \in K |-> pair(k)]
           P == {pair(k) : k \in K}
<1>1. K \subseteq KnownInterDomainLinks
  BY DEF KnownLinks
<1>2. ASSUME NEW k \in K
      PROVE  pair(k) \in Seq(EdgeRecord) /\ \A x \in Range(pair(k)) : FromConfig(x)
  <2>1. k.src \in Nat /\ k.sp \in Nat /\ k.dst \in Nat /\ k.dp \in Nat
    BY <1>1, MergeAssumption DEF EdgeRecord
  <2>2. /\ pair(k) \in Seq(EdgeRecord)
        /\ \A x \in Range(pair(k)) : IsPairOf(x, k.src, k.sp, k.dst, k.dp, Configured, 0)
    BY <2>1, MergeAssumption, PairIsSeq
  <2> QED
    BY <2>2 DEF FromConfig
<1>3. ConfiguredObservations(Members) = FlattenSeq(SetToSeq(P))
  BY DEF ConfiguredObservations
<1>4. IsFiniteSet(K)
  BY <1>1, MergeAssumption, FS_Subset
<1> HIDE DEF K, pair
<1>5. DOMAIN f = K /\ {f[k] : k \in K} = P
  OBVIOUS
<1>6. IsFiniteSet(P)
  <2> HIDE DEF f, P
  <2> QED
    BY <1>4, <1>5, ImageIsFinite
<1>7. \A p \in P : p \in Seq(EdgeRecord) /\ \A x \in Range(p) : FromConfig(x)
  BY <1>2
<1> HIDE DEF P
<1>8. FlattenSeq(SetToSeq(P)) \in Seq(EdgeRecord) /\ Range(FlattenSeq(SetToSeq(P))) = UNION {Range(p) : p \in P}
  BY <1>6, <1>7, PairsHave
<1> QED
  BY <1>3, <1>7, <1>8

\* The ends and the protocol that an edge was made with.
LEMMA EdgeReads ==
    ASSUME NEW a, NEW b, NEW c, NEW d, NEW p, NEW r, NEW dir
    PROVE  /\ Edge(a, b, c, d, p, r, dir).src = a
           /\ Edge(a, b, c, d, p, r, dir).dst = c
           /\ Edge(a, b, c, d, p, r, dir).proto = p
BY DEF Edge

\* All of them.
LEMMA MergedHas ==
    ASSUME MergeInv, NEW choice \in ProtoChoices(Members)
    PROVE  /\ MergedObservations(Members, choice) \in Seq(EdgeRecord)
           /\ \A s \in Members :
                Range(SpokeObservations(s)) \subseteq Range(MergedObservations(Members, choice))
           /\ \A x \in Range(MergedObservations(Members, choice)) :
                FromSpoke(x) \/ FromBoundary(x, choice) \/ FromConfig(x)
<1> DEFINE a == FlattenSeq(SetToSeq({SpokeObservations(s) : s \in Members}))
           b == BoundaryObservations(choice)
           c == ConfiguredObservations(Members)
<1>1. /\ a \in Seq(EdgeRecord) /\ \A x \in Range(a) : FromSpoke(x)
      /\ \A s \in Members : Range(SpokeObservations(s)) \subseteq Range(a)
  BY SpokesHave
<1>2. b \in Seq(EdgeRecord) /\ \A x \in Range(b) : FromBoundary(x, choice)
  BY BoundaryHas
<1>3. c \in Seq(EdgeRecord) /\ \A x \in Range(c) : FromConfig(x)
  BY ConfiguredHave
<1>4. MergedObservations(Members, choice) = (a \o b) \o c
  BY DEF MergedObservations
<1> HIDE DEF a, b, c
<1>5. a \o b \in Seq(EdgeRecord) /\ Range(a \o b) = Range(a) \cup Range(b)
  BY <1>1, <1>2, ConcatHasBoth, SMTT(20)
<1>6. (a \o b) \o c \in Seq(EdgeRecord) /\ Range((a \o b) \o c) = Range(a \o b) \cup Range(c)
  <2> DEFINE ab == a \o b
  <2>1. ab \in Seq(EdgeRecord)
    BY <1>5
  <2> HIDE DEF ab
  <2>2. ab \o c \in Seq(EdgeRecord) /\ Range(ab \o c) = Range(ab) \cup Range(c)
    BY <1>3, <2>1, ConcatHasBoth, SMTT(20)
  <2> QED
    BY <2>2 DEF ab
<1> QED
  BY <1>1, <1>2, <1>3, <1>4, <1>5, <1>6

\* MergeIsExact for any number of spokes, devices and links.
THEOREM MergeLosesNothing == MergeSpec => []MergeIsExact
<1> SUFFICES ASSUME MergeInv PROVE MergeIsExact
  BY MergeInvHolds, PTL
<1> DEFINE pushed == UNION {{Key(e) : e \in PayloadEdges(s)} : s \in Members}
           says(d, h) == \E s \in Members : \E n \in outOfScope[s] :
                            canonicalizeDeviceName(n.device) = d /\ canonicalizeDeviceName(n.hint) = h
           keeps(g) == \A s \in Members : \A e \in PayloadEdges(s) :
                          \E c \in g.edges : Key(c) = Key(e) /\ (e.dir = "bi" => c.dir = "bi")
           adds(g) == \A e \in g.edges :
                          \/ Key(e) \in pushed
                          \/ says(e.src, e.dst) /\ says(e.dst, e.src)
                          \/ e.proto = Configured /\ \A d \in {e.src, e.dst} : \E c \in g.devices : c[1] = d
<1>1. SUFFICES ASSUME NEW g \in BuildCombinedGraph(Members) PROVE keeps(g) /\ adds(g)
  BY DEF MergeIsExact
<1>2. PICK choice \in ProtoChoices(Members) :
         g = [devices |-> CombinedDevices(Members),
              edges |-> ReconciledEdges(MergedObservations(Members, choice))]
  BY DEF BuildCombinedGraph
<1> DEFINE obs == MergedObservations(Members, choice)
<1>3. g.devices = CombinedDevices(Members) /\ g.edges = ReconciledEdges(obs)
  BY <1>2
<1>4. /\ obs \in Seq(EdgeRecord)
      /\ \A s \in Members : Range(SpokeObservations(s)) \subseteq Range(obs)
      /\ \A x \in Range(obs) : FromSpoke(x) \/ FromBoundary(x, choice) \/ FromConfig(x)
  BY MergedHas
<1>5. \A s \in Members : sightings[s] \in Seq(EdgeRecord)
  BY DEF MergeInv
<1> HIDE DEF obs
<1>6. ASSUME NEW s \in Members, NEW e \in PayloadEdges(s)
      PROVE  \E c \in g.edges : Key(c) = Key(e) /\ (e.dir = "bi" => c.dir = "bi")
  <2> DEFINE c == Reconciled(obs, Key(e))
  <2>1. /\ e \in EdgeRecord /\ WellFormed(e) /\ normalizedGroupKey(e) = Key(e)
        /\ WellFormed(Reversed(e)) /\ normalizedGroupKey(Reversed(e)) = Key(e)
    BY <1>5, ReconciledAgain DEF PayloadEdges
  <2>2. e \in Range(obs) /\ (e.dir = "bi" => Reversed(e) \in Range(obs))
    BY <1>4, SpokeHas
  <2>3. Key(e) \in GroupKeys(obs) /\ Key(c) = Key(e)
    BY <1>4, <2>1, <2>2, ObservedIsInGraph
  <2>4. ASSUME e.dir = "bi" PROVE c.dir = "bi"
    <3>1. Reversed(e).src # e.src
      BY <2>1 DEF Reversed, Edge, WellFormed
    <3> QED
      BY <1>4, <2>1, <2>2, <2>4, <3>1, BothSidesConfirm
  <2>5. c \in g.edges
    BY <1>3, <2>3 DEF ReconciledEdges
  <2> HIDE DEF c
  <2> QED
    BY <2>3, <2>4, <2>5
<1>7. ASSUME NEW e \in g.edges
      PROVE  \/ Key(e) \in pushed
             \/ says(e.src, e.dst) /\ says(e.dst, e.src)
             \/ e.proto = Configured /\ \A d \in {e.src, e.dst} : \E c \in g.devices : c[1] = d
  <2>1. PICK k \in GroupKeys(obs) : e = Reconciled(obs, k)
    BY <1>3 DEF ReconciledEdges
  <2>2. PICK x, dir : /\ Winner(LinkOf(obs, k), x, k)
                      /\ Reconciled(obs, k) = Edge(k[1], k[2], k[3], k[4], x.proto, x.rank, dir)
    BY <1>4, ReconciledIs
  <2>3. e.src = k[1] /\ e.dst = k[3] /\ e.proto = x.proto
    BY <2>1, <2>2, EdgeReads, SMTT(20)
  <2>4. Key(e) = k
    BY <1>4, <2>1, KeyStays
  <2>5. x \in Range(obs) /\ normalizedGroupKey(x) = k
    BY <2>2 DEF Winner, LinkOf
  <2>6. (k[1] = x.src /\ k[3] = x.dst) \/ (k[1] = x.dst /\ k[3] = x.src)
    <3>1. x \in EdgeRecord
      BY <1>4, <2>5, ElementsAreFinite
    <3> QED
      BY <2>5, <3>1, KeyHasEnds
  <2>7. CASE FromSpoke(x)
    <3>1. PICK s \in Members : \E y \in PayloadEdges(s) : x = y \/ x = Reversed(y)
      BY <2>7 DEF FromSpoke
    <3>2. PICK y \in PayloadEdges(s) : x = y \/ x = Reversed(y)
      BY <3>1
    <3>3. normalizedGroupKey(x) = Key(y)
      BY <1>5, <3>2, ReconciledAgain DEF PayloadEdges
    <3>4. Key(y) \in pushed
      BY SMTT(30)
    <3> QED
      BY <2>4, <2>5, <3>3, <3>4
  <2>8. CASE FromBoundary(x, choice)
    <3>1. PICK m \in PortPairs(Members) : IsPairOf(x, m[1], m[2], m[3], m[4], choice[m], 2)
      BY <2>8 DEF FromBoundary
    <3>2. PICK p \in Matches(Members) :
              /\ m[1] \in Nat /\ m[2] \in Nat /\ m[3] \in Nat /\ m[4] \in Nat
              /\ \/ m[1] = p[1].device /\ m[3] = p[2].device
                 \/ m[1] = p[2].device /\ m[3] = p[1].device
      BY PairIsMatch
    <3>3. (k[1] = m[1] /\ k[3] = m[3]) \/ (k[1] = m[3] /\ k[3] = m[1])
      <4>1. (x.src = m[1] /\ x.dst = m[3]) \/ (x.src = m[3] /\ x.dst = m[1])
        BY <3>1, SMTT(30) DEF IsPairOf, Edge
      <4> QED
        BY <2>5, <2>6, <4>1
    <3>4. says(p[1].device, p[2].device) /\ says(p[2].device, p[1].device)
      BY MatchNamesBoth
    <3> HIDE DEF says
    <3>5. says(e.src, e.dst) /\ says(e.dst, e.src)
      BY <2>3, <3>2, <3>3, <3>4
    <3> QED
      BY <3>5
  <2>9. CASE FromConfig(x)
    <3>1. PICK l \in KnownLinks(Members) : IsPairOf(x, l.src, l.sp, l.dst, l.dp, Configured, 0)
      BY <2>9 DEF FromConfig
    <3>2. l \in EdgeRecord /\ {l.src, l.dst} \subseteq SeenDevices(Members)
      BY MergeAssumption DEF KnownLinks
    <3>3. /\ x.proto = Configured
          /\ \/ k[1] = l.src /\ k[3] = l.dst
             \/ k[1] = l.dst /\ k[3] = l.src
      <4>1. x.proto = Configured /\ ((x.src = l.src /\ x.dst = l.dst) \/ (x.src = l.dst /\ x.dst = l.src))
        BY <3>1, SMTT(30) DEF IsPairOf, Edge
      <4> QED
        BY <2>5, <2>6, <4>1
    <3>4. e.src \in SeenDevices(Members) /\ e.dst \in SeenDevices(Members)
      BY <2>3, <3>2, <3>3
    <3>5. \A d \in SeenDevices(Members) : \E c \in g.devices : c[1] = d
      <4> DEFINE of(d) == <<d, Min({s \in Members : d \in SpokeDevices[s]})>>
      <4>1. \A d \in SeenDevices(Members) : of(d) \in g.devices
        BY <1>3 DEF CombinedDevices
      <4>2. \A d : of(d)[1] = d
        OBVIOUS
      <4> HIDE DEF of
      <4> QED
        BY <4>1, <4>2
    <3> QED
      BY <2>3, <3>3, <3>4, <3>5
  <2> QED
    BY <1>4, <2>5, <2>7, <2>8, <2>9
<1> QED
  BY <1>6, <1>7

-----------------------------------------------------------------------------
(* Federation: connections, and what the readiness gate does               *)

\* The types of the federation.
FederationTypeOK ==
    /\ process \in [Hubs -> {"up", "draining", "down"}]
    /\ holder \in Hubs \cup {NoHub}
    /\ isLeader \in [Hubs -> BOOLEAN] /\ firstLive \in [Hubs -> BOOLEAN]
    /\ fresh \in [Hubs -> SUBSET Spokes]
    /\ endpoints \in SUBSET Hubs
    /\ attempt \in [Spokes -> 0..MaxAttempts]
    /\ conn \in [Spokes -> Hubs \cup {NoHub}]
    /\ flips \in 0..MaxFlips

\* No endpoint without a push, and no push without an endpoint.
FederationInv ==
    /\ FederationTypeOK
    /\ ConnectedWasAccepted
    /\ Gated => endpoints = {} /\ GateStaysShut

\* The invariant holds when all hubs have started.
LEMMA FederationStart == Init => FederationInv
<1> SUFFICES ASSUME Init PROVE FederationInv
  OBVIOUS
<1>1. FederationTypeOK
  BY FederationAssumption, SMTT(30) DEF Init, FederationTypeOK
<1> QED
  BY <1>1 DEF Init, FederationInv, ConnectedWasAccepted, GateStaysShut

\* A process that ends takes what it accepted and its connections with it.
LEMMA ExitKeeps ==
    ASSUME FederationInv, NEW h \in Hubs, Exit(h), UNCHANGED <<holder, endpoints, attempt>>, flips' \in 0..MaxFlips
    PROVE  FederationInv'
<1>1. FederationTypeOK'
  BY DEF Exit, FederationInv, FederationTypeOK
<1>2. ConnectedWasAccepted'
  <2>1. ASSUME NEW s \in Spokes, conn'[s] # NoHub PROVE Serves(conn[s])' /\ s \in fresh'[conn'[s]]
    <3>1. conn'[s] = conn[s] /\ conn[s] \in Hubs /\ conn[s] # h /\ conn[s] # NoHub
      BY <2>1 DEF Exit, FederationInv, FederationTypeOK
    <3>2. process'[conn[s]] = process[conn[s]] /\ fresh'[conn[s]] = fresh[conn[s]]
      BY <3>1 DEF Exit, FederationInv, FederationTypeOK
    <3> QED
      BY <3>1, <3>2 DEF FederationInv, ConnectedWasAccepted, Serves
  <2>2. ASSUME NEW g \in Hubs PROVE firstLive'[g] <=> fresh'[g] # {}
    <3>1. CASE g = h
      BY <3>1 DEF Exit, FederationInv, FederationTypeOK
    <3>2. CASE g # h
      <4>1. firstLive'[g] = firstLive[g] /\ fresh'[g] = fresh[g]
        BY <3>2 DEF Exit, FederationInv, FederationTypeOK
      <4> QED
        BY <4>1 DEF FederationInv, ConnectedWasAccepted
    <3> QED
      BY <3>1, <3>2
  <2> QED
    BY <2>1, <2>2 DEF ConnectedWasAccepted
<1>3. Gated => endpoints' = {} /\ GateStaysShut'
  BY DEF Exit, FederationInv, FederationTypeOK, GateStaysShut
<1> QED
  BY <1>1, <1>2, <1>3 DEF FederationInv

\* A push is accepted or refused.  Behind the gate there is no hub to send it to.
LEMMA PostKeeps ==
    ASSUME FederationInv, NEW s \in Spokes, NEW h \in Hubs, Post(s, h)
    PROVE  FederationInv'
<1>0. NoHub \notin Hubs /\ MaxAttempts \in Nat \ {0} /\ Gated \in BOOLEAN
  BY FederationAssumption
<1>1. ~Gated
  <2> SUFFICES ASSUME Gated PROVE FALSE
    OBVIOUS
  <2>1. endpoints = {} /\ fresh[h] = {}
    BY DEF FederationInv, GateStaysShut
  <2>2. conn[s] = h
    BY <2>1 DEF Post, Targets
  <2>3. s \in fresh[h]
    BY <2>2, <1>0 DEF FederationInv, ConnectedWasAccepted
  <2> QED
    BY <2>1, <2>3
<1>2. Serves(h)
  BY <1>0 DEF Post, FederationInv, ConnectedWasAccepted
<1>3. CASE isLeader[h]
  <2>1. /\ firstLive' = [firstLive EXCEPT ![h] = TRUE]
        /\ fresh' = [fresh EXCEPT ![h] = @ \cup {s}]
        /\ attempt' = [attempt EXCEPT ![s] = 0]
        /\ conn' = [conn EXCEPT ![s] = h]
        /\ UNCHANGED <<process, holder, isLeader, endpoints, flips>>
    BY <1>3 DEF Post
  <2>2. FederationTypeOK'
    BY <1>0, <2>1, SMTT(30) DEF FederationInv, FederationTypeOK
  <2>3. ASSUME NEW r \in Spokes, conn'[r] # NoHub PROVE Serves(conn[r])' /\ r \in fresh'[conn'[r]]
    BY <1>2, <2>1, <2>3 DEF FederationInv, FederationTypeOK, ConnectedWasAccepted, Serves
  <2>4. ASSUME NEW g \in Hubs PROVE firstLive'[g] <=> fresh'[g] # {}
    <3>1. CASE g = h
      BY <2>1, <3>1 DEF FederationInv, FederationTypeOK
    <3>2. CASE g # h
      <4>1. firstLive'[g] = firstLive[g] /\ fresh'[g] = fresh[g]
        BY <2>1, <3>2 DEF FederationInv, FederationTypeOK
      <4> QED
        BY <4>1 DEF FederationInv, ConnectedWasAccepted
    <3> QED
      BY <3>1, <3>2
  <2> QED
    BY <1>1, <2>2, <2>3, <2>4 DEF FederationInv, ConnectedWasAccepted
<1>4. CASE ~isLeader[h]
  <2>1. /\ Retry(s) /\ conn' = [conn EXCEPT ![s] = NoHub]
        /\ UNCHANGED <<process, holder, isLeader, firstLive, fresh, endpoints, flips>>
    BY <1>4 DEF Post, AfterRefusal
  <2>2. FederationTypeOK'
    BY <1>0, <2>1, SMTT(30) DEF FederationInv, FederationTypeOK, Retry
  <2>3. ASSUME NEW r \in Spokes, conn'[r] # NoHub PROVE Serves(conn[r])' /\ r \in fresh'[conn'[r]]
    BY <2>1, <2>3 DEF FederationInv, FederationTypeOK, ConnectedWasAccepted, Serves
  <2> QED
    BY <1>1, <2>1, <2>2, <2>3 DEF FederationInv, ConnectedWasAccepted
<1> QED
  BY <1>3, <1>4

\* Every step keeps the invariant.
LEMMA FederationStep == FederationInv /\ [Next]_vars => FederationInv'
<1> SUFFICES ASSUME FederationInv, [Next]_vars PROVE FederationInv'
  OBVIOUS
<1>0. NoHub \notin Hubs /\ MaxAttempts \in Nat \ {0} /\ MaxFlips \in Nat /\ HA \in BOOLEAN
  BY FederationAssumption
<1>1. ASSUME FederationTypeOK', UNCHANGED <<firstLive, fresh, conn>>, endpoints' = {} \/ ~Gated,
             \A h \in Hubs : Serves(h) => Serves(h)'
      PROVE  FederationInv'
  <2>1. ConnectedWasAccepted'
    <3>1. ASSUME NEW s \in Spokes, conn[s] # NoHub PROVE Serves(conn[s])' /\ s \in fresh[conn[s]]
      BY <1>1, <3>1 DEF FederationInv, FederationTypeOK, ConnectedWasAccepted, Serves
    <3> QED
      BY <1>1, <3>1 DEF FederationInv, ConnectedWasAccepted, Serves
  <2> QED
    BY <1>1, <2>1 DEF FederationInv, GateStaysShut
<1>2. CASE LoseLease \/ LeaseExpires
  <2>1. FederationTypeOK'
    BY <1>0, <1>2, SMTT(30) DEF LoseLease, LeaseExpires, FederationInv, FederationTypeOK
  <2> QED
    BY <1>1, <1>2, <2>1 DEF LoseLease, LeaseExpires, FederationInv, Serves
<1>3. ASSUME NEW h \in Hubs, Elect(h) PROVE FederationInv'
  <2>1. FederationTypeOK'
    BY <1>3 DEF Elect, FederationInv, FederationTypeOK
  <2> QED
    BY <1>1, <1>3, <2>1 DEF Elect, FederationInv, Serves
<1>4. ASSUME NEW h \in Hubs, StepDown(h) PROVE FederationInv'
  <2>1. FederationTypeOK'
    BY <1>4 DEF StepDown, FederationInv, FederationTypeOK
  <2>2. \A g \in Hubs : Serves(g) => Serves(g)'
    BY <1>4 DEF StepDown, FederationInv, FederationTypeOK, Serves
  <2> QED
    BY <1>1, <1>4, <2>1, <2>2 DEF StepDown, FederationInv
<1>5. ASSUME NEW h \in Hubs, Drained(h) \/ Crash(h) PROVE FederationInv'
  <2>1. flips' \in 0..MaxFlips
    BY <1>0, <1>5, SMTT(30) DEF Drained, Crash, FederationInv, FederationTypeOK
  <2> QED
    BY <1>5, <2>1, ExitKeeps DEF Drained, Crash
<1>6. ASSUME NEW h \in Hubs, Restart(h) PROVE FederationInv'
  <2>1. FederationTypeOK'
    BY <1>0, <1>6 DEF Restart, FederationInv, FederationTypeOK
  <2>2. \A g \in Hubs : Serves(g) => Serves(g)'
    BY <1>6 DEF Restart, FederationInv, FederationTypeOK, Serves
  <2> QED
    BY <1>1, <1>6, <2>1, <2>2 DEF Restart, FederationInv
<1>7. ASSUME NEW h \in Hubs, Probe(h) PROVE FederationInv'
  <2>1. FederationTypeOK'
    BY <1>7 DEF Probe, FederationInv, FederationTypeOK
  <2>2. Gated => endpoints' = {}
    <3> SUFFICES ASSUME Gated PROVE endpoints' = {}
      OBVIOUS
    <3>1. endpoints = {} /\ ~firstLive[h]
      BY DEF FederationInv, GateStaysShut, ConnectedWasAccepted
    <3> QED
      BY <1>7, <3>1 DEF Probe, IsReady
  <2> QED
    BY <1>1, <1>7, <2>1, <2>2 DEF Probe, Serves
<1>8. ASSUME NEW s \in Spokes, StartPush(s) \/ PostFails(s) PROVE FederationInv'
  <2>1. FederationTypeOK'
    BY <1>0, <1>8, SMTT(30) DEF StartPush, PostFails, Retry, FederationInv, FederationTypeOK
  <2> QED
    BY <1>1, <1>8, <2>1 DEF StartPush, PostFails, FederationInv, Serves
<1>9. ASSUME NEW s \in Spokes, NEW h \in Hubs, Post(s, h) PROVE FederationInv'
  BY <1>9, PostKeeps
<1>10. CASE UNCHANGED vars
  BY <1>10 DEF vars, FederationInv, FederationTypeOK, ConnectedWasAccepted, GateStaysShut, Serves
<1> QED
  BY <1>2, <1>3, <1>4, <1>5, <1>6, <1>7, <1>8, <1>9, <1>10 DEF Next, SpokeStep

\* Through elections, crashes and refusals a spoke stays connected only to a running hub
\* that accepted a push of it, for any number of hubs and spokes.
THEOREM ConnectionsAreGood == Spec => []ConnectedWasAccepted
<1>1. FederationInv => ConnectedWasAccepted
  BY DEF FederationInv
<1> QED
  BY <1>1, FederationStart, FederationStep, PTL DEF Spec

\* Readiness waits for the first push, and the Service for readiness: behind it no
\* behaviour of any number of hubs and spokes has an accepted push.
THEOREM GateNeverOpens == Spec => []GateStaysShut
<1>1. FederationInv => GateStaysShut
  BY DEF FederationInv, GateStaysShut
<1> QED
  BY <1>1, FederationStart, FederationStep, PTL DEF Spec
=============================================================================
