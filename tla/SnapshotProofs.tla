--------------------------- MODULE SnapshotProofs ---------------------------
(***************************************************************************)
(* What a restart reads back: the keys of links, the ages that the links   *)
(* have under them, and the graph that a hub accepted.                     *)
(***************************************************************************)
EXTENDS LinkLifecycle, PushPath, SeqProofs

\* A leaf that names no prover is for Zenon; SMT has those with numbers or sequences.
USE ZenonT(60)

-----------------------------------------------------------------------------
(* TopologyGraph: a key is read back from its text                         *)

\* The step of Unescape.
Reads(s, digits, mark, u, i) ==
    IF i > Len(s) THEN <<>>
    ELSE IF i < Len(s) /\ s[i] = "%" /\ s[i + 1] = digits THEN <<mark>> \o u[i + 2]
    ELSE <<s[i]>> \o u[i + 1]

\* The recursive function of Unescape exists.
LEMMA UnescapeExists ==
    ASSUME NEW S, NEW s \in Seq(S), NEW digits \in S, NEW mark \in S
    PROVE  \E u : u = [i \in 1..(Len(s) + 2) |-> Reads(s, digits, mark, u, i)]
<1> DEFINE l == Len(s) + 2
           Is(u, m) == u = [i \in (l + 1 - m)..l |-> Reads(s, digits, mark, u, i)]
           Wrong == {m \in 0..l : ~\E u : Is(u, m)}
<1>1. l \in Nat /\ Len(s) = l - 2 /\ Len(s) \in Nat
  BY SMT
<1> HIDE DEF l
<1>2. ASSUME NEW m \in Wrong, \A d \in Wrong : m <= d PROVE FALSE
  <2>1. m \in 0..l /\ ~\E u : Is(u, m)
    OBVIOUS
  <2>2. m # 0
    <3>1. (l + 1 - 0)..l = {}
      BY <1>1, SMT
    <3>2. Is([i \in {} |-> 0], 0)
      BY <3>1
    <3> QED
      BY <2>1, <3>2
  <2>3. m - 1 \in 0..l /\ ~(m <= m - 1) /\ m \in Nat /\ l + 1 - (m - 1) = l + 2 - m
    BY <1>1, <2>1, <2>2, SMTT(30)
  <2>4. \E u : Is(u, m - 1)
    <3>1. m - 1 \notin Wrong
      <4> HIDE DEF Wrong
      <4> QED
        BY <1>2, <2>3
    <3> QED
      BY <2>3, <3>1
  <2>5. PICK u : Is(u, m - 1)
    BY <2>4
  <2> DEFINE at == l + 1 - m
             v == [i \in at..l |-> IF i = at THEN Reads(s, digits, mark, u, i) ELSE u[i]]
  <2>6. at \in 1..l
    BY <1>1, <2>1, <2>2, SMTT(30)
  <2>7. \A i \in (at + 1)..l : u[i] = Reads(s, digits, mark, u, i)
    <3>1. l + 1 - (m - 1) = at + 1
      BY <1>1, <2>1, SMTT(30)
    <3>2. u = [i \in (at + 1)..l |-> Reads(s, digits, mark, u, i)]
      BY <2>5, <3>1
    <3> HIDE DEF at
    <3> QED
      BY <3>2
  <2>8. \A i \in (at + 1)..l : v[i] = u[i]
    BY <2>6, SMTT(30)
  <2>9. v[at] = Reads(s, digits, mark, u, at)
    BY <2>6, SMT
  <2>10. ASSUME NEW i \in at..l PROVE Reads(s, digits, mark, v, i) = Reads(s, digits, mark, u, i)
    <3>1. CASE i > Len(s)
      BY <3>1 DEF Reads
    <3>2. CASE ~(i > Len(s))
      <4>1. i + 1 \in (at + 1)..l /\ i + 2 \in (at + 1)..l
        BY <1>1, <2>6, <3>2, SMTT(30)
      <4>2. v[i + 1] = u[i + 1] /\ v[i + 2] = u[i + 2]
        BY <2>8, <4>1
      <4> QED
        BY <4>2, SMTT(30) DEF Reads
    <3> QED
      BY <3>1, <3>2
  <2>11. \A i \in at..l : i = at \/ i \in (at + 1)..l
    BY <1>1, <2>6, SMTT(30)
  <2>12. v = [i \in at..l |-> v[i]]
    OBVIOUS
  <2> HIDE DEF v
  <2>13. \A i \in at..l : v[i] = Reads(s, digits, mark, v, i)
    BY <2>7, <2>8, <2>9, <2>10, <2>11
  <2>14. Is(v, m)
    BY <2>12, <2>13
  <2> QED
    BY <2>1, <2>14
<1>3. Wrong \in SUBSET Nat
  <2>1. Wrong \subseteq 0..l
    OBVIOUS
  <2> HIDE DEF Wrong
  <2> QED
    BY <1>1, <2>1, SMTT(30)
<1>4. Wrong = {}
  <2> HIDE DEF Wrong
  <2> QED
    BY <1>2, <1>3, LeastElement
<1>5. l \in 0..l /\ l + 1 - l = 1
  BY <1>1, SMT
<1>6. \E u : Is(u, l)
  <2> HIDE DEF Is
  <2> QED
    BY <1>4, <1>5
<1> QED
  BY <1>5, <1>6 DEF l

\* What Unescape returns: the first value of a function that reads on to the end.
LEMMA UnescapeIs ==
    ASSUME NEW S, NEW s \in Seq(S), NEW digits \in S, NEW mark \in S
    PROVE  \E u : /\ Unescape(s, digits, mark) = u[1]
                  /\ \A i \in 1..(Len(s) + 2) : u[i] = Reads(s, digits, mark, u, i) /\ u[i] \in Seq(S)
<1> DEFINE u == CHOOSE u : u = [i \in 1..(Len(s) + 2) |->
                    IF i > Len(s) THEN <<>>
                    ELSE IF i < Len(s) /\ s[i] = "%" /\ s[i + 1] = digits THEN <<mark>> \o u[i + 2]
                    ELSE <<s[i]>> \o u[i + 1]]
           l == Len(s) + 2
           Wrong == {j \in 0..l : l - j \in 1..l /\ u[l - j] \notin Seq(S)}
<1>1. l \in Nat /\ Len(s) = l - 2 /\ Len(s) \in Nat
  BY SMT
<1>2. Unescape(s, digits, mark) = u[1]
  BY DEF Unescape
<1>3. u = [i \in 1..l |-> Reads(s, digits, mark, u, i)]
  <2>1. \E f : f = [i \in 1..(Len(s) + 2) |-> Reads(s, digits, mark, f, i)]
    BY UnescapeExists, SMT
  <2> QED
    BY <2>1 DEF Reads
<1> HIDE DEF u, l
<1>4. \A i \in 1..l : u[i] = Reads(s, digits, mark, u, i)
  BY <1>3
<1>5. ASSUME NEW j \in Wrong, \A d \in Wrong : j <= d PROVE FALSE
  <2> DEFINE i == l - j
  <2>1. j \in 0..l /\ i \in 1..l /\ u[i] \notin Seq(S)
    OBVIOUS
  <2>2. CASE i > Len(s)
    <3>1. u[i] = <<>>
      BY <1>4, <2>1, <2>2 DEF Reads
    <3> QED
      BY <2>1, <3>1, SMTT(30)
  <2>3. CASE ~(i > Len(s))
    <3>1. /\ j - 1 \in 0..l /\ l - (j - 1) = i + 1 /\ ~(j <= j - 1) /\ i + 1 \in 1..l
          /\ j - 2 \in 0..l /\ l - (j - 2) = i + 2 /\ ~(j <= j - 2) /\ i + 2 \in 1..l
      BY <1>1, <2>1, <2>3, SMTT(30)
    <3>2. j - 1 \notin Wrong /\ j - 2 \notin Wrong
      <4> HIDE DEF Wrong
      <4> QED
        BY <1>5, <3>1
    <3>3. u[i + 1] \in Seq(S) /\ u[i + 2] \in Seq(S)
      BY <3>1, <3>2
    <3>4. i \in 1..Len(s)
      BY <1>1, <2>1, <2>3, SMTT(30)
    <3>5. s[i] \in S
      BY <3>4, ElementOfSeq
    <3>6. <<mark>> \o u[i + 2] \in Seq(S) /\ <<s[i]>> \o u[i + 1] \in Seq(S)
      <4>1. <<mark>> \in Seq(S) /\ <<s[i]>> \in Seq(S)
        BY <3>5, SMTT(30)
      <4> QED
        BY <3>3, <4>1, ConcatProperties
    <3>7. u[i] = Reads(s, digits, mark, u, i)
      BY <1>4, <2>1
    <3>8. u[i] = <<mark>> \o u[i + 2] \/ u[i] = <<s[i]>> \o u[i + 1]
      BY <2>3, <3>7 DEF Reads
    <3> QED
      BY <2>1, <3>6, <3>8
  <2> QED
    BY <2>2, <2>3
<1>6. Wrong \in SUBSET Nat
  <2>1. Wrong \subseteq 0..l
    OBVIOUS
  <2> HIDE DEF Wrong
  <2> QED
    BY <1>1, <2>1, SMT
<1>7. Wrong = {}
  <2> HIDE DEF Wrong
  <2> QED
    BY <1>5, <1>6, LeastElement
<1>8. ASSUME NEW i \in 1..l PROVE u[i] \in Seq(S)
  <2>1. l - i \in 0..l /\ l - (l - i) = i
    BY <1>1, SMT
  <2> QED
    BY <1>7, <2>1
<1> QED
  BY <1>2, <1>4, <1>8 DEF l

\* It does not end within an escape.
EndsWhole(s) == s = <<>> \/ s[Len(s)] # "%"

\* What ends whole is read by itself, whatever follows it.
LEMMA UnescapeJoin ==
    ASSUME NEW S, NEW x \in Seq(S), NEW y \in Seq(S), NEW digits \in S, NEW mark \in S, EndsWhole(x),
           NEW join, Joins(join, x, y)
    PROVE  Joins(Unescape(join, digits, mark), Unescape(x, digits, mark), Unescape(y, digits, mark))
<1> DEFINE z == x \o y
           lx == Len(x)
           ly == Len(y)
<1>1. /\ lx \in Nat /\ ly \in Nat /\ z \in Seq(S) /\ Len(z) = lx + ly
      /\ \A i \in 1..lx : z[i] = x[i]
      /\ \A i \in 1..ly : z[lx + i] = y[i]
  BY ConcatProperties, SMTT(30)
<1>2. PICK u : /\ Unescape(x, digits, mark) = u[1]
               /\ \A i \in 1..(lx + 2) : u[i] = Reads(x, digits, mark, u, i) /\ u[i] \in Seq(S)
  BY UnescapeIs, SMTT(30)
<1>3. PICK v : /\ Unescape(y, digits, mark) = v[1]
               /\ \A i \in 1..(ly + 2) : v[i] = Reads(y, digits, mark, v, i) /\ v[i] \in Seq(S)
  BY UnescapeIs, SMT
<1>4. PICK w : /\ Unescape(z, digits, mark) = w[1]
               /\ \A i \in 1..(lx + ly + 2) : w[i] = Reads(z, digits, mark, w, i) /\ w[i] \in Seq(S)
  <2> HIDE DEF z
  <2>0. z \in Seq(S)
    BY <1>1
  <2>1. \E w : /\ Unescape(z, digits, mark) = w[1]
               /\ \A i \in 1..(Len(z) + 2) : w[i] = Reads(z, digits, mark, w, i) /\ w[i] \in Seq(S)
    BY <2>0, UnescapeIs, SMTT(30)
  <2> QED
    BY <1>1, <2>1
<1>5. EndsWhole(x) /\ (lx # 0 => x # <<>>)
  BY SMT
<1> HIDE DEF z
<1>6. \A i \in 1..(ly + 2) : w[lx + i] = v[i]
  <2> DEFINE Wrong == {j \in 0..(ly + 1) : w[lx + (ly + 2 - j)] # v[ly + 2 - j]}
  <2>1. ASSUME NEW j \in Wrong, \A d \in Wrong : j <= d PROVE FALSE
    <3> DEFINE i == ly + 2 - j
    <3>1. j \in 0..(ly + 1) /\ w[lx + i] # v[i]
      OBVIOUS
    <3>2. i \in 1..(ly + 2) /\ lx + i \in 1..(lx + ly + 2)
      BY <1>1, <3>1, SMTT(30)
    <3>3. w[lx + i] = Reads(z, digits, mark, w, lx + i) /\ v[i] = Reads(y, digits, mark, v, i)
      BY <1>3, <1>4, <3>2
    <3>4. CASE i > ly
      <4>1. lx + i > Len(z)
        BY <1>1, <3>2, <3>4, SMTT(30)
      <4> QED
        BY <3>1, <3>3, <3>4, <4>1 DEF Reads
    <3>5. CASE ~(i > ly)
      <4>1. /\ j - 1 \in 0..(ly + 1) /\ ly + 2 - (j - 1) = i + 1 /\ ~(j <= j - 1)
            /\ j - 2 \in 0..(ly + 1) /\ ly + 2 - (j - 2) = i + 2 /\ ~(j <= j - 2)
        BY <1>1, <3>1, <3>5, SMTT(30)
      <4>2. j - 1 \notin Wrong /\ j - 2 \notin Wrong
        <5> HIDE DEF Wrong
        <5> QED
          BY <2>1, <4>1
      <4>3. w[lx + (i + 1)] = v[i + 1] /\ w[lx + (i + 2)] = v[i + 2]
        BY <4>1, <4>2
      <4> HIDE DEF i
      <4>4. /\ i \in 1..ly /\ ~(lx + i > Len(z)) /\ (lx + i < Len(z) <=> i < ly)
            /\ (lx + i) + 1 = lx + (i + 1) /\ (lx + i) + 2 = lx + (i + 2)
        BY <1>1, <3>2, <3>5, SMTT(30)
      <4>5. z[lx + i] = y[i]
        BY <1>1, <4>4
      <4>6. i < ly => z[lx + (i + 1)] = y[i + 1]
        <5>1. i < ly => i + 1 \in 1..ly
          BY <4>4, SMTT(30)
        <5> QED
          BY <1>1, <5>1
      <4>7. Reads(z, digits, mark, w, lx + i) = Reads(y, digits, mark, v, i)
        BY <3>5, <4>3, <4>4, <4>5, <4>6 DEF Reads
      <4> QED
        BY <3>1, <3>3, <4>7 DEF i
    <3> QED
      BY <3>4, <3>5
  <2>2. Wrong \in SUBSET Nat
    <3>1. Wrong \subseteq 0..(ly + 1)
      OBVIOUS
    <3> HIDE DEF Wrong
    <3> QED
      BY <1>1, <3>1, SMTT(30)
  <2>3. Wrong = {}
    <3> HIDE DEF Wrong
    <3> QED
      BY <2>1, <2>2, LeastElement
  <2>4. ASSUME NEW i \in 1..(ly + 2) PROVE w[lx + i] = v[i]
    <3>1. ly + 2 - i \in 0..(ly + 1) /\ ly + 2 - (ly + 2 - i) = i
      BY <1>1, SMTT(30)
    <3> QED
      BY <2>3, <3>1
  <2> QED
    BY <2>4
<1>7. \A i \in 1..(lx + 1) : w[i] = u[i] \o v[1]
  <2> DEFINE Wrong == {j \in 0..lx : w[lx + 1 - j] # u[lx + 1 - j] \o v[1]}
  <2>1. 1 \in 1..(ly + 2) /\ v[1] \in Seq(S) /\ w[lx + 1] = v[1]
    BY <1>1, <1>3, <1>6, SMTT(30)
  <2>2. ASSUME NEW j \in Wrong, \A d \in Wrong : j <= d PROVE FALSE
    <3> DEFINE i == lx + 1 - j
    <3>1. j \in 0..lx /\ w[i] # u[i] \o v[1]
      OBVIOUS
    <3>2. i \in 1..(lx + 1) /\ i \in 1..(lx + 2) /\ i \in 1..(lx + ly + 2)
      BY <1>1, <3>1, SMTT(30)
    <3>3. w[i] = Reads(z, digits, mark, w, i) /\ u[i] = Reads(x, digits, mark, u, i)
      BY <1>2, <1>4, <3>2
    <3>4. CASE j = 0
      <4>1. i = lx + 1 /\ i > Len(x)
        BY <1>1, <3>4, SMTT(30)
      <4>2. u[i] = <<>>
        BY <3>3, <4>1 DEF Reads
      <4>3. <<>> \o v[1] = v[1]
        BY <2>1, ConcatEmptySeq
      <4> QED
        BY <2>1, <3>1, <4>1, <4>2, <4>3
    <3>5. CASE j # 0
      <4>1. /\ i \in 1..lx /\ ~(i > Len(x)) /\ ~(i > Len(z)) /\ (i < lx => i < Len(z) /\ i + 1 \in 1..lx)
            /\ j - 1 \in 0..lx /\ lx + 1 - (j - 1) = i + 1 /\ ~(j <= j - 1) /\ i + 1 \in 1..(lx + 2)
            /\ (i < lx => j - 2 \in 0..lx /\ lx + 1 - (j - 2) = i + 2 /\ ~(j <= j - 2)) /\ i + 2 \in 1..(lx + 2)
        BY <1>1, <3>1, <3>5, SMTT(30)
      <4>2. w[i + 1] = u[i + 1] \o v[1]
        <5>1. j - 1 \notin Wrong
          <6> HIDE DEF Wrong
          <6> QED
            BY <2>2, <4>1
        <5> QED
          BY <4>1, <5>1
      <4>3. i < lx => w[i + 2] = u[i + 2] \o v[1]
        <5>1. i < lx => j - 2 \notin Wrong
          <6> HIDE DEF Wrong
          <6> QED
            BY <2>2, <4>1
        <5> QED
          BY <4>1, <5>1
      <4>4. u[i + 1] \in Seq(S) /\ u[i + 2] \in Seq(S)
        BY <1>2, <4>1
      <4> HIDE DEF i
      <4>5. z[i] = x[i] /\ x[i] \in S /\ (i < lx => z[i + 1] = x[i + 1])
        BY <1>1, <4>1, ElementOfSeq
      <4>6. <<mark>> \in Seq(S) /\ <<x[i]>> \in Seq(S)
        BY <4>5, SMTT(30)
      <4>7. (<<mark>> \o u[i + 2]) \o v[1] = <<mark>> \o (u[i + 2] \o v[1])
        <5> DEFINE rest == u[i + 2]
                   tail == v[1]
                   c == mark
        <5>1. rest \in Seq(S) /\ tail \in Seq(S) /\ c \in S
          BY <2>1, <4>4, <4>5
        <5> HIDE DEF rest, tail, c
        <5>2. (<<c>> \o rest) \o tail = <<c>> \o (rest \o tail)
          BY ONLY <5>1, ConcatOne, SMTT(60)
        <5> QED
          BY <5>2 DEF rest, tail, c
      <4>8. (<<x[i]>> \o u[i + 1]) \o v[1] = <<x[i]>> \o (u[i + 1] \o v[1])
        <5> DEFINE rest == u[i + 1]
                   tail == v[1]
                   c == x[i]
        <5>1. rest \in Seq(S) /\ tail \in Seq(S) /\ c \in S
          BY <2>1, <4>4, <4>5
        <5> HIDE DEF rest, tail, c
        <5>2. (<<c>> \o rest) \o tail = <<c>> \o (rest \o tail)
          BY ONLY <5>1, ConcatOne, SMTT(60)
        <5> QED
          BY <5>2 DEF rest, tail, c
      <4>9. i = lx => x[i] # "%"
        BY <1>1, <1>5, <4>1, SMT DEF EndsWhole
      <4>10. CASE i < lx /\ x[i] = "%" /\ x[i + 1] = digits
        <5>1. w[i] = <<mark>> \o w[i + 2]
          BY <3>3, <4>1, <4>5, <4>10 DEF Reads
        <5>2. u[i] = <<mark>> \o u[i + 2]
          BY <3>3, <4>1, <4>5, <4>10 DEF Reads
        <5>3. w[i] = u[i] \o v[1]
          BY <4>3, <4>7, <4>10, <5>1, <5>2
        <5> QED
          BY <3>1, <5>3 DEF i
      <4>11. CASE ~(i < lx /\ x[i] = "%" /\ x[i + 1] = digits)
        <5>1. ~(i < Len(z) /\ z[i] = "%" /\ z[i + 1] = digits)
          <6>1. i < lx \/ i = lx
            BY <1>1, <4>1, SMTT(30)
          <6> QED
            BY <4>5, <4>9, <4>11, <6>1
        <5>2. w[i] = <<x[i]>> \o w[i + 1]
          BY <3>3, <4>1, <4>5, <5>1 DEF Reads
        <5>3. u[i] = <<x[i]>> \o u[i + 1]
          BY <3>3, <4>1, <4>11 DEF Reads
        <5>4. w[i] = u[i] \o v[1]
          BY <4>2, <4>8, <5>2, <5>3
        <5> QED
          BY <3>1, <5>4 DEF i
      <4> QED
        BY <4>10, <4>11
    <3> QED
      BY <3>4, <3>5
  <2>3. Wrong \in SUBSET Nat
    <3>1. Wrong \subseteq 0..lx
      OBVIOUS
    <3> HIDE DEF Wrong
    <3> QED
      BY <1>1, <3>1, SMTT(30)
  <2>4. Wrong = {}
    <3> HIDE DEF Wrong
    <3> QED
      BY <2>2, <2>3, LeastElement
  <2>5. ASSUME NEW i \in 1..(lx + 1) PROVE w[i] = u[i] \o v[1]
    <3>1. lx + 1 - i \in 0..lx /\ lx + 1 - (lx + 1 - i) = i
      BY <1>1, SMTT(30)
    <3> QED
      BY <2>4, <3>1
  <2> QED
    BY <2>5
<1>8. 1 \in 1..(lx + 1) /\ 1 \in 1..(lx + 2)
  BY <1>1, SMT
<1> QED
  BY <1>2, <1>3, <1>4, <1>7, <1>8 DEF z, Joins

LEMMA WholeJoin ==
    ASSUME NEW S, NEW x \in Seq(S), NEW y \in Seq(S), EndsWhole(x), EndsWhole(y)
    PROVE  x \o y \in Seq(S) /\ EndsWhole(x \o y)
<1>1. /\ x \o y \in Seq(S) /\ Len(x \o y) = Len(x) + Len(y)
      /\ \A i \in 1..(Len(x) + Len(y)) : (x \o y)[i] = IF i <= Len(x) THEN x[i] ELSE y[i - Len(x)]
  BY ConcatProperties
<1>2. Len(x) \in Nat /\ Len(y) \in Nat /\ (Len(x) = 0 => x = <<>>) /\ (Len(y) = 0 => y = <<>>)
  BY EmptySeq, SMT
<1>3. CASE Len(y) = 0
  <2>1. x \o y = x
    BY <1>2, <1>3, ConcatEmptySeq
  <2> QED
    BY <1>1, <2>1
<1>4. CASE Len(y) # 0
  <2>1. Len(x) + Len(y) \in 1..(Len(x) + Len(y)) /\ ~(Len(x) + Len(y) <= Len(x))
    BY <1>2, <1>4, SMTT(30)
  <2>2. (Len(x) + Len(y)) - Len(x) = Len(y)
    BY <1>2, SMT
  <2>3. (x \o y)[Len(x) + Len(y)] = y[Len(y)]
    BY <1>1, <2>1, <2>2
  <2>4. y[Len(y)] # "%"
    BY <1>4, SMT DEF EndsWhole
  <2> QED
    BY <1>1, <2>3, <2>4 DEF EndsWhole
<1> QED
  BY <1>3, <1>4

\* What nothing, one mark, or one escape, reads as.
LEMMA UnescapeShort ==
    ASSUME NEW S, NEW s \in Seq(S), NEW digits \in S, NEW mark \in S
    PROVE  /\ Len(s) < 2 => Unescape(s, digits, mark) = s
           /\ Len(s) = 2 /\ s[1] = "%" => Unescape(s, digits, mark) = IF s[2] = digits THEN <<mark>> ELSE s
<1>1. PICK u : /\ Unescape(s, digits, mark) = u[1]
               /\ \A i \in 1..(Len(s) + 2) : u[i] = Reads(s, digits, mark, u, i) /\ u[i] \in Seq(S)
  BY UnescapeIs, SMT
<1>2. Len(s) \in Nat /\ \A i \in 1..Len(s) : s[i] \in S
  BY ElementOfSeq, SMT
<1>3. \A c \in S : <<c>> \in Seq(S) /\ Len(<<c>>) = 1 /\ <<c>>[1] = c /\ <<c>> \o <<>> = <<c>>
  <2> SUFFICES ASSUME NEW c \in S PROVE <<c>> \in Seq(S) /\ Len(<<c>>) = 1 /\ <<c>>[1] = c /\ <<c>> \o <<>> = <<c>>
    OBVIOUS
  <2> DEFINE one == <<c>>
  <2>1. one \in Seq(S) /\ Len(one) = 1 /\ one[1] = c
    BY SMT
  <2> HIDE DEF one
  <2>2. one \o <<>> = one
    BY <2>1, ConcatEmptySeq
  <2> QED
    BY <2>1, <2>2 DEF one
<1>4. ASSUME Len(s) = 0 PROVE Unescape(s, digits, mark) = s
  <2>1. u[1] = <<>>
    BY <1>1, <1>4, SMTT(30) DEF Reads
  <2> QED
    BY <1>1, <1>4, <2>1, EmptySeq
<1>5. ASSUME Len(s) = 1 PROVE Unescape(s, digits, mark) = s
  <2>1. u[2] = <<>> /\ u[1] = <<s[1]>> \o u[2]
    BY <1>1, <1>5, SMTT(30) DEF Reads
  <2>2. u[1] = <<s[1]>>
    BY <1>2, <1>3, <1>5, <2>1, SMTT(30)
  <2>3. <<s[1]>> = s
    BY <1>5, SMTT(30)
  <2> QED
    BY <1>1, <2>2, <2>3
<1>6. ASSUME Len(s) = 2, s[1] = "%" PROVE Unescape(s, digits, mark) = IF s[2] = digits THEN <<mark>> ELSE s
  <2>1. u[3] = <<>> /\ u[2] = <<s[2]>> \o u[3] /\ u[1] = IF s[2] = digits THEN <<mark>> \o u[3] ELSE <<s[1]>> \o u[2]
    BY <1>1, <1>6, SMTT(60) DEF Reads
  <2>2. s[1] \in S /\ s[2] \in S
    BY <1>2, <1>6, SMT
  <2>3. u[2] = <<s[2]>> /\ <<mark>> \o u[3] = <<mark>>
    BY <1>3, <2>1, <2>2
  <2>4. <<s[1]>> \o <<s[2]>> = s
    <3> DEFINE p == <<s[1]>>
               q == <<s[2]>>
    <3>1. p \in Seq(S) /\ q \in Seq(S) /\ Len(p) = 1 /\ Len(q) = 1 /\ p[1] = s[1] /\ q[1] = s[2]
      BY <1>3, <2>2
    <3> HIDE DEF p, q
    <3>2. /\ p \o q \in Seq(S) /\ Len(p \o q) = Len(p) + Len(q)
          /\ \A i \in 1..(Len(p) + Len(q)) : (p \o q)[i] = IF i <= Len(p) THEN p[i] ELSE q[i - Len(p)]
      BY <3>1, ConcatProperties
    <3>3. p \o q \in Seq(S) /\ Len(p \o q) = 2 /\ (p \o q)[1] = s[1] /\ (p \o q)[2] = s[2]
      BY <3>2, <3>1, SMTT(30)
    <3>4. \A i \in 1..2 : (p \o q)[i] = s[i]
      BY <3>3, SMTT(60)
    <3>5. p \o q = s
      BY <1>6, <3>3, <3>4, SeqEqual
    <3> QED
      BY <3>5 DEF p, q
  <2> QED
    BY <1>1, <2>1, <2>3, <2>4
<1>7. Len(s) < 2 => Len(s) = 0 \/ Len(s) = 1
  <2>1. \A n \in Nat : n < 2 => n = 0 \/ n = 1
    BY SMT
  <2> QED
    BY <1>2, <2>1
<1> QED
  BY <1>4, <1>5, <1>6, <1>7

-----------------------------------------------------------------------------
\* The marks of names: any, and those of the escapes.
MarksOf(S) == S \cup {"%", "|", "25", "7C"}

\* One mark is a text that is too short for an escape.
LEMMA OneMark ==
    ASSUME NEW S, NEW c \in S
    PROVE  <<c>> \in Seq(S) /\ Len(<<c>>) < 2 /\ <<c>>[Len(<<c>>)] = c /\ <<c>> # <<>>
BY SMT

\* What is written for one mark has no separator, and is read back as that mark.
LEMMA EscapedIs ==
    ASSUME NEW S, NEW c \in MarksOf(S)
    PROVE  LET e == Escaped(c)
               v == Unescape(e, "7C", "|")
           IN  /\ e \in Seq(MarksOf(S)) /\ EndsWhole(e) /\ "|" \notin Range(e)
               /\ v \in Seq(MarksOf(S)) /\ EndsWhole(v)
               /\ Unescape(v, "25", "%") = <<c>>
<1> DEFINE M == MarksOf(S)
           e == Escaped(c)
           v == Unescape(e, "7C", "|")
<1>1. "%" \in M /\ "|" \in M /\ "25" \in M /\ "7C" \in M
  BY DEF MarksOf
<1>2. CASE c = "%"
  <2>1. e = <<"%", "25">>
    BY <1>2 DEF Escaped
  <2>2. e \in Seq(M) /\ Len(e) = 2 /\ e[1] = "%" /\ e[2] = "25" /\ e # <<>> /\ "|" \notin Range(e)
    BY <1>1, <2>1, SMTT(30) DEF Range
  <2> HIDE DEF e, M
  <2>3. v = e
    BY <1>1, <2>2, UnescapeShort, SMTT(30)
  <2>4. Unescape(e, "25", "%") = <<"%">>
    BY <1>1, <2>2, UnescapeShort, SMTT(30)
  <2> QED
    BY <1>2, <2>2, <2>3, <2>4 DEF EndsWhole, e, M
<1>3. CASE c = "|"
  <2>1. e = <<"%", "7C">>
    BY <1>3 DEF Escaped
  <2>2. e \in Seq(M) /\ Len(e) = 2 /\ e[1] = "%" /\ e[2] = "7C" /\ e # <<>> /\ "|" \notin Range(e)
    BY <1>1, <2>1, SMTT(30) DEF Range
  <2> HIDE DEF e, M
  <2>3. v = <<"|">>
    BY <1>1, <2>2, UnescapeShort, SMTT(30)
  <2>4. v \in Seq(M) /\ Len(v) < 2 /\ v[Len(v)] = "|" /\ v # <<>>
    BY <1>1, <2>3, OneMark
  <2> HIDE DEF v
  <2>5. Unescape(v, "25", "%") = v
    BY <1>1, <2>4, UnescapeShort, SMTT(30)
  <2> QED
    BY <1>3, <2>2, <2>3, <2>4, <2>5 DEF EndsWhole, e, M, v
<1>4. CASE c # "%" /\ c # "|"
  <2>1. e = <<c>>
    BY <1>4 DEF Escaped
  <2>2. e \in Seq(M) /\ Len(e) < 2 /\ e[Len(e)] = c /\ e # <<>> /\ "|" \notin Range(e)
    BY <1>4, <2>1, SMTT(30) DEF Range
  <2> HIDE DEF e, M
  <2>3. v = e
    BY <1>1, <2>2, UnescapeShort, SMTT(30)
  <2>4. Unescape(e, "25", "%") = e
    BY <1>1, <2>2, UnescapeShort, SMTT(30)
  <2> QED
    BY <1>4, <2>1, <2>2, <2>3, <2>4 DEF EndsWhole, e, M
<1> QED
  BY <1>2, <1>3, <1>4

\* A name is escaped mark by mark.
LEMMA EscAppend ==
    ASSUME NEW S, NEW s \in Seq(MarksOf(S)), NEW c \in MarksOf(S)
    PROVE  esc(Append(s, c)) = esc(s) \o Escaped(c)
<1> DEFINE M == MarksOf(S)
           t == Append(s, c)
           es == [i \in DOMAIN s |-> Escaped(s[i])]
           et == [i \in DOMAIN t |-> Escaped(t[i])]
           n == Len(s)
<1>1. \A d \in M : Escaped(d) \in Seq(M)
  BY EscapedIs
<1> HIDE DEF M
<1>2. n \in Nat /\ DOMAIN s = 1..n /\ \A i \in 1..n : s[i] \in M
  BY ElementOfSeq, SMTT(30) DEF M
<1>3. DOMAIN t = 1..(n + 1) /\ (\A i \in 1..n : t[i] = s[i]) /\ t[n + 1] = c
  BY <1>2, SMTT(30)
<1> HIDE DEF t
<1>4. es \in Seq(Seq(M)) /\ Len(es) = n /\ \A i \in 1..n : es[i] = Escaped(s[i])
  BY <1>1, <1>2, SMTT(30)
<1>5. et \in Seq(Seq(M)) /\ Len(et) = n + 1 /\ \A i \in 1..(n + 1) : et[i] = Escaped(t[i])
  <2>1. \A i \in 1..(n + 1) : t[i] \in M
    <3>1. \A i \in 1..(n + 1) : i \in 1..n \/ i = n + 1
      BY <1>2, SMTT(30)
    <3> QED
      BY <1>2, <1>3, <3>1 DEF M
  <2>2. et = [i \in 1..(n + 1) |-> Escaped(t[i])]
    BY <1>3
  <2> HIDE DEF et
  <2> QED
    BY <1>1, <1>2, <2>1, <2>2, SMTT(30)
<1>6. Escaped(c) \in Seq(M)
  BY <1>1 DEF M
<1> HIDE DEF es, et
<1>7. /\ Append(es, Escaped(c)) \in Seq(Seq(M)) /\ Len(Append(es, Escaped(c))) = n + 1
      /\ \A i \in 1..n : Append(es, Escaped(c))[i] = es[i]
      /\ Append(es, Escaped(c))[n + 1] = Escaped(c)
  BY <1>4, <1>6, AppendProperties, SMTT(30)
<1>8. \A i \in 1..(n + 1) : et[i] = Append(es, Escaped(c))[i]
  <2>1. \A i \in 1..(n + 1) : i \in 1..n \/ i = n + 1
    BY <1>2, SMT
  <2> QED
    BY <1>3, <1>4, <1>5, <1>7, <2>1
<1>9. et = Append(es, Escaped(c))
  BY <1>5, <1>7, <1>8, SeqEqual
<1>10. FlattenSeq(et) = FlattenSeq(es) \o Escaped(c)
  BY <1>4, <1>6, <1>9, FlattenAppend
<1> QED
  BY <1>10 DEF esc, es, et, t

\* A name that is written has no separator, and is read back as it was.
LEMMA EscIsReadBack ==
    ASSUME NEW S, NEW name \in Seq(MarksOf(S))
    PROVE  /\ esc(name) \in Seq(MarksOf(S)) /\ "|" \notin Range(esc(name))
           /\ unesc(esc(name)) = name
<1> DEFINE M == MarksOf(S)
           bar == "|"
           per == "%"
           d7C == "7C"
           d25 == "25"
           U(e) == Unescape(e, d7C, bar)
           W(v) == Unescape(v, d25, per)
           Good(s) == /\ esc(s) \in Seq(M) /\ EndsWhole(esc(s)) /\ "|" \notin Range(esc(s))
                      /\ U(esc(s)) \in Seq(M) /\ EndsWhole(U(esc(s)))
                      /\ W(U(esc(s))) = s
           Wrong == {n \in Nat : \E s \in Seq(M) : Len(s) = n /\ ~Good(s)}
<1>1. per \in M /\ bar \in M /\ d25 \in M /\ d7C \in M
  BY DEF MarksOf
<1> HIDE DEF M, bar, per, d7C, d25
<1>2. Good(<<>>)
  <2> DEFINE e == esc(<<>>)
  <2>1. e = <<>>
    BY SMTT(30) DEF esc, FlattenSeq
  <2>2. e \in Seq(M) /\ Len(e) = 0 /\ "|" \notin Range(e)
    <3>1. <<>> \in Seq(M) /\ Len(<<>>) = 0 /\ DOMAIN <<>> = {}
      BY SMTT(30)
    <3> QED
      BY <2>1, <3>1 DEF Range
  <2> HIDE DEF e
  <2>3. Len(e) < 2
    BY <2>2, SMTT(30)
  <2>4. U(e) = e /\ W(e) = e
    <3>1. e \in Seq(M) /\ Len(e) < 2
      BY <2>2, <2>3
    <3> QED
      BY ONLY <1>1, <3>1, UnescapeShort, SMTT(30)
  <2> HIDE DEF U, W
  <2> QED
    BY <2>1, <2>2, <2>4 DEF EndsWhole, e
<1>3. ASSUME NEW s \in Seq(M), NEW c \in M, Good(s) PROVE Good(Append(s, c))
  <2> DEFINE x == esc(s)
             y == Escaped(c)
             z == esc(Append(s, c))
  <2>1. z = x \o y
    BY EscAppend DEF M
  <2>2. x \in Seq(M) /\ EndsWhole(x) /\ "|" \notin Range(x) /\ U(x) \in Seq(M) /\ EndsWhole(U(x)) /\ W(U(x)) = s
    BY <1>3
  <2>3. y \in Seq(M) /\ EndsWhole(y) /\ "|" \notin Range(y) /\ U(y) \in Seq(M) /\ EndsWhole(U(y)) /\ W(U(y)) = <<c>>
    BY EscapedIs DEF M, bar, per, d7C, d25
  <2> HIDE DEF x, y, z
  <2>4. z \in Seq(M) /\ Range(z) = Range(x) \cup Range(y)
    BY <2>1, <2>2, <2>3, ConcatHasBoth, SMTT(20)
  <2>5. U(z) = U(x) \o U(y)
    <3>1. x \in Seq(M) /\ y \in Seq(M) /\ EndsWhole(x)
      BY <2>2, <2>3
    <3>2. Joins(z, x, y)
      BY <2>1 DEF Joins
    <3>3. Joins(U(z), U(x), U(y))
      BY ONLY <1>1, <3>1, <3>2, UnescapeJoin, SMTT(30)
    <3> QED
      BY <3>3 DEF Joins
  <2> DEFINE a == U(x)
             b == U(y)
  <2> HIDE DEF a, b
  <2>6. a \in Seq(M) /\ EndsWhole(a) /\ b \in Seq(M) /\ EndsWhole(b) /\ W(a) = s /\ W(b) = <<c>>
    BY <2>2, <2>3 DEF a, b
  <2>7. W(a \o b) = W(a) \o W(b)
    <3>1. a \in Seq(M) /\ b \in Seq(M) /\ EndsWhole(a)
      BY <2>6
    <3>2. Joins(a \o b, a, b)
      BY DEF Joins
    <3> DEFINE ab == a \o b
    <3> HIDE DEF ab
    <3>3. Joins(W(ab), W(a), W(b))
      BY ONLY <1>1, <3>1, <3>2, UnescapeJoin, SMTT(30) DEF ab
    <3> QED
      BY <3>3 DEF Joins, ab
  <2>8. s \o <<c>> = Append(s, c)
    BY AppendIsConcat DEF M
  <2>9. W(U(z)) = Append(s, c)
    BY <2>5, <2>6, <2>7, <2>8 DEF a, b
  <2>10. EndsWhole(z) /\ EndsWhole(a \o b) /\ a \o b \in Seq(M)
    BY <2>1, <2>2, <2>3, <2>6, WholeJoin
  <2>11. "|" \notin Range(z)
    BY <2>2, <2>3, <2>4
  <2> HIDE DEF U, W
  <2>12. U(z) \in Seq(M) /\ EndsWhole(U(z))
    BY <2>5, <2>10 DEF a, b
  <2> QED
    BY <2>4, <2>9, <2>10, <2>11, <2>12 DEF z
<1> HIDE DEF Good
<1>4. ASSUME NEW n \in Wrong, \A d \in Wrong : n <= d PROVE FALSE
  <2>1. PICK s \in Seq(M) : Len(s) = n /\ ~Good(s)
    OBVIOUS
  <2>2. s # <<>>
    BY <1>2, <2>1
  <2>3. PICK r \in Seq(M), c \in M : s = Append(r, c)
    BY <2>2, SequenceEmptyOrAppend
  <2>4. Len(r) \in Nat /\ n = Len(r) + 1 /\ ~(n <= Len(r))
    <3>1. Len(Append(r, c)) = Len(r) + 1
      BY AppendProperties
    <3> QED
      BY <2>1, <2>3, <3>1, SMTT(30)
  <2>5. Len(r) \notin Wrong
    <3> HIDE DEF Wrong
    <3> QED
      BY <1>4, <2>4
  <2>6. Good(r)
    BY <2>4, <2>5
  <2> QED
    BY <1>3, <2>1, <2>3, <2>6
<1>5. Wrong \in SUBSET Nat
  OBVIOUS
<1>6. Wrong = {}
  <2> HIDE DEF Wrong
  <2> QED
    BY <1>4, <1>5, LeastElement
<1>7. Good(name)
  <2>1. name \in Seq(M) /\ Len(name) \in Nat
    BY SMTT(30) DEF M
  <2> QED
    BY <1>6, <2>1
<1> QED
  BY <1>7 DEF Good, M, unesc, bar, per, d7C, d25

-----------------------------------------------------------------------------
\* Every edge key is read back from its text, whatever is in its four names.
THEOREM KeyIsReadBack ==
    ASSUME NEW S, NEW k \in [1..4 -> Seq(S)]
    PROVE  EdgeKeyFromString(EdgeKeyString(k)) = k
<1> DEFINE M == MarksOf(S)
           bar == Sep
           e(i) == esc(k[i])
           a == e(1)
           b == a \o <<bar>> \o e(2)
           c == b \o <<bar>> \o e(3)
           t == c \o <<bar>> \o e(4)
           p == Len(a) + 1
           q == Len(b) + 1
           r == Len(c) + 1
<1>1. bar \in M
  BY DEF MarksOf, Sep
<1>2. \A i \in 1..4 : k[i] \in Seq(M)
  <2>1. S \subseteq M
    BY DEF MarksOf
  <2> HIDE DEF M
  <2>2. \A s \in Seq(S) : s \in Seq(M)
    BY <2>1, SeqMonotonic
  <2> QED
    BY <2>2
<1>3. \A i \in 1..4 : e(i) \in Seq(M) /\ bar \notin Range(e(i)) /\ unesc(e(i)) = k[i]
  BY <1>2, EscIsReadBack DEF Sep
<1>4. EdgeKeyString(k) = t
  BY DEF EdgeKeyString
<1> HIDE DEF M, bar, e
<1>5. BarsOf(a, bar) = {}
  BY <1>3, SMTT(30) DEF BarsOf, Range
<1>6. /\ b \in Seq(M) /\ Len(b) = Len(a) + 1 + Len(e(2)) /\ (\A i \in 1..Len(a) : b[i] = a[i])
      /\ BarsOf(b, bar) = BarsOf(a, bar) \cup {Len(a) + 1} /\ SubSeq(b, Len(a) + 2, Len(b)) = e(2)
  <2> HIDE DEF a
  <2>1. Joins(b, a \o <<bar>>, e(2)) /\ a \in Seq(M)
    BY <1>3, SMT DEF Joins, a
  <2>2. e(2) \in Seq(M) /\ bar \notin Range(e(2))
    BY <1>3, SMTT(30)
  <2> HIDE DEF b
  <2> QED
    BY <1>1, <2>1, <2>2, PartAdded, SMTT(60)
<1>7. /\ c \in Seq(M) /\ Len(c) = Len(b) + 1 + Len(e(3)) /\ (\A i \in 1..Len(b) : c[i] = b[i])
      /\ BarsOf(c, bar) = BarsOf(b, bar) \cup {Len(b) + 1} /\ SubSeq(c, Len(b) + 2, Len(c)) = e(3)
  <2> HIDE DEF b
  <2>1. Joins(c, b \o <<bar>>, e(3))
    BY DEF Joins
  <2>2. e(3) \in Seq(M) /\ bar \notin Range(e(3)) /\ b \in Seq(M)
    BY <1>3, <1>6, SMTT(30)
  <2> HIDE DEF c
  <2> QED
    BY <1>1, <2>1, <2>2, PartAdded, SMTT(60)
<1>8. /\ t \in Seq(M) /\ Len(t) = Len(c) + 1 + Len(e(4)) /\ (\A i \in 1..Len(c) : t[i] = c[i])
      /\ BarsOf(t, bar) = BarsOf(c, bar) \cup {Len(c) + 1} /\ SubSeq(t, Len(c) + 2, Len(t)) = e(4)
  <2> HIDE DEF c
  <2>1. Joins(t, c \o <<bar>>, e(4))
    BY DEF Joins
  <2>2. e(4) \in Seq(M) /\ bar \notin Range(e(4)) /\ c \in Seq(M)
    BY <1>3, <1>7, SMTT(30)
  <2> HIDE DEF t
  <2> QED
    BY <1>1, <2>1, <2>2, PartAdded, SMTT(60)
<1>9. a \in Seq(M) /\ a = e(1)
  BY <1>3, SMTT(30)
<1> HIDE DEF a, b, c, t
<1>10. /\ Len(a) \in Nat /\ Len(b) \in Nat /\ Len(c) \in Nat /\ Len(t) \in Nat
       /\ Len(e(2)) \in Nat /\ Len(e(3)) \in Nat /\ Len(e(4)) \in Nat
  <2>1. e(2) \in Seq(M) /\ e(3) \in Seq(M) /\ e(4) \in Seq(M)
    BY <1>3, SMTT(30)
  <2>2. a \in Seq(M) /\ b \in Seq(M) /\ c \in Seq(M) /\ t \in Seq(M)
    BY <1>6, <1>7, <1>8, <1>9
  <2> QED
    BY <2>1, <2>2, LenProperties
<1>q. /\ a \in Seq(M) /\ b \in Seq(M) /\ c \in Seq(M) /\ t \in Seq(M)
      /\ \A i \in 1..Len(a) : b[i] = a[i]
      /\ \A i \in 1..Len(b) : c[i] = b[i]
      /\ \A i \in 1..Len(c) : t[i] = c[i]
  BY <1>6, <1>7, <1>8, <1>9
<1>l. Len(b) = Len(a) + 1 + Len(e(2)) /\ Len(c) = Len(b) + 1 + Len(e(3))
  BY <1>6, <1>7
<1>o. /\ Len(a) <= Len(a) /\ Len(a) <= Len(b) /\ Len(a) <= Len(c)
      /\ Len(b) <= Len(b) /\ Len(b) <= Len(c) /\ Len(c) <= Len(c) /\ 1 \in Nat \ {0}
  BY <1>10, <1>l, SMTT(60)
<1>11. p \in Nat /\ q \in Nat /\ r \in Nat /\ p < q /\ q < r /\ p - 1 = Len(a) /\ q - 1 = Len(b) /\ r - 1 = Len(c)
  BY <1>10, <1>l, SMTT(60)
<1>12. BarsOf(t, bar) = {p, q, r}
  BY <1>5, <1>6, <1>7, <1>8
<1>13. SubSeq(t, 1, p - 1) = e(1)
  <2>1. SubSeq(t, 1, Len(a)) = SubSeq(c, 1, Len(a))
    BY <1>10, <1>o, <1>q, PartStays, SMTT(60)
  <2>2. SubSeq(c, 1, Len(a)) = SubSeq(b, 1, Len(a))
    BY <1>10, <1>o, <1>q, PartStays, SMTT(20)
  <2>3. SubSeq(b, 1, Len(a)) = SubSeq(a, 1, Len(a))
    BY <1>10, <1>o, <1>q, PartStays, SMTT(20)
  <2>4. SubSeq(a, 1, Len(a)) = a
    BY <1>9, SubSeqFull
  <2> QED
    BY <1>9, <1>11, <2>1, <2>2, <2>3, <2>4
<1> DEFINE a2 == Len(a) + 2
           b2 == Len(b) + 2
<1>14. a2 \in Nat \ {0} /\ b2 \in Nat \ {0}
  BY <1>10, SMTT(60)
<1> HIDE DEF a2, b2
<1>15. SubSeq(t, p + 1, q - 1) = e(2)
  <2>1. SubSeq(t, a2, Len(b)) = SubSeq(c, a2, Len(b))
    BY <1>10, <1>14, <1>o, <1>q, PartStays, SMTT(60)
  <2>2. SubSeq(c, a2, Len(b)) = SubSeq(b, a2, Len(b))
    BY <1>10, <1>14, <1>o, <1>q, PartStays, SMT
  <2>3. p + 1 = a2
    BY <1>10, SMTT(30) DEF a2
  <2>4. SubSeq(b, a2, Len(b)) = e(2)
    BY <1>6 DEF a2
  <2> QED
    BY <2>4, <1>11, <2>1, <2>2, <2>3
<1>16. SubSeq(t, q + 1, r - 1) = e(3)
  <2>1. SubSeq(t, b2, Len(c)) = SubSeq(c, b2, Len(c))
    BY <1>10, <1>14, <1>o, <1>q, PartStays, SMTT(20)
  <2>2. q + 1 = b2
    BY <1>10, SMTT(30) DEF b2
  <2>3. SubSeq(c, b2, Len(c)) = e(3)
    BY <1>7 DEF b2
  <2> QED
    BY <2>3, <1>11, <2>1, <2>2
<1>17. SubSeq(t, r + 1, Len(t)) = e(4)
  <2>1. r + 1 = Len(c) + 2
    BY <1>10, SMTT(30)
  <2> QED
    BY <1>8, <2>1
<1> HIDE DEF p, q, r
<1> DEFINE at == {i \in DOMAIN t : t[i] = Sep}
           nth(n) == Nth(at, n)
<1>18. at = {p, q, r}
  BY <1>12 DEF BarsOf, bar
<1>19. Cardinality(at) = 3 /\ nth(1) = p /\ nth(2) = q /\ nth(3) = r
  <2> HIDE DEF at
  <2> QED
    BY <1>11, <1>18, NthOfThree
<1>20. EdgeKeyFromString(t) =
         IF Cardinality(at) < 3 THEN <<>>
         ELSE <<unesc(SubSeq(t, 1, nth(1) - 1)), unesc(SubSeq(t, nth(1) + 1, nth(2) - 1)),
                unesc(SubSeq(t, nth(2) + 1, nth(3) - 1)), unesc(SubSeq(t, nth(3) + 1, Len(t)))>>
  BY DEF EdgeKeyFromString, Nth
<1> HIDE DEF at, nth
<1>21. EdgeKeyFromString(t) = <<unesc(e(1)), unesc(e(2)), unesc(e(3)), unesc(e(4))>>
  <2>1. ~(Cardinality(at) < 3)
    BY <1>19, SMTT(30)
  <2> QED
    BY <1>13, <1>15, <1>16, <1>17, <1>19, <1>20, <2>1
<1>22. EdgeKeyFromString(t) = <<k[1], k[2], k[3], k[4]>>
  BY <1>3, <1>21, SMTT(30)
<1> QED
  BY <1>4, <1>22, SMTT(30)

-----------------------------------------------------------------------------
(* LinkLifecycle                                                           *)

\* Counters and history tell the same: a link with a counter has gone that many cycles and
\* one more without confirmation, and one without has no history, unless it has just expired.
AgesFit(a, p, gone) ==
    /\ DOMAIN a \subseteq Links /\ a = [k \in DOMAIN a |-> a[k]]
    /\ p = [k \in Links |-> p[k]]
    /\ \A k \in DOMAIN a : a[k] \in 0..(TTL - 1)
    /\ \A k \in Links : /\ p[k].quiet \in Nat /\ p[k].served \in Nat
                        /\ k \in DOMAIN a => k \notin gone /\ p[k].quiet = a[k] + 1 /\ p[k].served <= a[k] + 1
                        /\ k \notin DOMAIN a => p[k].served = 0
                        /\ k \notin DOMAIN a /\ k \notin gone => p[k].quiet = 0

\* The snapshot holds such counters as text.
LifeInv ==
    /\ AgesFit(ages, past, expired)
    /\ \E a : AgesFit(a, disk.past, {}) /\ disk.ages = EdgeKeysToAges(a)
    /\ \A k \in expired : k \in Links => seen[k] # "both" /\ past[k].quiet > TTL
    /\ kept = {k \in Links : seen[k] # "none"} \ expired
    /\ seen \in [Links -> {"none", "one", "both"}]

\* The counters come back from the snapshot as they were.
LEMMA AgesSurvive ==
    ASSUME NEW a, DOMAIN a \subseteq Links, a = [k \in DOMAIN a |-> a[k]]
    PROVE  AgesToEdgeKeys(EdgeKeysToAges(a)) = a
<1> DEFINE text(k) == EdgeKeyString(k)
           t == EdgeKeysToAges(a)
           back == AgesToEdgeKeys(t)
<1>1. \A k \in DOMAIN a : k # <<>> /\ EdgeKeyFromString(EdgeKeyString(k)) = k
  <2> SUFFICES ASSUME NEW k \in DOMAIN a PROVE k # <<>> /\ EdgeKeyFromString(EdgeKeyString(k)) = k
    OBVIOUS
  <2>1. k \in [1..4 -> Seq(STRING)]
    BY LinksAssumption
  <2>2. k # <<>>
    <3>1. DOMAIN k = 1..4 /\ 1 \in 1..4 /\ 1 \notin 1..0
      BY <2>1, SMTT(30)
    <3>2. DOMAIN << >> = 1..0
      BY SMT
    <3> QED
      BY <3>1, <3>2
  <2> QED
    BY <2>1, <2>2, KeyIsReadBack
<1>2. DOMAIN t = {EdgeKeyString(k) : k \in DOMAIN a}
  BY DEF EdgeKeysToAges
<1>3. \A k \in DOMAIN a : (CHOOSE j \in DOMAIN a : EdgeKeyString(j) = EdgeKeyString(k)) = k
  <2> SUFFICES ASSUME NEW k \in DOMAIN a PROVE (CHOOSE j \in DOMAIN a : EdgeKeyString(j) = EdgeKeyString(k)) = k
    OBVIOUS
  <2> DEFINE c == CHOOSE j \in DOMAIN a : EdgeKeyString(j) = EdgeKeyString(k)
  <2>1. c \in DOMAIN a /\ EdgeKeyString(c) = EdgeKeyString(k)
    OBVIOUS
  <2> HIDE DEF c
  <2>2. c = k
    BY <1>1, <2>1
  <2> QED
    BY <2>2 DEF c
<1>4. \A k \in DOMAIN a : t[EdgeKeyString(k)] = a[k]
  <2> SUFFICES ASSUME NEW k \in DOMAIN a PROVE t[EdgeKeyString(k)] = a[k]
    OBVIOUS
  <2>1. t[EdgeKeyString(k)] = a[CHOOSE j \in DOMAIN a : EdgeKeyString(j) = EdgeKeyString(k)]
    BY DEF EdgeKeysToAges
  <2> QED
    BY <1>3, <2>1
<1> HIDE DEF t
<1>5. {EdgeKeyFromString(x) : x \in DOMAIN t} \ {<<>>} = DOMAIN a
  <2>1. \A x \in DOMAIN t : EdgeKeyFromString(x) \in DOMAIN a
    BY <1>1, <1>2
  <2>2. \A k \in DOMAIN a : k # <<>> /\ \E x \in DOMAIN t : k = EdgeKeyFromString(x)
    BY <1>1, <1>2
  <2> QED
    BY <2>1, <2>2
<1>6. \A k \in DOMAIN a : (CHOOSE x \in DOMAIN t : EdgeKeyFromString(x) = k) = EdgeKeyString(k)
  <2> SUFFICES ASSUME NEW k \in DOMAIN a PROVE (CHOOSE x \in DOMAIN t : EdgeKeyFromString(x) = k) = EdgeKeyString(k)
    OBVIOUS
  <2> DEFINE c == CHOOSE x \in DOMAIN t : EdgeKeyFromString(x) = k
  <2>1. EdgeKeyString(k) \in DOMAIN t /\ EdgeKeyFromString(EdgeKeyString(k)) = k
    BY <1>1, <1>2
  <2>2. c \in DOMAIN t /\ EdgeKeyFromString(c) = k
    BY <2>1
  <2> HIDE DEF c
  <2>3. PICK j \in DOMAIN a : c = EdgeKeyString(j)
    BY <1>2, <2>2
  <2>4. c = EdgeKeyString(k)
    BY <1>1, <2>2, <2>3
  <2> QED
    BY <2>4 DEF c
<1>7. back = [k \in DOMAIN a |-> t[CHOOSE x \in DOMAIN t : EdgeKeyFromString(x) = k]]
  BY <1>5 DEF AgesToEdgeKeys
<1>8. back = [k \in DOMAIN a |-> a[k]]
  BY <1>4, <1>6, <1>7
<1> QED
  BY <1>8 DEF t

\* The history of one link after a cycle, whatever became of the graph.
LEMMA LaterIs ==
    ASSUME NEW k, NEW saw \in {"none", "one", "both"}, NEW keep \in BOOLEAN, NEW accepted \in BOOLEAN,
           past[k].quiet \in Nat, past[k].served \in Nat
    PROVE  /\ Later(k, saw, keep, accepted).quiet =
                 IF saw = "both" \/ (saw = "none" /\ (k \in expired \/ past[k].quiet = 0)) THEN 0
                 ELSE IF k \in expired THEN 1 ELSE past[k].quiet + 1
           /\ Later(k, saw, keep, accepted).served \in {0, past[k].served, past[k].served + 1}
           /\ saw = "both" \/ ~keep => Later(k, saw, keep, accepted).served = 0
           /\ saw = "none" => Later(k, saw, keep, accepted).served \in {0, past[k].served}
BY SMT DEF Later

\* A cycle keeps counters and history together, in memory and in what it saves.
LEMMA CycleFits ==
    ASSUME LifeInv, NEW saw \in [Links -> {"none", "one", "both"}], NEW accepted \in BOOLEAN, NEW aged, NEW later,
           aged = AgeUnconfirmed(ages, saw),
           later = [k \in Links |-> Later(k, saw[k], k \notin aged.expired, accepted)]
    PROVE  /\ AgesFit(aged.ages, later, aged.expired)
           /\ AgesFit(aged.ages, [k \in Links |-> IF k \in aged.expired THEN NoPast ELSE later[k]], {})
           /\ \A k \in aged.expired : k \in Links /\ saw[k] # "both" /\ later[k].quiet > TTL
<1> DEFINE live == Unconfirmed(ages, saw)
           gone == {k \in live : k \in DOMAIN ages /\ ages[k] + 1 >= TTL}
<1>1. /\ aged.expired = gone
      /\ aged.ages = [k \in live \ gone |-> IF k \in DOMAIN ages THEN ages[k] + 1 ELSE 0]
  BY DEF AgeUnconfirmed, ExpiredLinks
<1>2. /\ TTL \in Nat \ {0} /\ DOMAIN ages \subseteq Links /\ \A k \in DOMAIN ages : ages[k] \in 0..(TTL - 1)
      /\ \A k \in Links : past[k].quiet \in Nat /\ past[k].served \in Nat
      /\ \A k \in DOMAIN ages : k \notin expired /\ past[k].quiet = ages[k] + 1 /\ past[k].served <= ages[k] + 1
      /\ \A k \in Links \ DOMAIN ages : past[k].served = 0 /\ (k \notin expired => past[k].quiet = 0)
  BY TTLAssumption DEF LifeInv, AgesFit
<1>3. \A k \in Links : k \in live <=> saw[k] = "one" \/ (saw[k] = "none" /\ k \in DOMAIN ages)
  BY DEF Unconfirmed
<1>4. live \subseteq Links
  BY <1>2 DEF Unconfirmed
<1> HIDE DEF live
<1>5. \A k \in Links : /\ saw[k] \in {"none", "one", "both"} /\ (k \notin aged.expired) \in BOOLEAN
                       /\ later[k] = Later(k, saw[k], k \notin aged.expired, accepted)
  OBVIOUS
<1>6. ASSUME NEW k \in Links
      PROVE  /\ later[k].quiet = (IF saw[k] = "both" \/ (saw[k] = "none" /\ (k \in expired \/ past[k].quiet = 0)) THEN 0
                                  ELSE IF k \in expired THEN 1 ELSE past[k].quiet + 1)
             /\ later[k].served \in {0, past[k].served, past[k].served + 1}
             /\ saw[k] = "both" \/ k \in gone => later[k].served = 0
             /\ saw[k] = "none" => later[k].served \in {0, past[k].served}
  <2> DEFINE keep == k \notin aged.expired
             l == Later(k, saw[k], keep, accepted)
  <2>1. past[k].quiet \in Nat /\ past[k].served \in Nat /\ keep \in BOOLEAN /\ saw[k] \in {"none", "one", "both"}
    BY <1>2, <1>5
  <2>2. accepted \in BOOLEAN
    OBVIOUS
  <2> HIDE DEF keep
  <2>3. /\ l.quiet = (IF saw[k] = "both" \/ (saw[k] = "none" /\ (k \in expired \/ past[k].quiet = 0)) THEN 0
                     ELSE IF k \in expired THEN 1 ELSE past[k].quiet + 1)
        /\ l.served \in {0, past[k].served, past[k].served + 1}
        /\ saw[k] = "both" \/ ~keep => l.served = 0
        /\ saw[k] = "none" => l.served \in {0, past[k].served}
    BY <2>1, <2>2, LaterIs, SMTT(30)
  <2>4. later[k] = l /\ (~keep <=> k \in gone)
    BY <1>1, <1>5 DEF keep
  <2> HIDE DEF l
  <2> QED
    BY <2>3, <2>4
<1>7. ASSUME NEW k \in Links
      PROVE  /\ later[k].quiet \in Nat /\ later[k].served \in Nat
             /\ k \in live \ gone => /\ later[k].quiet = (IF k \in DOMAIN ages THEN ages[k] + 1 ELSE 0) + 1
                                     /\ later[k].served <= (IF k \in DOMAIN ages THEN ages[k] + 1 ELSE 0) + 1
             /\ k \notin live \ gone => later[k].served = 0
             /\ k \notin live => later[k].quiet = 0
             /\ k \in gone => saw[k] # "both" /\ later[k].quiet > TTL
  <2> DEFINE q == past[k].quiet
             s == past[k].served
             age == ages[k]
             isLive == k \in live
             isGone == k \in gone
             tracked == k \in DOMAIN ages
  <2>1. q \in Nat /\ s \in Nat /\ TTL \in Nat \ {0}
    BY <1>2
  <2>2. tracked => k \notin expired /\ age \in 0..(TTL - 1) /\ q = age + 1 /\ s <= age + 1
    BY <1>2
  <2>3. ~tracked => s = 0 /\ (k \notin expired => q = 0)
    BY <1>2
  <2>4. isLive <=> saw[k] = "one" \/ (saw[k] = "none" /\ tracked)
    BY <1>3
  <2>5. isGone <=> isLive /\ tracked /\ age + 1 >= TTL
    OBVIOUS
  <2>6. saw[k] \in {"none", "one", "both"}
    BY <1>5
  <2>7. /\ later[k].quiet = (IF saw[k] = "both" \/ (saw[k] = "none" /\ (k \in expired \/ q = 0)) THEN 0
                             ELSE IF k \in expired THEN 1 ELSE q + 1)
        /\ later[k].served \in {0, s, s + 1}
        /\ saw[k] = "both" \/ isGone => later[k].served = 0
        /\ saw[k] = "none" => later[k].served \in {0, s}
    BY <1>6
  <2> HIDE DEF q, s, age, isLive, isGone, tracked
  <2>8. later[k].quiet \in Nat /\ later[k].served \in Nat
    BY <2>1, <2>7, SMTT(30)
  <2>9. isLive /\ ~isGone => /\ later[k].quiet = (IF tracked THEN age + 1 ELSE 0) + 1
                            /\ later[k].served <= (IF tracked THEN age + 1 ELSE 0) + 1
    BY <2>1, <2>2, <2>3, <2>4, <2>6, <2>7, SMTT(30)
  <2>10. ~(isLive /\ ~isGone) => later[k].served = 0
    BY <2>3, <2>4, <2>6, <2>7
  <2>11. ~isLive => later[k].quiet = 0
    BY <2>3, <2>4, <2>6, <2>7
  <2>12. isGone => saw[k] # "both" /\ later[k].quiet > TTL
    BY <2>1, <2>2, <2>4, <2>5, <2>7, SMTT(30)
  <2> QED
    BY <2>8, <2>9, <2>10, <2>11, <2>12 DEF isLive, isGone, tracked, age
<1>8. \A k \in live \ gone : (IF k \in DOMAIN ages THEN ages[k] + 1 ELSE 0) \in 0..(TTL - 1)
  BY <1>2, SMTT(30)
<1>9. /\ DOMAIN aged.ages = live \ gone /\ aged.ages = [k \in live \ gone |-> aged.ages[k]]
      /\ \A k \in live \ gone : aged.ages[k] = IF k \in DOMAIN ages THEN ages[k] + 1 ELSE 0
  BY <1>1
<1>13. \A k \in Links :
          /\ later[k].quiet \in Nat /\ later[k].served \in Nat
          /\ k \in live \ gone => /\ later[k].quiet = aged.ages[k] + 1 /\ later[k].served <= aged.ages[k] + 1
          /\ k \notin live \ gone => later[k].served = 0
          /\ k \notin live => later[k].quiet = 0
  BY <1>7, <1>9
<1>14. /\ DOMAIN aged.ages = live \ gone /\ aged.ages = [k \in live \ gone |-> aged.ages[k]]
       /\ \A k \in live \ gone : aged.ages[k] \in 0..(TTL - 1)
  BY <1>8, <1>9
<1> DEFINE wiped == [k \in Links |-> IF k \in aged.expired THEN NoPast ELSE later[k]]
<1>10. NoPast.quiet = 0 /\ NoPast.served = 0
  BY DEF NoPast
<1>11. AgesFit(aged.ages, later, aged.expired)
  <2>1. aged.expired = gone
    BY <1>1
  <2>2. later = [k \in Links |-> later[k]]
    OBVIOUS
  <2> HIDE DEF gone
  <2> QED
    BY <1>4, <1>13, <1>14, <2>1, <2>2 DEF AgesFit
<1>12. AgesFit(aged.ages, wiped, {})
  <2>1. \A k \in Links : wiped[k] = IF k \in gone THEN NoPast ELSE later[k]
    BY <1>1
  <2>2. wiped = [k \in Links |-> wiped[k]]
    OBVIOUS
  <2>3. 0 \in Nat
    BY SMT
  <2> HIDE DEF wiped, gone
  <2>4. \A k \in Links :
          /\ wiped[k].quiet \in Nat /\ wiped[k].served \in Nat
          /\ k \in live \ gone => /\ wiped[k].quiet = aged.ages[k] + 1 /\ wiped[k].served <= aged.ages[k] + 1
          /\ k \notin live \ gone => wiped[k].served = 0
          /\ k \notin live \ gone => wiped[k].quiet = 0
    BY <1>10, <1>13, <2>1, <2>3
  <2> QED
    BY <1>4, <1>14, <2>2, <2>4 DEF AgesFit
<1> QED
  BY <1>1, <1>4, <1>7, <1>11, <1>12

\* Every step keeps the invariant.
LEMMA LifeStep == LifeInv /\ [LifeNext]_lifeVars => LifeInv'
<1> SUFFICES ASSUME LifeInv, [LifeNext]_lifeVars PROVE LifeInv'
  OBVIOUS
<1>1. CASE Cycle
  <2>1. PICK saw \in [Links -> {"none", "one", "both"}], accepted, saved \in BOOLEAN :
          LET aged == AgeUnconfirmed(ages, saw)
          IN  /\ seen' = saw
              /\ ages' = aged.ages
              /\ expired' = aged.expired
              /\ kept' = {k \in Links : saw[k] # "none"} \ aged.expired
              /\ past' = [k \in Links |-> Later(k, saw[k], k \notin aged.expired, accepted)]
              /\ disk' = IF accepted /\ saved
                         THEN [ages |-> EdgeKeysToAges(aged.ages),
                               past |-> [k \in Links |-> IF k \in aged.expired THEN NoPast ELSE past'[k]]]
                         ELSE disk
    BY <1>1 DEF Cycle
  <2> DEFINE aged == AgeUnconfirmed(ages, saw)
             wiped == [k \in Links |-> IF k \in aged.expired THEN NoPast ELSE past'[k]]
  <2>2. /\ AgesFit(aged.ages, past', aged.expired) /\ AgesFit(aged.ages, wiped, {})
        /\ \A k \in aged.expired : k \in Links /\ saw[k] # "both" /\ past'[k].quiet > TTL
    <3>1. /\ saw \in [Links -> {"none", "one", "both"}] /\ accepted \in BOOLEAN
          /\ past' = [k \in Links |-> Later(k, saw[k], k \notin aged.expired, accepted)]
      BY <2>1
    <3>2. aged = AgeUnconfirmed(ages, saw)
      OBVIOUS
    <3> HIDE DEF aged
    <3> QED
      BY <3>1, <3>2, CycleFits, SMTT(30)
  <2>3. disk' = [ages |-> EdgeKeysToAges(aged.ages), past |-> wiped] \/ disk' = disk
    BY <2>1
  <2>4. /\ seen' = saw /\ ages' = aged.ages /\ expired' = aged.expired
        /\ kept' = {k \in Links : saw[k] # "none"} \ aged.expired
    BY <2>1
  <2> HIDE DEF aged, wiped
  <2>5. \E a : AgesFit(a, disk'.past, {}) /\ disk'.ages = EdgeKeysToAges(a)
    <3>1. CASE disk' = disk
      BY <3>1 DEF LifeInv
    <3>2. CASE disk' = [ages |-> EdgeKeysToAges(aged.ages), past |-> wiped]
      <4>1. disk'.past = wiped /\ disk'.ages = EdgeKeysToAges(aged.ages)
        BY <3>2
      <4> QED
        BY <2>2, <4>1
    <3> QED
      BY <2>3, <3>1, <3>2
  <2> QED
    BY <2>2, <2>4, <2>5 DEF LifeInv, AgesFit
<1>2. CASE RestartLoop
  <2>1. PICK a : AgesFit(a, disk.past, {}) /\ disk.ages = EdgeKeysToAges(a)
    BY DEF LifeInv
  <2>2. ages' = a
    BY <1>2, <2>1, AgesSurvive DEF RestartLoop, AgesFit
  <2>3. AgesFit(ages, past, expired)' 
    BY <1>2, <2>1, <2>2 DEF RestartLoop, AgesFit
  <2>4. \E b : AgesFit(b, disk'.past, {}) /\ disk'.ages = EdgeKeysToAges(b)
    BY <1>2, <2>1 DEF RestartLoop
  <2> QED
    BY <1>2, <2>3, <2>4 DEF RestartLoop, LifeInv
<1>3. CASE UNCHANGED lifeVars
  <2>1. /\ ages' = ages /\ seen' = seen /\ kept' = kept /\ expired' = expired /\ past' = past /\ disk' = disk
    BY <1>3 DEF lifeVars
  <2> QED
    BY <2>1 DEF LifeInv, AgesFit
<1> QED
  BY <1>1, <1>2, <1>3 DEF LifeNext

\* A one-sided link leaves after TTL cycles, not before and not later, for every set of
\* links and every TTL, through restarts and rejected graphs.
THEOREM WithdrawalIsOnTime == LifeSpec => []WithdrawnOnTime
<1>1. LifeInit => LifeInv
  <2> SUFFICES ASSUME LifeInit PROVE LifeInv
    OBVIOUS
  <2> DEFINE none == [k \in {} |-> 0]
  <2>1. AgesFit(none, past, {})
    BY TTLAssumption DEF LifeInit, AgesFit, NoPast
  <2>2. EdgeKeysToAges(none) = [t \in {} |-> 0]
    BY DEF EdgeKeysToAges
  <2>3. ages = none /\ expired = {} /\ disk.past = past /\ disk.ages = EdgeKeysToAges(none)
    BY <2>2 DEF LifeInit
  <2>4. \E a : AgesFit(a, disk.past, {}) /\ disk.ages = EdgeKeysToAges(a)
    BY <2>1, <2>3
  <2>5. seen \in [Links -> {"none", "one", "both"}] /\ kept = {k \in Links : seen[k] # "none"} \ expired
    BY DEF LifeInit
  <2> HIDE DEF none
  <2> QED
    BY <2>1, <2>3, <2>4, <2>5 DEF LifeInv
<1>2. LifeInv => WithdrawnOnTime
  <2> SUFFICES ASSUME LifeInv, NEW k \in Links
               PROVE  /\ past[k].served <= TTL
                      /\ seen[k] # "none" /\ k \notin kept => seen[k] = "one" /\ past[k].quiet > TTL
    BY DEF WithdrawnOnTime
  <2>1. past[k].served <= TTL
    BY TTLAssumption, SMTT(30) DEF LifeInv, AgesFit
  <2>2. seen[k] \in {"none", "one", "both"} /\ (seen[k] # "none" /\ k \notin kept => k \in expired)
    BY DEF LifeInv
  <2> QED
    BY <2>1, <2>2 DEF LifeInv
<1> QED
  BY <1>1, <1>2, LifeStep, PTL DEF LifeSpec

-----------------------------------------------------------------------------
(* PushPath: a restart keeps what was accepted                             *)

\* The fields that the snapshot caps tighter than the push.
Tighter == {"vendor", "model", "os_version", "site", "proto", "link_kind", "oos_proto"}

\* The odd text is one of a field; a spoke's own fits the snapshot, and an accepted one
\* passed the checks of the push.
PushPathInv ==
    /\ payload.from \in {"nobody", "spoke", "elsewhere"}
    /\ payload.from # "nobody" => payload.field \in Fields /\ payload.text.len \in Nat
    /\ payload.from = "spoke" => validateSnapshotFields(payload)
    /\ verdict = "ok" => payload.from # "nobody" /\ validateField(payload.field, payload.text)
    /\ restored = "discarded" => verdict = "ok" /\ ~validateSnapshotFields(payload)

\* What a walker makes of an answer fits every cap of the snapshot.
LEMMA WalkedFits ==
    ASSUME NEW f \in Fields, NEW t \in Raw, NEW version \in BOOLEAN
    PROVE  Walked(f, t, version).len \in Nat /\ Walked(f, t, version).len <= SnapshotCap(f)
<1> USE DEF MaxDeviceIDBytes, MaxPortNameBytes, MaxLabelKeyBytes, MaxLabelValueBytes, maxShortFieldBytes, maxProtoBytes
<1>1. t.len \in Nat
  BY RawAssumption
<1>3. CASE f \in {"id", "dst_device", "hint"}
  <2>0. NormaliseName(t).len \in 0..255
    BY <1>1, SMTT(30) DEF NormaliseName, Shorter, Text
  <2>1. Walked(f, t, version) = NormaliseName(t)
    BY <1>3 DEF Walked
  <2>2. SnapshotCap(f) = 256
    BY <1>3, SMTT(20) DEF SnapshotCap
  <2> QED
    BY <2>0, <2>1, <2>2, SMTT(20)
<1>4. CASE f \in {"src_port", "dst_port", "reporting_port"}
  <2>0. SanitisePortName(t).len \in 0..255
    BY <1>1, SMT DEF SanitisePortName, Shorter, Text
  <2>1. Walked(f, t, version) = SanitisePortName(t)
    BY <1>4 DEF Walked
  <2>2. SnapshotCap(f) = 256
    BY <1>4, SMTT(20) DEF SnapshotCap
  <2> QED
    BY <2>0, <2>1, <2>2, SMTT(20)
<1>5. CASE f = "os_version"
  <2>0. normalizeSysDescr(t, version).len \in 0..64
    BY <1>1, SMTT(20) DEF normalizeSysDescr, Shorter, Text, Plain
  <2>1. Walked(f, t, version) = normalizeSysDescr(t, version)
    BY <1>5 DEF Walked
  <2>2. SnapshotCap(f) = 256
    BY <1>5, SMTT(20) DEF SnapshotCap
  <2> QED
    BY <2>0, <2>1, <2>2, SMTT(20)
<1>6. CASE f \notin {"id", "dst_device", "hint", "src_port", "dst_port", "reporting_port", "os_version"}
  <2>0. Plain.len = 8
    BY DEF Plain, Text
  <2>1. Walked(f, t, version) = Plain
    BY <1>6 DEF Walked
  <2>2. SnapshotCap(f) \in {64, 256, 4096}
    BY SMTT(30) DEF SnapshotCap
  <2>3. Walked(f, t, version).len = 8
    BY <2>0, <2>1
  <2> QED
    BY <2>2, <2>3, SMTT(20)
<1> QED
  BY <1>3, <1>4, <1>5, <1>6

\* A text that the push let in and the snapshot refuses is of a field capped tighter.
LEMMA CapsAgree ==
    ASSUME NEW f \in Fields \ Tighter
    PROVE  PushCap(f) = SnapshotCap(f)
<1> USE DEF MaxDeviceIDBytes, MaxPortNameBytes, MaxLabelKeyBytes, MaxLabelValueBytes, maxShortFieldBytes, maxProtoBytes
<1>1. CASE f \in {"id", "src_device", "dst_device", "reporting_device", "hint"}
  BY <1>1, SMTT(30) DEF PushCap, SnapshotCap
<1>2. CASE f \in {"src_port", "dst_port", "reporting_port"}
  BY <1>2, SMTT(30) DEF PushCap, SnapshotCap
<1>3. CASE f \in {"label_key", "metadata_key"}
  BY <1>3, SMTT(30) DEF PushCap, SnapshotCap
<1>4. CASE f \in {"label_value", "metadata_value"}
  BY <1>4, SMTT(30) DEF PushCap, SnapshotCap
<1> QED
  BY <1>1, <1>2, <1>3, <1>4 DEF Fields, DeviceFields, EdgeFields, NeighbourFields, Tighter

\* An accepted payload passed the check of its odd text.
LEMMA OkIsChecked ==
    ASSUME NEW p, p.field \in Fields, validateSpokePayload(p) = "ok"
    PROVE  validateField(p.field, p.text)
<1> DEFINE odd(part) == p.field \in part /\ ~validateField(p.field, p.text)
<1> SUFFICES ASSUME ~validateField(p.field, p.text) PROVE FALSE
  OBVIOUS
<1>1. odd(DeviceFields) \/ odd(EdgeFields \cup NeighbourFields)
  BY DEF Fields
<1>2. FieldReason(p.field, p.text) # "ok"
  BY DEF FieldReason
<1> QED
  BY <1>1, <1>2 DEF validateSpokePayload

\* Every step keeps the invariant.
LEMMA PushPathStep == PushPathInv /\ [PushPathNext]_pushVars => PushPathInv'
<1> SUFFICES ASSUME PushPathInv, [PushPathNext]_pushVars PROVE PushPathInv'
  OBVIOUS
<1>1. CASE Discover
  <2>1. PICK f \in Fields, t \in Raw, version \in BOOLEAN :
           /\ payload'.from = "spoke" /\ payload'.field = f /\ payload'.text = Walked(f, t, version)
           /\ payload.from = "nobody" /\ UNCHANGED <<verdict, restored>>
    BY <1>1, SMTT(30) DEF Discover
  <2>2. verdict' # "ok" /\ restored' # "discarded"
    BY <2>1 DEF PushPathInv
  <2> QED
    BY <2>1, <2>2, WalkedFits DEF PushPathInv, validateSnapshotFields
<1>2. CASE ForeignPush
  <2>1. PICK f \in Fields, t \in Raw :
           /\ payload'.from = "elsewhere" /\ payload'.field = f /\ payload'.text = t
           /\ payload.from = "nobody" /\ UNCHANGED <<verdict, restored>>
    BY <1>2, SMTT(30) DEF ForeignPush
  <2>2. verdict' # "ok" /\ restored' # "discarded" /\ t.len \in Nat
    BY <2>1, RawAssumption DEF PushPathInv
  <2> QED
    BY <2>1, <2>2 DEF PushPathInv
<1>3. CASE Answer
  <2>1. verdict' = validateSpokePayload(payload) /\ UNCHANGED <<payload, restored>> /\ payload.from # "nobody" /\ verdict = "none"
    BY <1>3 DEF Answer
  <2>2. verdict' = "ok" => validateField(payload.field, payload.text)
    BY <2>1, OkIsChecked DEF PushPathInv
  <2> QED
    BY <2>1, <2>2 DEF PushPathInv
<1>4. CASE LoadAfterRestart
  BY <1>4 DEF LoadAfterRestart, PushPathInv
<1>5. CASE Settled
  BY <1>5 DEF Settled, PushPathInv
<1>6. CASE UNCHANGED pushVars
  BY <1>6 DEF pushVars, PushPathInv
<1> QED
  BY <1>1, <1>2, <1>3, <1>4, <1>5, <1>6 DEF PushPathNext

\* A graph the hub accepted survives its restart, for texts of any length: the loader
\* discards none but by the seven tighter caps, and none of a spoke's own discovery.
THEOREM RestartKeepsAccepted == PushPathSpec => []AcceptedIsLoadable
<1>1. PushPathInit => PushPathInv
  BY SMT DEF PushPathInit, PushPathInv
<1>2. PushPathInv => AcceptedIsLoadable
  <2> SUFFICES ASSUME PushPathInv PROVE AcceptedIsLoadable
    OBVIOUS
  <2>1. ASSUME restored = "discarded" PROVE payload.field \in Tighter
    <3>1. /\ payload.field \in Fields /\ payload.text.len \in Nat
          /\ payload.text.len <= PushCap(payload.field) /\ ~(payload.text.len <= SnapshotCap(payload.field))
      BY <2>1 DEF PushPathInv, validateField, validateSnapshotFields
    <3> QED
      BY <3>1, CapsAgree
  <2> QED
    BY <2>1 DEF PushPathInv, AcceptedIsLoadable, Tighter
<1> QED
  BY <1>1, <1>2, PushPathStep, PTL DEF PushPathSpec

-----------------------------------------------------------------------------
(* PushPath: why a push is refused                                         *)

\* The devices of a payload have different names: DeduplicateDevices keeps one of each.
LEMMA DevicesAreDistinct ==
    ASSUME NEW s \in Seq(Nat), NEW k \in DOMAIN DeduplicateDevices(s), NEW l \in DOMAIN DeduplicateDevices(s), k # l
    PROVE  DeduplicateDevices(s)[k] # DeduplicateDevices(s)[l]
<1> DEFINE at == {i \in DOMAIN s : \A j \in 1..(i - 1) : s[j] # s[i]}
           Place(n) == CHOOSE i \in at : Cardinality({j \in at : j <= i}) = n
<1>1. Len(s) \in Nat /\ at \in SUBSET (1..Len(s))
  BY LenProperties
<1>2. DeduplicateDevices(s) = [n \in 1..Cardinality(at) |-> s[Place(n)]]
  BY DEF DeduplicateDevices, Kept
<1>3. ASSUME NEW n \in 1..Cardinality(at)
      PROVE  Place(n) \in at /\ Cardinality({j \in at : j <= Place(n)}) = n
  <2>1. \E i \in at : Cardinality({j \in at : j <= i}) = n
    <3> HIDE DEF at
    <3> QED
      BY <1>1, KthPlace
  <2> QED
    BY <2>1
<1>4. \A p, q \in at : p < q => s[p] # s[q]
  BY <1>1, SMTT(30)
<1> HIDE DEF at, Place
<1>5. k \in 1..Cardinality(at) /\ l \in 1..Cardinality(at)
  BY <1>2
<1>6. Place(k) \in at /\ Place(l) \in at /\ Place(k) # Place(l)
  BY <1>3, <1>5
<1>7. Place(k) \in 1..Len(s) /\ Place(l) \in 1..Len(s)
  BY <1>1, <1>6
<1>8. s[Place(k)] # s[Place(l)]
  <2>1. Place(k) < Place(l) \/ Place(l) < Place(k)
    BY <1>1, <1>6, <1>7, SMTT(20)
  <2> QED
    BY <1>4, <1>6, <2>1
<1> QED
  BY <1>2, <1>5, <1>8

\* What a walker makes of an answer passes the hub's check of the field, unless it is the
\* start of a sysDescr, which normalizeSysDescr copies as it is.
LEMMA WalkedPasses ==
    ASSUME NEW f \in Fields, NEW t \in Raw, NEW version \in BOOLEAN
    PROVE  \/ validateField(f, Walked(f, t, version))
           \/ f = "os_version" /\ Walked(f, t, version).control
<1> DEFINE w == Walked(f, t, version)
<1> USE DEF MaxDeviceIDBytes, MaxPortNameBytes, MaxLabelKeyBytes, MaxLabelValueBytes, maxShortFieldBytes, maxProtoBytes
<1>1. w.len \in Nat /\ w.len <= SnapshotCap(f)
  BY WalkedFits
<1>2. SnapshotCap(f) <= PushCap(f) /\ PushCap(f) <= MaxLabelValueBytes /\ SnapshotCap(f) \in Nat /\ PushCap(f) \in Nat
  <2>1. CASE f \in {"proto", "link_kind", "oos_proto"}
    BY <2>1, SMTT(30) DEF PushCap, SnapshotCap
  <2>2. CASE f \in {"vendor", "model", "os_version", "site"}
    BY <2>2, SMTT(30) DEF PushCap, SnapshotCap
  <2>3. CASE f \notin Tighter
    <3>1. PushCap(f) = SnapshotCap(f)
      BY <2>3, CapsAgree
    <3>2. PushCap(f) \in {256, 4096}
      BY SMTT(30) DEF PushCap
    <3> QED
      BY <3>1, <3>2, SMTT(30)
  <2> QED
    BY <2>1, <2>2, <2>3, SMTT(20) DEF Tighter
<1>3. f # "os_version" => w.control = FALSE
  BY DEF Walked, NormaliseName, SanitisePortName, Shorter, Text, Plain
<1>4. w.len <= PushCap(f) /\ w.len <= MaxLabelValueBytes
  <2> HIDE DEF w
  <2> QED
    BY <1>1, <1>2, SMTT(30)
<1>5. w.control \/ validateField(f, w)
  <2> HIDE DEF w, MaxLabelValueBytes
  <2> QED
    BY <1>4 DEF validateField
<1>6. w.control => f = "os_version"
  BY <1>3
<1> QED
  BY <1>5, <1>6

\* A payload without two devices of a name, a nameless device, a misshapen edge and an
\* odd text that fails its check is accepted.
LEMMA FlawlessIsOk ==
    ASSUME NEW p, \A i, j \in DOMAIN p.devices : i < j => p.devices[i] # p.devices[j],
           0 \notin Range(p.devices), \A e \in p.edges : EdgeShape(e), validateField(p.field, p.text)
    PROVE  validateSpokePayload(p) = "ok"
  BY DEF validateSpokePayload

\* What a spoke's payload is known to be before the hub looks at it.
RefusalInv ==
    /\ payload.from = "spoke" =>
          /\ \A i, j \in DOMAIN payload.devices : i < j => payload.devices[i] # payload.devices[j]
          /\ \/ validateField(payload.field, payload.text)
             \/ payload.field = "os_version" /\ payload.text.control
    /\ verdict # "none" => payload.from # "nobody" /\ verdict = validateSpokePayload(payload)

\* Every step keeps it.
LEMMA RefusalStep == PushPathInv /\ RefusalInv /\ [PushPathNext]_pushVars => RefusalInv'
<1> SUFFICES ASSUME PushPathInv, RefusalInv, [PushPathNext]_pushVars PROVE RefusalInv'
  OBVIOUS
<1>1. CASE Discover
  <2>1. PICK inventory \in Inventories, f \in Fields, t \in Raw, version \in BOOLEAN :
           /\ payload'.devices = DeduplicateDevices(inventory)
           /\ payload'.field = f /\ payload'.text = Walked(f, t, version)
    BY <1>1, SMTT(30) DEF Discover
  <2>2. payload.from = "nobody" /\ verdict' = verdict
    BY <1>1 DEF Discover
  <2>3. inventory \in Seq(Nat)
    BY <2>1, InventoryAssumption
  <2>4. \A i, j \in DOMAIN payload'.devices : i # j => payload'.devices[i] # payload'.devices[j]
    BY <2>1, <2>3, DevicesAreDistinct
  <2>5. \A i, j \in DOMAIN payload'.devices : i < j => i # j
    <3>1. DOMAIN payload'.devices = 1..Cardinality({i \in DOMAIN inventory : \A j \in 1..(i - 1) : inventory[j] # inventory[i]})
      BY <2>1 DEF DeduplicateDevices, Kept
    <3> QED
      BY <3>1, SMTT(30)
  <2>6. validateField(f, Walked(f, t, version)) \/ (f = "os_version" /\ Walked(f, t, version).control)
    BY <2>1, WalkedPasses
  <2> QED
    BY <2>1, <2>2, <2>4, <2>5, <2>6 DEF RefusalInv
<1>2. CASE ForeignPush
  <2>1. payload'.from = "elsewhere" /\ payload.from = "nobody" /\ verdict' = verdict
    BY <1>2, SMTT(30) DEF ForeignPush
  <2> QED
    BY <2>1 DEF RefusalInv
<1>3. CASE Answer
  BY <1>3 DEF Answer, RefusalInv
<1>4. CASE LoadAfterRestart
  BY <1>4 DEF LoadAfterRestart, RefusalInv
<1>5. CASE Settled
  BY <1>5 DEF Settled, RefusalInv
<1>6. CASE UNCHANGED pushVars
  BY <1>6 DEF pushVars, RefusalInv
<1> QED
  BY <1>1, <1>2, <1>3, <1>4, <1>5, <1>6 DEF PushPathNext

\* Nothing else of a spoke's own discovery is ever refused, for any walks, inventories
\* and answers: no name is sent twice, and what the walkers cut fits the hub's caps.
THEOREM RefusalsHaveCauses == PushPathSpec => []RefusedForCause
<1>1. PushPathInit => PushPathInv /\ RefusalInv
  BY SMTT(30) DEF PushPathInit, PushPathInv, RefusalInv
<1>2. RefusalInv => RefusedForCause
  <2> SUFFICES ASSUME RefusalInv, payload.from = "spoke", verdict \notin {"none", "ok"},
                      0 \notin Range(payload.devices), \A e \in payload.edges : EdgeShape(e),
                      ~(payload.field = "os_version" /\ payload.text.control)
               PROVE  FALSE
    BY DEF RefusedForCause
  <2>1. validateSpokePayload(payload) = "ok"
    BY FlawlessIsOk DEF RefusalInv
  <2> QED
    BY <2>1 DEF RefusalInv
<1> QED
  BY <1>1, <1>2, PushPathStep, RefusalStep, PTL DEF PushPathSpec
=============================================================================
