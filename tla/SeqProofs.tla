----------------------------- MODULE SeqProofs -----------------------------
(***************************************************************************)
(* Lemmas about numbers and sequences that the proofs of several modules   *)
(* use.  Induction is by the least counterexample.                         *)
(***************************************************************************)
EXTENDS Places, FiniteSetsExt, FiniteSetTheorems, SequenceTheorems, WellFoundedInduction, TLAPS

\* A leaf that names no prover is for Zenon; SMT has those with numbers or sequences.
USE ZenonT(60)

\* A set of naturals that is not empty has a least element.
LEMMA LeastElement ==
    ASSUME NEW T \in SUBSET Nat, T # {}
    PROVE  \E m \in T : \A n \in T : m <= n
<1> DEFINE R == OpToRel(<, Nat)
<1>1. IsWellFoundedOn(R, Nat)
  BY NatLessThanWellFounded
<1>2. \A x, y \in Nat : <<y, x>> \in R <=> y < x
  BY DEF OpToRel
<1> HIDE DEF R
<1>3. PICK m \in T : \A n \in T : ~(<<n, m>> \in R)
  BY <1>1, WFMin
<1>4. \A n \in T : ~(n < m) /\ n \in Nat /\ m \in Nat
  BY <1>2, <1>3
<1> QED
  BY <1>4, SMT

\* A set of places that is not empty has a first.
LEMMA MinIsIn ==
    ASSUME NEW at \in SUBSET Nat, at # {}
    PROVE  Min(at) \in at
<1>1. \E m \in at : \A n \in at : m <= n
  BY LeastElement
<1> QED
  BY <1>1 DEF Min

\* A finite set of places that is not empty has a last.
LEMMA MaxIsIn ==
    ASSUME NEW b \in Nat, NEW at \in SUBSET (1..b), at # {}
    PROVE  Max(at) \in at
<1> DEFINE down == {b - i : i \in at}
<1>1. PICK d \in down : \A e \in down : d <= e
  <2>1. \A i \in at : b - i \in Nat
    BY SMT
  <2>2. down \in SUBSET Nat /\ down # {}
    BY <2>1
  <2> HIDE DEF down
  <2> QED
    BY <2>2, LeastElement
<1>2. PICK m \in at : d = b - m
  OBVIOUS
<1>3. \A i \in at : i <= m
  <2> SUFFICES ASSUME NEW i \in at PROVE i <= m
    OBVIOUS
  <2>1. b - m <= b - i
    BY <1>1, <1>2
  <2>2. i \in 1..b /\ m \in 1..b
    OBVIOUS
  <2> QED
    BY <2>1, <2>2, SMT
<1>4. \E x \in at : \A y \in at : x >= y
  BY <1>2, <1>3
<1> QED
  BY <1>4 DEF Max

\* An injection of an interval into itself reaches every place of it.
LEMMA InjectiveIsOnto ==
    ASSUME NEW n \in Nat, NEW p \in [1..n -> 1..n], IsInjective(p)
    PROVE  \A i \in 1..n : \E j \in 1..n : p[j] = i
<1>1. IsFiniteSet(1..n)
  BY FS_Interval, SMT
<1>2. p \in Injection(1..n, 1..n)
  BY DEF Injection
<1>3. p \in Surjection(1..n, 1..n)
  BY <1>1, <1>2, FS_Injection
<1> QED
  BY <1>3 DEF Surjection

\* Among finitely many places there is a k-th one, for every k up to their number.
LEMMA KthPlace ==
    ASSUME NEW b \in Nat, NEW at \in SUBSET (1..b), NEW k \in 1..Cardinality(at)
    PROVE  \E i \in at : Cardinality({j \in at : j <= i}) = k
<1> DEFINE Kth(T, n) == \E i \in T : Cardinality({j \in T : j <= i}) = n
           Wrong == {c \in Nat : \E T \in SUBSET (1..c) : \E n \in 1..Cardinality(T) : ~Kth(T, n)}
<1>1. ASSUME NEW c \in Nat, c \in Wrong, \A d \in Wrong : c <= d PROVE FALSE
  <2>1. PICK T \in SUBSET (1..c) : \E n \in 1..Cardinality(T) : ~Kth(T, n)
    BY <1>1
  <2>2. PICK n \in 1..Cardinality(T) : ~Kth(T, n)
    BY <2>1
  <2>3. IsFiniteSet(T) /\ Cardinality(T) \in Nat
    <3>1. IsFiniteSet(1..c)
      BY FS_Interval, SMT
    <3> QED
      BY <3>1, FS_Subset, FS_CardinalityType
  <2>4. c # 0
    <3> SUFFICES ASSUME c = 0 PROVE FALSE
      OBVIOUS
    <3>1. T = {}
      BY SMT
    <3> QED
      BY <2>2, <3>1, FS_EmptySet, SMT
  <2>5. c - 1 \in Nat /\ c - 1 \notin Wrong
    <3> HIDE DEF Wrong
    <3> QED
      BY <1>1, <2>4, SMT
  <2> DEFINE S == T \ {c}
  <2>6. S \in SUBSET (1..(c - 1))
    BY SMT
  <2>7. \A m \in 1..Cardinality(S) : Kth(S, m)
    <3> HIDE DEF S, Kth
    <3> QED
      BY <2>5, <2>6
  <2>8. IsFiniteSet(S) /\ Cardinality(S) = IF c \in T THEN Cardinality(T) - 1 ELSE Cardinality(T)
    BY <2>3, FS_RemoveElement
  <2>9. ASSUME NEW i \in S PROVE {j \in S : j <= i} = {j \in T : j <= i}
    BY <2>6, SMT
  <2>10. CASE c \notin T \/ n # Cardinality(T)
    <3>1. n \in 1..Cardinality(S)
      BY <2>2, <2>3, <2>8, <2>10, SMTT(30)
    <3>2. PICK i \in S : Cardinality({j \in S : j <= i}) = n
      BY <2>7, <3>1
    <3> QED
      BY <2>2, <2>9, <3>2
  <2>11. CASE c \in T /\ n = Cardinality(T)
    <3>1. {j \in T : j <= c} = T
      <4>1. \A j \in T : j <= c
        BY SMT
      <4> QED
        BY <4>1
    <3> QED
      BY <2>2, <2>11, <3>1
  <2> QED
    BY <2>10, <2>11
<1>2. Wrong \in SUBSET Nat
  OBVIOUS
<1>3. Wrong = {}
  <2> HIDE DEF Wrong
  <2> QED
    BY <1>1, <1>2, LeastElement
<1>4. Kth(at, k)
  <2> HIDE DEF Kth
  <2> QED
    BY <1>3
<1> QED
  BY <1>4

\* What Kept keeps is a sequence of the elements at the places given.
LEMMA KeptIsSeq ==
    ASSUME NEW S, NEW V, NEW s \in Seq(S), NEW at \in SUBSET (DOMAIN s), \A i \in at : s[i] \in V
    PROVE  Kept(s, at) \in Seq(V)
<1>1. Len(s) \in Nat /\ at \in SUBSET (1..Len(s))
  BY LenProperties
<1>2. Cardinality(at) \in Nat
  <2>1. IsFiniteSet(1..Len(s))
    BY <1>1, FS_Interval, SMT
  <2> QED
    BY <1>1, <2>1, FS_Subset, FS_CardinalityType
<1> DEFINE Place(k) == CHOOSE i \in at : Cardinality({j \in at : j <= i}) = k
<1>3. ASSUME NEW k \in 1..Cardinality(at) PROVE Place(k) \in at
  BY <1>1, KthPlace
<1>4. Kept(s, at) = [k \in 1..Cardinality(at) |-> s[Place(k)]]
  BY DEF Kept
<1> HIDE DEF Place
<1>5. Kept(s, at) \in [1..Cardinality(at) -> V]
  BY <1>3, <1>4
<1> QED
  BY <1>2, <1>5, SeqDef

-----------------------------------------------------------------------------
(* FlattenSeq                                                              *)

\* Two sequences joined have the elements of both.
LEMMA ConcatHasBoth ==
    ASSUME NEW S, NEW s \in Seq(S), NEW t \in Seq(S)
    PROVE  s \o t \in Seq(S) /\ Range(s \o t) = Range(s) \cup Range(t)
<1> DEFINE m == Len(s)
           n == Len(t)
<1>1. m \in Nat /\ n \in Nat /\ DOMAIN s = 1..m /\ DOMAIN t = 1..n
  BY SMT
<1>2. s \o t \in Seq(S) /\ DOMAIN (s \o t) = 1..(m + n)
  BY SMT
<1>3. \A i \in 1..(m + n) : (s \o t)[i] = IF i <= m THEN s[i] ELSE t[i - m]
  BY SMT
<1> DEFINE u == s \o t
<1> HIDE DEF u
<1>4. ASSUME NEW x \in Range(u) PROVE x \in Range(s) \/ x \in Range(t)
  <2>1. PICK i \in 1..(m + n) : x = u[i]
    BY <1>2 DEF Range, u
  <2>2. i <= m => i \in 1..m
    BY <1>1, SMT
  <2>3. ~(i <= m) => i - m \in 1..n
    BY <1>1, SMT
  <2> QED
    BY <1>1, <1>3, <2>1, <2>2, <2>3 DEF Range, u
<1>5. ASSUME NEW x \in Range(s) PROVE x \in Range(u)
  <2>1. PICK i \in 1..m : x = s[i]
    BY <1>1 DEF Range
  <2>2. i \in 1..(m + n) /\ i <= m
    BY <1>1, SMT
  <2>3. u[i] = x
    BY <1>3, <2>1, <2>2 DEF u
  <2> QED
    BY <1>2, <2>2, <2>3 DEF Range, u
<1>6. ASSUME NEW x \in Range(t) PROVE x \in Range(u)
  <2>1. PICK i \in 1..n : x = t[i]
    BY <1>1 DEF Range
  <2>2. m + i \in 1..(m + n) /\ ~(m + i <= m) /\ (m + i) - m = i
    BY <1>1, SMT
  <2>3. u[m + i] = x
    BY <1>3, <2>1, <2>2 DEF u
  <2> QED
    BY <1>2, <2>2, <2>3 DEF Range, u
<1>7. Range(u) = Range(s) \cup Range(t)
  BY <1>4, <1>5, <1>6
<1> QED
  BY <1>2, <1>7 DEF u

\* Its recursive function exists.
LEMMA FlattenExists ==
    ASSUME NEW S, NEW seqs \in Seq(Seq(S)), NEW n \in 0..Len(seqs)
    PROVE  \E f : f = [i \in 1..n |-> IF i = 1 THEN seqs[i] ELSE f[i - 1] \o seqs[i]]
<1> DEFINE Is(f, m) == f = [i \in 1..m |-> IF i = 1 THEN seqs[i] ELSE f[i - 1] \o seqs[i]]
           Wrong == {m \in 0..Len(seqs) : ~\E f : Is(f, m)}
<1>1. Len(seqs) \in Nat
  BY SMT
<1>2. ASSUME NEW m \in Wrong, \A d \in Wrong : m <= d PROVE FALSE
  <2>1. m \in 0..Len(seqs) /\ ~\E f : Is(f, m)
    OBVIOUS
  <2>2. m # 0
    <3>1. Is([i \in 1..0 |-> 0], 0)
      BY SMT
    <3> QED
      BY <2>1, <3>1
  <2>3. m - 1 \in 0..Len(seqs) /\ m \in Nat /\ m - 1 \in Nat
    BY <1>1, <2>1, <2>2, SMT
  <2>4. \E f : Is(f, m - 1)
    <3>1. m - 1 \notin Wrong
      <4> HIDE DEF Wrong
      <4>1. ~(m <= m - 1)
        BY <2>3, SMT
      <4> QED
        BY <1>2, <4>1
    <3> QED
      BY <2>3, <3>1
  <2>5. PICK f : Is(f, m - 1)
    BY <2>4
  <2> DEFINE g == [i \in 1..m |-> IF i = m THEN (IF m = 1 THEN seqs[m] ELSE f[m - 1] \o seqs[m]) ELSE f[i]]
  <2>6. \A i \in 1..m : g[i] = IF i = 1 THEN seqs[i] ELSE g[i - 1] \o seqs[i]
    <3> SUFFICES ASSUME NEW i \in 1..m PROVE g[i] = IF i = 1 THEN seqs[i] ELSE g[i - 1] \o seqs[i]
      OBVIOUS
    <3>1. CASE i = m
      <4>1. m # 1 => m - 1 \in 1..m /\ g[m - 1] = f[m - 1]
        BY <2>3, SMT
      <4> QED
        BY <3>1, <4>1
    <3>2. CASE i # m
      <4>1. i \in 1..(m - 1) /\ (i # 1 => i - 1 \in 1..m /\ i - 1 # m)
        BY <2>3, <3>2, SMT
      <4>2. f[i] = IF i = 1 THEN seqs[i] ELSE f[i - 1] \o seqs[i]
        BY <2>5, <4>1
      <4>3. g[i] = f[i] /\ (i # 1 => g[i - 1] = f[i - 1])
        BY <3>2, <4>1
      <4> QED
        BY <4>2, <4>3
    <3> QED
      BY <3>1, <3>2
  <2>7. g = [i \in 1..m |-> g[i]]
    OBVIOUS
  <2> HIDE DEF g
  <2>8. Is(g, m)
    BY <2>6, <2>7
  <2> QED
    BY <2>1, <2>8
<1>3. Wrong \in SUBSET Nat
  <2>1. Wrong \subseteq 0..Len(seqs)
    OBVIOUS
  <2> HIDE DEF Wrong
  <2> QED
    BY <1>1, <2>1, SMT
<1>4. Wrong = {}
  <2> HIDE DEF Wrong
  <2> QED
    BY <1>2, <1>3, LeastElement
<1> QED
  BY <1>4

\* Flattening sequences over S gives a sequence over S with the elements of all of them.
LEMMA FlattenIsSeq ==
    ASSUME NEW S, NEW seqs \in Seq(Seq(S))
    PROVE  FlattenSeq(seqs) \in Seq(S) /\ Range(FlattenSeq(seqs)) = UNION {Range(seqs[j]) : j \in 1..Len(seqs)}
<1>1. Len(seqs) \in Nat
  BY SMT
<1>2. CASE Len(seqs) = 0
  <2>1. seqs = <<>>
    BY <1>2, EmptySeq
  <2> QED
    BY <1>2, <2>1, SMT DEF FlattenSeq, Range
<1>3. CASE Len(seqs) # 0
  <2> DEFINE F == CHOOSE f : f = [i \in 1..Len(seqs) |-> IF i = 1 THEN seqs[i] ELSE f[i - 1] \o seqs[i]]
             All(i) == UNION {Range(seqs[j]) : j \in 1..i}
             Wrong == {i \in 1..Len(seqs) : ~(F[i] \in Seq(S) /\ Range(F[i]) = All(i))}
  <2>1. F = [i \in 1..Len(seqs) |-> IF i = 1 THEN seqs[i] ELSE F[i - 1] \o seqs[i]]
    <3>1. Len(seqs) \in 0..Len(seqs)
      BY <1>1, SMT
    <3>2. \E f : f = [i \in 1..Len(seqs) |-> IF i = 1 THEN seqs[i] ELSE f[i - 1] \o seqs[i]]
      BY <3>1, FlattenExists
    <3> QED
      BY <3>2
  <2>2. FlattenSeq(seqs) = F[Len(seqs)]
    BY <1>3 DEF FlattenSeq
  <2> HIDE DEF F
  <2>3. ASSUME NEW m \in Wrong, \A d \in Wrong : m <= d PROVE FALSE
    <3>1. m \in 1..Len(seqs) /\ ~(F[m] \in Seq(S) /\ Range(F[m]) = All(m)) /\ seqs[m] \in Seq(S)
      BY ElementOfSeq
    <3>2. CASE m = 1
      <4>1. F[m] = seqs[m]
        BY <2>1, <3>1, <3>2
      <4>2. 1..m = {m}
        BY <3>2, SMT
      <4>3. All(m) = Range(seqs[m])
        BY <4>2
      <4> QED
        BY <3>1, <4>1, <4>3
    <3>3. CASE m # 1
      <4>1. m - 1 \in 1..Len(seqs) /\ ~(m <= m - 1)
        BY <1>1, <3>1, <3>3, SMTT(30)
      <4>2. F[m - 1] \in Seq(S) /\ Range(F[m - 1]) = All(m - 1)
        <5>1. m - 1 \notin Wrong
          BY <2>3, <4>1
        <5> QED
          BY <4>1, <5>1
      <4>3. F[m] = F[m - 1] \o seqs[m]
        BY <2>1, <3>1, <3>3
      <4>4. 1..m = (1..(m - 1)) \cup {m}
        BY <3>1, <3>3, SMTT(30)
      <4>5. All(m) = All(m - 1) \cup Range(seqs[m])
        BY <4>4
      <4> HIDE DEF All
      <4>6. F[m] \in Seq(S) /\ Range(F[m]) = Range(F[m - 1]) \cup Range(seqs[m])
        BY <3>1, <4>2, <4>3, ConcatHasBoth, SMTT(30)
      <4> QED
        BY <3>1, <4>2, <4>5, <4>6
    <3> QED
      BY <3>2, <3>3
  <2>4. Wrong \in SUBSET Nat
    <3>1. Wrong \subseteq 1..Len(seqs)
      OBVIOUS
    <3> HIDE DEF Wrong
    <3> QED
      BY <1>1, <3>1, SMT
  <2>5. Wrong = {}
    <3> HIDE DEF Wrong
    <3> QED
      BY <2>3, <2>4, LeastElement
  <2>6. Len(seqs) \in 1..Len(seqs)
    BY <1>1, <1>3, SMT
  <2> QED
    BY <2>2, <2>5, <2>6
<1> QED
  BY <1>2, <1>3

-----------------------------------------------------------------------------
(* The elements of a sequence                                              *)

\* The image of a finite set is finite.
LEMMA ImageIsFinite ==
    ASSUME NEW S, IsFiniteSet(S), NEW f, DOMAIN f = S
    PROVE  IsFiniteSet({f[x] : x \in S})
<1> DEFINE T == {f[x] : x \in S}
           g == [x \in S |-> f[x]]
<1>1. g \in Surjection(S, T)
  BY DEF Surjection
<1> QED
  BY <1>1, FS_Surjection

\* A sequence has finitely many elements.
LEMMA ElementsAreFinite ==
    ASSUME NEW S, NEW s \in Seq(S)
    PROVE  IsFiniteSet(Range(s)) /\ Range(s) \subseteq S /\ Range(s) = {s[i] : i \in 1..Len(s)}
<1>1. DOMAIN s = 1..Len(s) /\ Len(s) \in Nat
  BY SMT
<1>2. IsFiniteSet(1..Len(s))
  BY <1>1, FS_Interval, SMT
<1> QED
  BY <1>1, <1>2, ImageIsFinite, ElementOfSeq DEF Range

\* A finite set in a sequence, in some order.
LEMMA SetToSeqIsSeq ==
    ASSUME NEW S, IsFiniteSet(S)
    PROVE  SetToSeq(S) \in Seq(S) /\ Range(SetToSeq(S)) = S
<1> DEFINE n == Cardinality(S)
           f == SetToSeq(S)
<1>1. n \in Nat /\ ExistsBijection(1..n, S)
  BY FS_CardinalityType
<1>2. PICK b : b \in Bijection(1..n, S)
  BY <1>1 DEF ExistsBijection
<1>3. b \in [1..n -> S] /\ IsInjective(b)
  BY <1>2 DEF Bijection, Injection, IsInjective
<1>4. f \in [1..n -> S] /\ IsInjective(f)
  BY <1>3 DEF SetToSeq
<1> HIDE DEF f
<1>5. f \in Injection(1..n, S)
  BY <1>4 DEF Injection
<1>6. Cardinality(1..n) = n
  BY <1>1, FS_Interval, SMT
<1>7. f \in Surjection(1..n, S)
  BY <1>5, <1>6, FS_Injection
<1>8. f \in Seq(S)
  BY <1>1, <1>4, SeqDef
<1>9. DOMAIN f = 1..n
  BY <1>4
<1>10. Range(f) = S
  BY <1>4, <1>7, <1>9 DEF Range, Surjection
<1> QED
  BY <1>8, <1>10 DEF f

-----------------------------------------------------------------------------
(* Parts of a sequence                                                     *)

\* FlattenSeq one sequence at a time.
LEMMA FlattenAppend ==
    ASSUME NEW S, NEW seqs \in Seq(Seq(S)), NEW x \in Seq(S)
    PROVE  FlattenSeq(Append(seqs, x)) = FlattenSeq(seqs) \o x
<1> DEFINE n == Len(seqs)
           more == Append(seqs, x)
           F(ss) == CHOOSE f : f = [i \in 1..Len(ss) |-> IF i = 1 THEN ss[i] ELSE f[i - 1] \o ss[i]]
<1>1. /\ n \in Nat /\ more \in Seq(Seq(S)) /\ Len(more) = n + 1
      /\ \A i \in 1..n : more[i] = seqs[i]
      /\ more[n + 1] = x
  BY AppendProperties, SMT
<1> HIDE DEF more
<1>2. ASSUME NEW ss \in Seq(Seq(S))
      PROVE  F(ss) = [i \in 1..Len(ss) |-> IF i = 1 THEN ss[i] ELSE F(ss)[i - 1] \o ss[i]]
  <2>1. Len(ss) \in 0..Len(ss)
    BY SMT
  <2>2. \E f : f = [i \in 1..Len(ss) |-> IF i = 1 THEN ss[i] ELSE f[i - 1] \o ss[i]]
    BY <2>1, FlattenExists
  <2> QED
    BY <2>2
<1>3. ASSUME NEW ss \in Seq(Seq(S)), Len(ss) # 0 PROVE FlattenSeq(ss) = F(ss)[Len(ss)]
  BY <1>3 DEF FlattenSeq
<1> DEFINE f == F(seqs)
           g == F(more)
<1>4. \A i \in 1..n : f[i] = IF i = 1 THEN seqs[i] ELSE f[i - 1] \o seqs[i]
  <2>1. f = [i \in 1..n |-> IF i = 1 THEN seqs[i] ELSE f[i - 1] \o seqs[i]]
    BY <1>2
  <2> HIDE DEF F
  <2> QED
    BY <2>1
<1>5. \A i \in 1..(n + 1) : g[i] = IF i = 1 THEN more[i] ELSE g[i - 1] \o more[i]
  <2>1. g = [i \in 1..(n + 1) |-> IF i = 1 THEN more[i] ELSE g[i - 1] \o more[i]]
    BY <1>1, <1>2
  <2> HIDE DEF F
  <2> QED
    BY <2>1
<1> HIDE DEF F
<1> DEFINE Wrong == {i \in 1..n : g[i] # f[i]}
<1>6. ASSUME NEW m \in Wrong, \A d \in Wrong : m <= d PROVE FALSE
  <2>1. m \in 1..n /\ g[m] # f[m]
    OBVIOUS
  <2>2. m # 1 => m - 1 \in 1..n /\ ~(m <= m - 1)
    BY <1>1, <2>1, SMT
  <2>3. m # 1 => g[m - 1] = f[m - 1]
    BY <1>6, <2>2
  <2>4. m \in 1..(n + 1) /\ more[m] = seqs[m]
    BY <1>1, <2>1, SMT
  <2> QED
    BY <1>4, <1>5, <2>1, <2>3, <2>4, SMTT(30)
<1>7. Wrong = {}
  <2>1. Wrong \in SUBSET Nat
    <3>1. Wrong \subseteq 1..n
      OBVIOUS
    <3> HIDE DEF Wrong
    <3> QED
      BY <1>1, <3>1, SMT
  <2> HIDE DEF Wrong
  <2> QED
    BY <1>6, <2>1, LeastElement
<1>8. FlattenSeq(more) = g[n + 1]
  BY <1>1, <1>3, SMT
<1>9. CASE n = 0
  <2>1. seqs = <<>> /\ FlattenSeq(seqs) = <<>>
    BY <1>9, EmptySeq DEF FlattenSeq
  <2>2. g[n + 1] = x
    BY <1>1, <1>5, <1>9, SMTT(30)
  <2>3. <<>> \o x = x
    BY ConcatEmptySeq
  <2> QED
    BY <1>8, <2>1, <2>2, <2>3 DEF more
<1>10. CASE n # 0
  <2>1. n \in 1..n /\ n + 1 \in 1..(n + 1) /\ n + 1 # 1 /\ (n + 1) - 1 = n
    BY <1>1, <1>10, SMTT(30)
  <2>2. g[n] = f[n]
    BY <1>7, <2>1
  <2>3. g[n + 1] = f[n] \o x
    BY <1>1, <1>5, <2>1, <2>2
  <2>4. FlattenSeq(seqs) = f[n]
    BY <1>3, <1>10
  <2> QED
    BY <1>8, <2>3, <2>4 DEF more
<1> QED
  BY <1>9, <1>10

LEMMA ConcatOne ==
    ASSUME NEW S, NEW c \in S, NEW s \in Seq(S), NEW t \in Seq(S)
    PROVE  (<<c>> \o s) \o t = <<c>> \o (s \o t)
<1> DEFINE one == <<c>>
<1>1. one \in Seq(S)
  BY SMT
<1> HIDE DEF one
<1>2. (one \o s) \o t = one \o (s \o t)
  BY <1>1, ConcatAssociative, SMTT(60)
<1> QED
  BY <1>2 DEF one

Joins(z, x, y) == z = x \o y

\* The places of the separators.
BarsOf(s, bar) == {i \in DOMAIN s : s[i] = bar}

\* Another part, after a separator.
LEMMA PartAdded ==
    ASSUME NEW M, NEW s \in Seq(M), NEW e \in Seq(M), NEW bar \in M, bar \notin Range(e),
           NEW t, Joins(t, s \o <<bar>>, e)
    PROVE  /\ t \in Seq(M) /\ Len(t) = Len(s) + 1 + Len(e)
           /\ \A i \in 1..Len(s) : t[i] = s[i]
           /\ BarsOf(t, bar) = BarsOf(s, bar) \cup {Len(s) + 1}
           /\ SubSeq(t, Len(s) + 2, Len(t)) = e
<1> DEFINE n == Len(s)
           m == Len(e)
           one == <<bar>>
           u == s \o one
<1>1. n \in Nat /\ m \in Nat /\ DOMAIN s = 1..n /\ DOMAIN e = 1..m
  BY SMT
<1>2. one \in Seq(M) /\ Len(one) = 1 /\ one[1] = bar
  BY SMT
<1> HIDE DEF one
<1>3. /\ u \in Seq(M) /\ Len(u) = n + 1
      /\ \A i \in 1..(n + 1) : u[i] = IF i <= n THEN s[i] ELSE one[i - n]
  <2>1. /\ u \in Seq(M) /\ Len(u) = Len(s) + Len(one)
        /\ \A i \in 1..(Len(s) + Len(one)) : u[i] = IF i <= Len(s) THEN s[i] ELSE one[i - Len(s)]
    BY <1>2, ConcatProperties
  <2> HIDE DEF u
  <2> QED
    BY <1>2, <2>1
<1>4. u[n + 1] = bar /\ \A i \in 1..n : u[i] = s[i]
  <2>1. n + 1 \in 1..(n + 1) /\ ~(n + 1 <= n) /\ (n + 1) - n = 1
    BY <1>1, SMT
  <2> QED
    BY <1>1, <1>2, <1>3, <2>1, SMT
<1>5. t = u \o e
  BY DEF Joins, one
<1> HIDE DEF u
<1>6. /\ t \in Seq(M) /\ Len(t) = (n + 1) + m
      /\ \A i \in 1..((n + 1) + m) : t[i] = IF i <= n + 1 THEN u[i] ELSE e[i - (n + 1)]
  <2>1. /\ t \in Seq(M) /\ Len(t) = Len(u) + Len(e)
        /\ \A i \in 1..(Len(u) + Len(e)) : t[i] = IF i <= Len(u) THEN u[i] ELSE e[i - Len(u)]
    BY <1>3, <1>5, ConcatProperties
  <2> QED
    BY <1>3, <2>1
<1> HIDE DEF n, m
<1>7. \A i \in 1..n : t[i] = s[i]
  BY <1>1, <1>4, <1>6, SMTT(30)
<1>8. t[n + 1] = bar
  BY <1>1, <1>4, <1>6, SMT
<1>9. \A i \in 1..m : t[(n + 1) + i] = e[i] /\ e[i] # bar /\ e[i] \in M
  <2> SUFFICES ASSUME NEW i \in 1..m PROVE t[(n + 1) + i] = e[i] /\ e[i] # bar /\ e[i] \in M
    OBVIOUS
  <2>1. (n + 1) + i \in 1..((n + 1) + m) /\ ~((n + 1) + i <= n + 1) /\ ((n + 1) + i) - (n + 1) = i
    BY <1>1, SMT
  <2> QED
    BY <1>1, <1>6, <2>1, ElementOfSeq DEF Range, m
<1>10. DOMAIN t = 1..((n + 1) + m)
  BY <1>6, SMT
<1>11. BarsOf(t, bar) = BarsOf(s, bar) \cup {n + 1}
  <2>1. ASSUME NEW i \in DOMAIN t, t[i] = bar PROVE i \in BarsOf(s, bar) \/ i = n + 1
    <3>1. i \in 1..n \/ i = n + 1 \/ i - (n + 1) \in 1..m
      BY <1>1, <1>10, SMT
    <3>2. CASE i \in 1..n
      BY <1>1, <1>7, <2>1, <3>2 DEF BarsOf
    <3>3. CASE i - (n + 1) \in 1..m
      <4>1. (n + 1) + (i - (n + 1)) = i
        BY <1>1, <1>10, SMT
      <4> QED
        BY <1>9, <2>1, <3>3, <4>1
    <3> QED
      BY <3>1, <3>2, <3>3
  <2>2. n + 1 \in DOMAIN t /\ \A i \in 1..n : i \in DOMAIN t
    BY <1>1, <1>10, SMT
  <2>3. BarsOf(s, bar) \subseteq BarsOf(t, bar)
    BY <1>1, <1>7, <2>2 DEF BarsOf
  <2>4. n + 1 \in BarsOf(t, bar)
    BY <1>8, <2>2 DEF BarsOf
  <2>5. BarsOf(t, bar) \subseteq BarsOf(s, bar) \cup {n + 1}
    BY <2>1 DEF BarsOf
  <2> QED
    BY <2>3, <2>4, <2>5
<1>12. SubSeq(t, n + 2, (n + 1) + m) = e
  <2> DEFINE lo == n + 2
             hi == (n + 1) + m
             q == SubSeq(t, lo, hi)
  <2>1. lo \in Int /\ hi \in Int /\ hi - lo + 1 = m /\ \A i \in 1..m : lo + i - 1 = (n + 1) + i
    BY <1>1, SMT
  <2>2. \A i \in lo..hi : t[i] \in M
    BY <1>1, <1>6, ElementOfSeq, SMTT(30)
  <2> HIDE DEF lo, hi
  <2>3. /\ q \in Seq(M)
        /\ Len(q) = IF lo <= hi THEN hi - lo + 1 ELSE 0
        /\ \A i \in 1..(hi - lo + 1) : q[i] = t[lo + i - 1]
    BY <2>1, <2>2, SubSeqProperties, SMTT(30)
  <2> HIDE DEF q
  <2>4. Len(q) = m
    BY <1>1, <2>1, <2>3, SMTT(30)
  <2>5. \A i \in 1..m : q[i] = e[i]
    BY <1>9, <2>1, <2>3
  <2>6. q = e
    BY <2>3, <2>4, <2>5, SeqEqual DEF m
  <2> QED
    BY <2>6 DEF q, lo, hi
<1> QED
  BY <1>1, <1>6, <1>7, <1>11, <1>12 DEF n, m

\* What follows does not change a part.
LEMMA PartStays ==
    ASSUME NEW M, NEW s \in Seq(M), NEW t \in Seq(M), \A i \in 1..Len(s) : t[i] = s[i],
           NEW a \in Nat \ {0}, NEW b \in Nat, b <= Len(s)
    PROVE  SubSeq(t, a, b) = SubSeq(s, a, b)
<1>1. \A i \in a..b : i \in 1..Len(s) /\ s[i] \in M /\ t[i] \in M
  BY ElementOfSeq, SMT
<1>2. /\ SubSeq(s, a, b) \in Seq(M) /\ Len(SubSeq(s, a, b)) = IF a <= b THEN b - a + 1 ELSE 0
      /\ \A i \in 1..(b - a + 1) : SubSeq(s, a, b)[i] = s[a + i - 1]
  BY <1>1, SubSeqProperties, SMTT(30)
<1>3. /\ SubSeq(t, a, b) \in Seq(M) /\ Len(SubSeq(t, a, b)) = IF a <= b THEN b - a + 1 ELSE 0
      /\ \A i \in 1..(b - a + 1) : SubSeq(t, a, b)[i] = t[a + i - 1]
  BY <1>1, SubSeqProperties, SMTT(30)
<1>4. \A i \in 1..(b - a + 1) : a + i - 1 \in a..b
  BY SMT
<1>5. \A i \in 1..Len(SubSeq(t, a, b)) : SubSeq(t, a, b)[i] = SubSeq(s, a, b)[i]
  BY <1>1, <1>2, <1>3, <1>4, SMTT(30)
<1> QED
  BY <1>2, <1>3, <1>5, SeqEqual

\* The n-th of a set of places.
Nth(at, n) == CHOOSE i \in at : Cardinality({j \in at : j <= i}) = n

\* The places of three separators in order.
LEMMA NthOfThree ==
    ASSUME NEW at, NEW p \in Nat, NEW q \in Nat, NEW r \in Nat, p < q, q < r, at = {p, q, r}
    PROVE  Cardinality(at) = 3 /\ Nth(at, 1) = p /\ Nth(at, 2) = q /\ Nth(at, 3) = r
<1> DEFINE Below(i) == {j \in at : j <= i}
<1>1. Below(p) = {p} /\ Below(q) = {p} \cup {q} /\ Below(r) = ({p} \cup {q}) \cup {r} /\ at = ({p} \cup {q}) \cup {r}
  BY SMT
<1>2. IsFiniteSet({p}) /\ Cardinality({p}) = 1
  BY FS_Singleton
<1>3. IsFiniteSet({p} \cup {q}) /\ Cardinality({p} \cup {q}) = 2
  <2>1. q \notin {p}
    BY SMT
  <2>2. IsFiniteSet({p} \cup {q}) /\ Cardinality({p} \cup {q}) = Cardinality({p}) + 1
    BY <1>2, <2>1, FS_AddElement
  <2> QED
    BY <1>2, <2>2, SMT
<1>4. Cardinality(({p} \cup {q}) \cup {r}) = 3
  <2>1. r \notin {p} \cup {q}
    BY SMT
  <2> DEFINE two == {p} \cup {q}
  <2> HIDE DEF two
  <2>2. Cardinality(two \cup {r}) = Cardinality(two) + 1
    BY <1>3, <2>1, FS_AddElement DEF two
  <2> QED
    BY <1>3, <2>2, SMT DEF two
<1>5. Cardinality(at) = 3 /\ Cardinality(Below(p)) = 1 /\ Cardinality(Below(q)) = 2 /\ Cardinality(Below(r)) = 3
  BY <1>1, <1>2, <1>3, <1>4
<1> HIDE DEF Below
<1>6. (CHOOSE i \in at : Cardinality(Below(i)) = 1) = p
  BY <1>5, SMT
<1>7. (CHOOSE i \in at : Cardinality(Below(i)) = 2) = q
  BY <1>5, SMT
<1>8. (CHOOSE i \in at : Cardinality(Below(i)) = 3) = r
  BY <1>5, SMT
<1> QED
  BY <1>5, <1>6, <1>7, <1>8 DEF Below, Nth
=============================================================================
