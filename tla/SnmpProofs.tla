----------------------------- MODULE SnmpProofs -----------------------------
(***************************************************************************)
(* The session pool, a call, and the walk of the peer tables, for any      *)
(* keys, walkers, calls and tables.                                        *)
(***************************************************************************)
EXTENDS SessionPool, SnmpWalk, BgpWalk, FiniteSetTheorems, SequenceTheorems, TLAPS

\* A leaf that names no prover is for Zenon; SMT has those with numbers or sequences.
USE ZenonT(60)

-----------------------------------------------------------------------------
(* SessionPool: the inductive invariant, and what its proof needs about    *)
(* numbers, entries and types                                              *)

\* A walker has a session from its dial to its release.
Holds(w) == walker[w].pc \in {"store", "use", "useTransient"}
Private(w) == walker[w].pc \in {"store", "useTransient"}

PoolShape ==
    /\ PoolTypeOK
    /\ \A w \in Walkers : walker[w].pc # "idle" => walker[w].key \in Keys
    /\ \A w \in Walkers : Holds(w) => walker[w].session \in Session
    /\ \A w \in Walkers : ~Holds(w) => walker[w].session = 0
    /\ closed => \A k \in Keys : ~Pooled(k)

\* Who owns a socket: what is pooled is open and pooled once; a private session is open
\* and nobody else's; a walker whose pooled session is still open finds it in the pool.
PoolOwns ==
    /\ \A k \in Keys : Pooled(k) => sessions[k].session \in open
    /\ \A j, k \in Keys : Pooled(j) /\ Pooled(k) /\ j # k => sessions[j].session # sessions[k].session
    /\ \A w \in Walkers : Private(w) => walker[w].session \in open
    /\ \A w \in Walkers, k \in Keys : Private(w) => sessions[k].session # walker[w].session
    /\ \A v, w \in Walkers : Private(w) /\ v # w => walker[v].session # walker[w].session
    /\ \A w \in Walkers : walker[w].pc = "use" /\ walker[w].session \in open =>
                            \E k \in Keys : sessions[k].session = walker[w].session
    /\ SocketsOwned

\* Until a rotation pulls an entry in use: users have different sessions, a user's
\* session is the one of its key, and an entry in use has its user.
PoolUses ==
    ~pulled =>
      /\ \A v, w \in Walkers : walker[v].pc = "use" /\ walker[w].pc = "use" /\ v # w =>
                                 walker[v].session # walker[w].session
      /\ ~closed => \A w \in Walkers : walker[w].pc = "use" =>
                      /\ Pooled(walker[w].key) /\ sessions[walker[w].key].inUse
                      /\ sessions[walker[w].key].session = walker[w].session
      /\ \A k \in Keys : sessions[k].inUse =>
           \E w \in Walkers : /\ walker[w].pc = "use" /\ walker[w].key = k
                              /\ walker[w].session = sessions[k].session

PoolInv == PoolShape /\ PoolOwns /\ PoolUses

-----------------------------------------------------------------------------
(* Numbers                                                                 *)

\* A function takes at most as many values as it has arguments.
LEMMA ValuesBounded ==
    ASSUME NEW S, IsFiniteSet(S), NEW f, f = [x \in S |-> f[x]]
    PROVE  /\ IsFiniteSet({f[x] : x \in S})
           /\ Cardinality({f[x] : x \in S}) <= Cardinality(S)
<1> DEFINE T == {f[x] : x \in S}
<1>1. f \in Surjection(S, T)
  BY DEF Surjection
<1> QED
  BY <1>1, FS_Surjection

\* There are finitely many keys, so Session is an interval of naturals.
LEMMA KeysAreFinite ==
    /\ IsFiniteSet(Keys) /\ Cardinality(Keys) \in Nat
    /\ IsFiniteSet(Walkers) /\ Cardinality(Walkers) \in Nat
    /\ 0 \notin Session /\ Session \subseteq Nat
    /\ IsFiniteSet(Session) /\ Cardinality(Session) = Cardinality(Keys) + Cardinality(Walkers)
<1>1. IsFiniteSet(Keys)
  <2>1. IsFiniteSet(Ips) /\ IsFiniteSet(Profiles)
    BY PoolAssumption
  <2>2. IsFiniteSet(Ips \X Profiles)
    BY <2>1, FS_Product
  <2> QED
    BY <2>2 DEF Keys
<1>2. IsFiniteSet(Walkers)
  BY PoolAssumption
<1>3. Cardinality(Keys) \in Nat /\ Cardinality(Walkers) \in Nat
  BY <1>1, <1>2, FS_CardinalityType
<1>4. IsFiniteSet(Session) /\ Cardinality(Session) = Cardinality(Keys) + Cardinality(Walkers)
  <2>1. ASSUME NEW n \in Nat PROVE IsFiniteSet(1..n) /\ Cardinality(1..n) = n
    <3>1. IsFiniteSet(1..n) /\ Cardinality(1..n) = IF 1 > n THEN 0 ELSE n - 1 + 1
      BY FS_Interval, SMT
    <3> QED
      BY <3>1, SMT
  <2>2. Cardinality(Keys) + Cardinality(Walkers) \in Nat
    BY <1>3, SMT
  <2> QED
    BY <2>1, <2>2 DEF Session
<1>5. 0 \notin Session /\ Session \subseteq Nat
  BY <1>3, SMT DEF Session
<1> QED
  BY <1>1, <1>2, <1>3, <1>4, <1>5

\* A walker that dials finds a number for its socket: the ones in use belong to a key
\* or to another walker.
LEMMA FreshIsNew ==
    ASSUME PoolInv, NEW w \in Walkers, ~Holds(w)
    PROVE  Fresh \in Session \ open /\ \A v \in Walkers : walker[v].session # Fresh
<1> DEFINE f == [k \in Keys |-> sessions[k].session]
           g == [v \in Walkers \ {w} |-> walker[v].session]
           P == {f[k] : k \in Keys}
           H == {g[v] : v \in Walkers \ {w}}
<1>1. IsFiniteSet(P) /\ Cardinality(P) <= Cardinality(Keys)
  <2>1. f = [k \in Keys |-> f[k]]
    OBVIOUS
  <2> HIDE DEF f
  <2> QED
    BY <2>1, KeysAreFinite, ValuesBounded
<1>2. IsFiniteSet(H) /\ Cardinality(H) <= Cardinality(Walkers) - 1
  <2>1. g = [v \in Walkers \ {w} |-> g[v]]
    OBVIOUS
  <2>2. IsFiniteSet(Walkers \ {w}) /\ Cardinality(Walkers \ {w}) = Cardinality(Walkers) - 1
    BY KeysAreFinite, FS_RemoveElement
  <2> HIDE DEF g
  <2> QED
    BY <2>1, <2>2, ValuesBounded, SMTT(30)
<1>3. \E s \in Session : s \notin P \cup H
  <2> HIDE DEF P, H
  <2>1. IsFiniteSet(P \cup H) /\ Cardinality(P \cup H) <= Cardinality(P) + Cardinality(H)
    <3>1. Cardinality(P \cap H) \in Nat /\ Cardinality(P) \in Nat /\ Cardinality(H) \in Nat
      BY <1>1, <1>2, FS_Intersection, FS_CardinalityType
    <3>2. IsFiniteSet(P \cup H)
          /\ Cardinality(P \cup H) = Cardinality(P) + Cardinality(H) - Cardinality(P \cap H)
      BY <1>1, <1>2, FS_Union
    <3> QED
      BY <3>1, <3>2, SMT
  <2>2. Cardinality(P \cup H) \in Nat /\ Cardinality(P) \in Nat /\ Cardinality(H) \in Nat
    BY <1>1, <1>2, <2>1, FS_CardinalityType
  <2>3. Cardinality(P \cup H) < Cardinality(Session)
    BY <1>1, <1>2, <2>1, <2>2, KeysAreFinite, SMTT(30)
  <2>4. ~(Session \subseteq P \cup H)
    <3> SUFFICES ASSUME Session \in SUBSET (P \cup H) PROVE FALSE
      OBVIOUS
    <3>1. Cardinality(Session) <= Cardinality(P \cup H)
      BY <2>1, FS_Subset
    <3> QED
      BY <2>2, <2>3, <3>1, KeysAreFinite, SMTT(30)
  <2> QED
    BY <2>4
<1>4. PICK s \in Session : s \notin P \cup H
  BY <1>3
<1>5. \A k \in Keys : sessions[k].session # s
  BY <1>4
<1>6. \A v \in Walkers : walker[v].session # s
  BY <1>4, KeysAreFinite DEF PoolInv, PoolShape
<1>7. s \in Session \ open /\ \A v \in Walkers : walker[v].session # s
  BY <1>4, <1>5, <1>6 DEF PoolInv, PoolOwns, SocketsOwned
<1> QED
  BY <1>7 DEF Fresh

-----------------------------------------------------------------------------
(* The inductive invariant                                                 *)

\* An entry is there when it has a session.
LEMMA EntryIs ==
    \A e \in [session : Session, inUse : BOOLEAN] \cup {NoSession} :
      /\ e # NoSession => e.session \in Session /\ e.session # 0
      /\ e = NoSession => e.session = 0 /\ ~e.inUse
<1>1. \A e \in [session : Session, inUse : BOOLEAN] : e.session \in Session /\ e.session # 0
  BY KeysAreFinite
<1>2. NoSession.session = 0 /\ ~NoSession.inUse
  BY DEF NoSession
<1> QED
  BY <1>1, <1>2

LEMMA PooledIs ==
    ASSUME PoolTypeOK, NEW k \in Keys
    PROVE  /\ Pooled(k) => sessions[k].session \in Session /\ sessions[k].session # 0
           /\ ~Pooled(k) => sessions[k].session = 0 /\ ~sessions[k].inUse
<1>1. sessions[k] \in [session : Session, inUse : BOOLEAN] \cup {NoSession}
  BY DEF PoolTypeOK
<1> QED
  BY <1>1, EntryIs DEF Pooled

\* The initial state satisfies the invariant.
LEMMA PoolStart == PoolInit => PoolInv
<1> SUFFICES ASSUME PoolInit PROVE PoolInv
  OBVIOUS
<1>1. PoolTypeOK
  BY DEF PoolInit, PoolTypeOK, Idle
<1>2. PoolShape
  BY <1>1 DEF PoolInit, PoolShape, Holds, Idle, Pooled
<1>3. PoolOwns
  BY DEF PoolInit, PoolOwns, Private, Idle, Pooled, SocketsOwned
<1>4. PoolUses
  BY DEF PoolInit, PoolUses, Idle, NoSession
<1> QED
  BY <1>2, <1>3, <1>4 DEF PoolInv

\* The entries of ks go and their sockets are closed: no private session is among them.
LEMMA CloseEntriesOwns ==
    ASSUME PoolInv, NEW ks \in SUBSET Keys, CloseEntries(ks)
    PROVE  /\ sessions' \in [Keys -> [session : Session, inUse : BOOLEAN] \cup {NoSession}]
           /\ open' \subseteq Session
           /\ \A k \in Keys : sessions'[k] = IF k \in ks THEN NoSession ELSE sessions[k]
           /\ \A k \in Keys \ ks : Pooled(k) => sessions[k].session \in open'
           /\ \A w \in Walkers : Private(w) => walker[w].session \in open'
           /\ \A s \in open' : s \in open /\ \A k \in ks : sessions[k].session # s
<1> USE DEF PoolInv, PoolShape, PoolTypeOK, CloseEntries
<1>1. sessions' \in [Keys -> [session : Session, inUse : BOOLEAN] \cup {NoSession}]
  OBVIOUS
<1>2. \A k \in Keys : sessions'[k] = IF k \in ks THEN NoSession ELSE sessions[k]
  OBVIOUS
<1>3. open' \subseteq Session /\ \A s \in open' : s \in open /\ \A k \in ks : sessions[k].session # s
  OBVIOUS
<1>4. \A k \in Keys \ ks : Pooled(k) => sessions[k].session \in open'
  <2> SUFFICES ASSUME NEW k \in Keys \ ks, Pooled(k) PROVE sessions[k].session \in open'
    OBVIOUS
  <2>1. \A j \in ks : sessions[j].session # sessions[k].session
    <3> SUFFICES ASSUME NEW j \in ks PROVE sessions[j].session # sessions[k].session
      OBVIOUS
    <3>1. CASE Pooled(j)
      BY <3>1 DEF PoolOwns
    <3>2. CASE ~Pooled(j)
      BY <3>2, PooledIs
    <3> QED
      BY <3>1, <3>2
  <2> QED
    BY <2>1 DEF PoolOwns
<1>5. \A w \in Walkers : Private(w) => walker[w].session \in open'
  BY SMT DEF PoolOwns
<1> QED
  BY <1>1, <1>2, <1>3, <1>4, <1>5

\* Every step keeps the types, and a walker has a session exactly when its state says so.
LEMMA PoolShapeStep == PoolInv /\ [PoolNext]_poolVars => PoolShape'
<1> SUFFICES ASSUME PoolInv, [PoolNext]_poolVars PROVE PoolShape'
  OBVIOUS
<1> USE DEF PoolInv, PoolShape
<1> DEFINE Walker == [pc : {"idle", "dial", "dialTransient", "store", "use", "useTransient"},
                      key : Keys \cup {<<>>}, session : Session \cup {0}]
           Fits(r) == /\ r \in Walker
                      /\ r.pc # "idle" => r.key \in Keys
                      /\ r.pc \in {"store", "use", "useTransient"} => r.session \in Session
                      /\ r.pc \notin {"store", "use", "useTransient"} => r.session = 0
<1>0. /\ \A k \in Keys : Fits([pc |-> "dial", key |-> k, session |-> 0])
      /\ \A k \in Keys : Fits([pc |-> "dialTransient", key |-> k, session |-> 0])
      /\ \A k \in Keys, x \in Session, p \in {"store", "use", "useTransient"} :
           Fits([pc |-> p, key |-> k, session |-> x])
      /\ Fits(Idle)
  BY DEF Idle
<1>1. ASSUME NEW w \in Walkers, NEW r, Fits(r), walker' = [walker EXCEPT ![w] = r],
             sessions' \in [Keys -> [session : Session, inUse : BOOLEAN] \cup {NoSession}],
             open' \subseteq Session, UNCHANGED <<closed, pulled>>,
             closed => \A k \in Keys : ~Pooled(k)'
      PROVE  PoolShape'
  <2>1. \A v \in Walkers : walker'[v] = IF v = w THEN r ELSE walker[v]
    BY <1>1 DEF PoolTypeOK
  <2>2. \A v \in Walkers : Fits(walker'[v])
    BY <1>1, <2>1 DEF PoolTypeOK, Holds
  <2>3. PoolTypeOK'
    BY <1>1 DEF PoolTypeOK
  <2> QED
    BY <1>1, <2>2, <2>3 DEF Holds
<1>2. ASSUME NEW k \in Keys, NEW x \in Session, NEW b \in BOOLEAN,
             sessions' = [sessions EXCEPT ![k] = [session |-> x, inUse |-> b]]
      PROVE  sessions' \in [Keys -> [session : Session, inUse : BOOLEAN] \cup {NoSession}]
  BY <1>2 DEF PoolTypeOK
<1>3. \A k \in Keys : Pooled(k) => sessions[k].session \in Session
  BY PooledIs
<1>4. UNCHANGED sessions => \A k \in Keys : Pooled(k)' = Pooled(k)
  BY DEF Pooled
<1> HIDE DEF Fits, Walker
<1>5. ASSUME NEW w \in Walkers, NEW k \in Keys, AcquireSession(w, k) PROVE PoolShape'
  <2>1. UNCHANGED <<open, closed, pulled>> /\ open \subseteq Session
    BY <1>5 DEF AcquireSession, PoolTypeOK
  <2>2. CASE ~closed /\ MayReuse(k) /\ CheckOut(w, k)
    BY <1>0, <1>1, <1>2, <1>3, <2>1, <2>2 DEF CheckOut, PoolAt, MayReuse
  <2>3. CASE UNCHANGED sessions /\ (PoolAt(w, "dialTransient", k, 0) \/ PoolAt(w, "dial", k, 0))
    BY <1>0, <1>1, <1>4, <2>1, <2>3 DEF PoolAt, PoolTypeOK
  <2> QED
    BY <1>5, <2>2, <2>3 DEF AcquireSession
<1>6. ASSUME NEW w \in Walkers, Dial(w) PROVE PoolShape'
  <2>1. UNCHANGED <<sessions, closed, pulled>> /\ walker[w].key \in Keys
    BY <1>6 DEF Dial
  <2>2. CASE walker' = [walker EXCEPT ![w] = Idle] /\ UNCHANGED open
    BY <1>0, <1>1, <1>4, <2>1, <2>2 DEF PoolTypeOK
  <2>3. CASE open' = open \cup {Fresh} /\ PoolAt(w, IF walker[w].pc = "dial" THEN "store" ELSE "useTransient", walker[w].key, Fresh)
    <3>1. Fresh \in Session
      BY <1>6, FreshIsNew DEF Dial, Holds
    <3>2. open' \subseteq Session
      BY <2>3, <3>1 DEF PoolTypeOK
    <3>3. PICK p \in {"store", "useTransient"} :
            walker' = [walker EXCEPT ![w] = [pc |-> p, key |-> walker[w].key, session |-> Fresh]]
      BY <2>3 DEF PoolAt
    <3> QED
      BY <1>0, <1>1, <1>4, <2>1, <3>1, <3>2, <3>3 DEF PoolTypeOK
  <2> QED
    BY <1>6, <2>2, <2>3 DEF Dial
<1>7. ASSUME NEW w \in Walkers, Store(w) PROVE PoolShape'
  <2> DEFINE k == walker[w].key
             x == walker[w].session
  <2>1. k \in Keys /\ x \in Session /\ open \subseteq Session /\ UNCHANGED <<closed, pulled>>
    BY <1>7 DEF Store, Holds, PoolTypeOK
  <2>2. CASE PoolAt(w, "useTransient", k, x) /\ UNCHANGED <<sessions, open>>
    BY <1>0, <1>1, <1>4, <2>1, <2>2 DEF PoolAt, PoolTypeOK
  <2>3. CASE ~closed /\ MayReuse(k) /\ CheckOut(w, k) /\ open' = open \ {x}
    BY <1>0, <1>1, <1>2, <1>3, <2>1, <2>3 DEF CheckOut, PoolAt, MayReuse
  <2>4. CASE /\ ~closed /\ sessions' = [sessions EXCEPT ![k] = [session |-> x, inUse |-> TRUE]]
             /\ PoolAt(w, "use", k, x) /\ UNCHANGED open
    BY <1>0, <1>1, <1>2, <2>1, <2>4 DEF PoolAt
  <2> QED
    BY <1>7, <2>2, <2>3, <2>4 DEF Store
<1>8. ASSUME NEW w \in Walkers, ReleaseTransient(w) PROVE PoolShape'
  BY <1>0, <1>1, <1>4, <1>8 DEF ReleaseTransient, PoolTypeOK
<1>9. ASSUME NEW w \in Walkers, Return(w) PROVE PoolShape'
  <2>1. walker[w].key \in Keys /\ open' \subseteq Session
    BY <1>9 DEF Return, PoolTypeOK
  <2>2. CASE Pooled(walker[w].key)
    BY <1>0, <1>1, <1>2, <1>3, <1>9, <2>1, <2>2 DEF Return, ReturnKey
  <2>3. CASE ~Pooled(walker[w].key)
    BY <1>0, <1>1, <1>4, <1>9, <2>1, <2>3 DEF Return, ReturnKey, PoolTypeOK
  <2> QED
    BY <2>2, <2>3
<1>10. ASSUME NEW ks \in SUBSET Keys, CloseEntries(ks)
       PROVE  \A k \in Keys : Pooled(k)' => Pooled(k) /\ k \notin ks
  BY <1>10, CloseEntriesOwns DEF Pooled
<1>11. ASSUME NEW w \in Walkers, EvictKey(w) PROVE PoolShape'
  <2>1. {walker[w].key} \in SUBSET Keys
    BY <1>11 DEF EvictKey
  <2> QED
    BY <1>0, <1>1, <1>10, <1>11, <2>1, CloseEntriesOwns DEF EvictKey
<1>12. ASSUME NEW ks \in SUBSET Keys, CloseEntries(ks), UNCHANGED walker,
              pulled' \in BOOLEAN, closed' \in BOOLEAN, closed' => closed \/ ks = Keys
       PROVE  PoolShape'
  <2>1. PoolTypeOK'
    BY <1>12, CloseEntriesOwns DEF PoolTypeOK
  <2> QED
    BY <1>10, <1>12, <2>1 DEF Holds
<1>13. CASE EvictSession
  <2>1. PICK ks \in SUBSET Expired : CloseEntries(ks)
    BY <1>13 DEF EvictSession
  <2> QED
    BY <1>12, <1>13, <2>1 DEF EvictSession, Expired, PoolTypeOK
<1>14. ASSUME NEW p \in Profiles, InvalidateProfile(p) PROVE PoolShape'
  <2>1. pulled' \in BOOLEAN
    BY <1>14 DEF InvalidateProfile
  <2> QED
    BY <1>12, <1>14, <2>1 DEF InvalidateProfile, PoolTypeOK
<1>15. CASE Close
  BY <1>12, <1>15 DEF Close, PoolTypeOK
<1>16. CASE UNCHANGED poolVars
  BY <1>16 DEF poolVars, PoolTypeOK, Holds, Pooled
<1> QED
  BY <1>5, <1>6, <1>7, <1>8, <1>9, <1>11, <1>13, <1>14, <1>15, <1>16 DEF PoolNext

-----------------------------------------------------------------------------
(* Every step of the pool leaves every socket with its one owner           *)

\* Entries are removed from outside, or by the walker that then has no session: what is
\* left has its owner.
LEMMA RemovalOwns ==
    ASSUME PoolInv, NEW ks \in SUBSET Keys, CloseEntries(ks), PoolShape',
           \A v \in Walkers : walker'[v] = walker[v] \/ (walker'[v] = Idle /\ walker[v].pc = "use")
    PROVE  PoolOwns'
<1> USE DEF PoolInv, PoolShape
<1>0. \A k \in Keys : sessions'[k] = IF k \in ks THEN NoSession ELSE sessions[k]
  BY CloseEntriesOwns
<1>1. \A k \in Keys : Pooled(k)' => k \notin ks /\ Pooled(k) /\ sessions'[k] = sessions[k]
  BY <1>0 DEF Pooled
<1>2. \A v \in Walkers : walker'[v] = walker[v] \/ (walker'[v] = Idle /\ walker[v].pc = "use")
  OBVIOUS
<1>3. Idle.pc = "idle" /\ Idle.session = 0 /\ NoSession.session = 0 /\ 0 \notin Session
  BY KeysAreFinite DEF Idle, NoSession
<1>4. \A v \in Walkers : Private(v)' => Private(v) /\ walker'[v] = walker[v]
  BY <1>2, <1>3 DEF Private
<1>5. \A v \in Walkers : Private(v) => walker[v].session \in Session
  BY DEF Private, Holds
<1>6. \A k \in Keys : Pooled(k)' => sessions'[k].session \in open'
  BY <1>1, CloseEntriesOwns
<1>7. \A j, k \in Keys : Pooled(j)' /\ Pooled(k)' /\ j # k => sessions'[j].session # sessions'[k].session
  BY <1>1, SMT DEF PoolOwns
<1>8. \A v \in Walkers : Private(v)' => walker'[v].session \in open'
  BY <1>4, CloseEntriesOwns
<1>9. \A v \in Walkers, k \in Keys : Private(v)' => sessions'[k].session # walker'[v].session
  BY <1>0, <1>3, <1>4, <1>5, SMTT(20) DEF PoolOwns
<1>10. \A u, v \in Walkers : Private(v)' /\ u # v => walker'[u].session # walker'[v].session
  BY <1>2, <1>3, <1>4, <1>5, SMTT(20) DEF PoolOwns
<1>11. \A s \in open' : \A k \in Keys : sessions[k].session = s => sessions'[k].session = s
  BY <1>0, CloseEntriesOwns, SMT
<1>12. open' \subseteq open
  BY CloseEntriesOwns
<1>13. \A v \in Walkers : walker[v].pc = "use" /\ walker[v].session \in open' =>
                            \E k \in Keys : sessions'[k].session = walker[v].session
  BY <1>11, <1>12 DEF PoolOwns
<1>14. \A v \in Walkers : walker'[v].pc = "use" /\ walker'[v].session \in open' =>
                            \E k \in Keys : sessions'[k].session = walker'[v].session
  BY <1>2, <1>3, <1>13
<1>15. SocketsOwned'
  <2> SUFFICES ASSUME NEW s \in open'
               PROVE  \/ \E k \in Keys : sessions'[k].session = s
                      \/ \E v \in Walkers : walker'[v].session = s
    BY DEF SocketsOwned
  <2>1. CASE \E k \in Keys : sessions[k].session = s
    BY <1>11, <2>1
  <2>2. CASE \E v \in Walkers : walker[v].session = s
    BY <1>2, <1>13, <2>2
  <2> QED
    BY <1>12, <2>1, <2>2 DEF PoolOwns, SocketsOwned
<1> QED
  BY <1>6, <1>7, <1>8, <1>9, <1>10, <1>14, <1>15 DEF PoolOwns

\* The pool keeps its sessions and one walker changes its state.
OneWalker(w, r) ==
    /\ \A v \in Walkers : walker'[v] = IF v = w THEN r ELSE walker[v]
    /\ \A k \in Keys : sessions'[k].session = sessions[k].session

\* A walker takes a pooled session, or starts to dial, or lets go of what it had.
LEMMA TurnOwns ==
    ASSUME PoolInv, PoolShape', NEW w \in Walkers, NEW r, OneWalker(w, r), ~Private(w)',
           open' = IF Private(w) THEN open \ {walker[w].session} ELSE open,
           r.session # 0 => \E k \in Keys : sessions[k].session = r.session
    PROVE  PoolOwns'
<1> USE DEF PoolInv, PoolShape, OneWalker
<1>1. \A k \in Keys : Pooled(k)' => Pooled(k)
  <2>1. \A k \in Keys : sessions'[k] \in [session : Session, inUse : BOOLEAN] \cup {NoSession}
    BY DEF PoolTypeOK
  <2>2. \A k \in Keys : Pooled(k)' => sessions[k].session # 0
    BY <2>1, EntryIs, SMTT(30) DEF Pooled
  <2> QED
    BY <2>2, PooledIs
<1>2. \A v \in Walkers : Private(v)' => v # w /\ Private(v) /\ walker'[v] = walker[v]
  BY DEF Private
<1>3. \A k \in Keys : Pooled(k) => sessions[k].session \in open'
  BY DEF PoolOwns
<1>4. \A v \in Walkers : Private(v) /\ v # w => walker[v].session \in open'
  BY DEF PoolOwns
<1>5. \A v \in Walkers : Private(v) => walker[v].session # 0
  BY KeysAreFinite DEF Private, Holds
<1>6. \A u, v \in Walkers : Private(v)' /\ u # v => walker'[u].session # walker'[v].session
  BY <1>2, <1>5, SMTT(30) DEF PoolOwns
<1>7. \A v \in Walkers : walker'[v].pc = "use" /\ walker'[v].session \in open' =>
                           \E k \in Keys : sessions'[k].session = walker'[v].session
  <2> SUFFICES ASSUME NEW v \in Walkers, walker'[v].pc = "use", walker'[v].session \in open'
               PROVE  \E k \in Keys : sessions[k].session = walker'[v].session
    BY SMT
  <2>1. CASE v = w
    BY <2>1, KeysAreFinite DEF PoolTypeOK
  <2>2. CASE v # w
    BY <2>2, SMTT(30) DEF PoolOwns
  <2> QED
    BY <2>1, <2>2
<1>8. SocketsOwned'
  <2> SUFFICES ASSUME NEW s \in open'
               PROVE  \/ \E k \in Keys : sessions'[k].session = s
                      \/ \E v \in Walkers : walker'[v].session = s
    BY DEF SocketsOwned
  <2>1. s \in open /\ s # 0
    BY KeysAreFinite DEF PoolTypeOK
  <2>2. CASE \E k \in Keys : sessions[k].session = s
    BY <2>2
  <2>3. CASE walker[w].session = s
    <3>1. ~Private(w)
      BY <2>3
    <3>2. walker[w].pc = "use"
      BY <2>1, <2>3, <3>1 DEF Private, Holds
    <3> QED
      BY <2>1, <2>3, <3>2, SMTT(30) DEF PoolOwns
  <2> QED
    BY <2>1, <2>2, <2>3, SMTT(30) DEF PoolOwns, SocketsOwned
<1> QED
  BY <1>1, <1>2, <1>3, <1>4, <1>6, <1>7, <1>8, SMTT(20) DEF PoolOwns

\* A walker keeps its own private session, or has just opened one.
LEMMA PrivateOwns ==
    ASSUME PoolInv, PoolShape', NEW w \in Walkers, NEW r, OneWalker(w, r), r.session \in Session,
           open' = open \cup {r.session}, Private(w)',
           \A k \in Keys : sessions[k].session # r.session,
           \A v \in Walkers : v # w => walker[v].session # r.session,
           ~Holds(w) \/ walker[w].session = r.session
    PROVE  PoolOwns'
<1> USE DEF PoolInv, PoolShape, OneWalker
<1>1. \A k \in Keys : Pooled(k)' => Pooled(k)
  <2>1. \A k \in Keys : sessions'[k] \in [session : Session, inUse : BOOLEAN] \cup {NoSession}
    BY DEF PoolTypeOK
  <2>2. \A k \in Keys : Pooled(k)' => sessions[k].session # 0
    BY <2>1, EntryIs, SMTT(30) DEF Pooled
  <2> QED
    BY <2>2, PooledIs
<1>2. \A v \in Walkers : Private(v)' => v = w \/ (Private(v) /\ walker'[v] = walker[v])
  BY DEF Private
<1>3. \A v \in Walkers, k \in Keys : Private(v)' => sessions'[k].session # walker'[v].session
  BY <1>2, SMTT(20) DEF PoolOwns
<1>4. \A u, v \in Walkers : Private(v)' /\ u # v => walker'[u].session # walker'[v].session
  BY <1>2, SMTT(20) DEF PoolOwns
<1>5. \A v \in Walkers : walker'[v].pc = "use" /\ walker'[v].session \in open' =>
                           \E k \in Keys : sessions'[k].session = walker'[v].session
  <2> SUFFICES ASSUME NEW v \in Walkers, walker'[v].pc = "use", walker'[v].session \in open'
               PROVE  \E k \in Keys : sessions[k].session = walker'[v].session
    BY SMT
  <2>1. v # w
    BY DEF Private
  <2> QED
    BY <2>1, SMTT(30) DEF PoolOwns
<1>6. SocketsOwned'
  <2> SUFFICES ASSUME NEW s \in open'
               PROVE  \/ \E k \in Keys : sessions'[k].session = s
                      \/ \E v \in Walkers : walker'[v].session = s
    BY DEF SocketsOwned
  <2>1. CASE s = r.session
    BY <2>1
  <2>2. CASE s # r.session
    <3>1. s \in open /\ s # 0 /\ walker[w].session # s
      BY <2>2, KeysAreFinite DEF PoolTypeOK
    <3> QED
      BY <3>1, SMT DEF PoolOwns, SocketsOwned
  <2> QED
    BY <2>1, <2>2
<1> QED
  BY <1>1, <1>2, <1>3, <1>4, <1>5, <1>6, SMTT(20) DEF PoolOwns

\* A walker puts its private session in the pool.
LEMMA StoringOwns ==
    ASSUME PoolInv, PoolShape', NEW w \in Walkers, walker[w].pc = "store", ~Pooled(walker[w].key),
           sessions' = [sessions EXCEPT ![walker[w].key] =
                          [session |-> walker[w].session, inUse |-> TRUE]],
           PoolAt(w, "use", walker[w].key, walker[w].session), UNCHANGED open
    PROVE  PoolOwns'
<1> USE DEF PoolInv, PoolShape
<1> DEFINE key == walker[w].key
           x == walker[w].session
<1>1. key \in Keys /\ x \in Session /\ Private(w) /\ x \in open /\ x # 0
  BY KeysAreFinite DEF Private, Holds, PoolOwns
<1>2. \A k \in Keys : sessions'[k] = IF k = key THEN [session |-> x, inUse |-> TRUE] ELSE sessions[k]
  BY DEF PoolTypeOK
<1>3. \A v \in Walkers : walker'[v] = IF v = w THEN [pc |-> "use", key |-> key, session |-> x]
                                              ELSE walker[v]
  BY DEF PoolTypeOK, PoolAt
<1> HIDE DEF key, x
<1>4. \A k \in Keys : k # key => (Pooled(k)' <=> Pooled(k)) /\ sessions'[k] = sessions[k]
  BY <1>2 DEF Pooled
<1>5. sessions'[key].session = x
  BY <1>1, <1>2, SMTT(20)
<1>6. \A v \in Walkers : walker'[v].session = walker[v].session
  BY <1>3, SMTT(20) DEF x
<1>7. \A v \in Walkers : Private(v)' => v # w /\ Private(v)
  BY <1>3, SMTT(20) DEF Private
<1>8. \A k \in Keys : Pooled(k)' => sessions'[k].session \in open'
  <2>1. \A k \in Keys : Pooled(k) => sessions[k].session \in open'
    BY DEF PoolOwns
  <2>2. sessions'[key].session \in open'
    BY <1>1, <1>5
  <2> QED
    BY ONLY <1>4, <2>1, <2>2, SMTT(30)
<1>9. \A j, k \in Keys : Pooled(j)' /\ Pooled(k)' /\ j # k => sessions'[j].session # sessions'[k].session
  <2>1. \A k \in Keys : sessions[k].session # x
    BY <1>1 DEF PoolOwns, x
  <2>2. \A j, k \in Keys : Pooled(j) /\ Pooled(k) /\ j # k => sessions[j].session # sessions[k].session
    BY DEF PoolOwns
  <2>3. \A k \in Keys : k # key => sessions'[k].session # sessions'[key].session
    BY <1>4, <1>5, <2>1
  <2>4. \A j, k \in Keys : Pooled(j)' /\ Pooled(k)' /\ j # k /\ j # key /\ k # key
                            => sessions'[j].session # sessions'[k].session
    <3> SUFFICES ASSUME NEW j \in Keys, NEW k \in Keys, Pooled(j)', Pooled(k)', j # k, j # key, k # key
                 PROVE  sessions'[j].session # sessions'[k].session
      OBVIOUS
    <3>1. Pooled(j) /\ sessions'[j] = sessions[j]
      BY <1>4
    <3>2. Pooled(k) /\ sessions'[k] = sessions[k]
      BY <1>4
    <3>3. sessions[j].session # sessions[k].session
      BY <2>2, <3>1, <3>2
    <3> QED
      BY <3>1, <3>2, <3>3
  <2> QED
    BY <2>3, <2>4
<1>10. \A v \in Walkers : Private(v)' => walker'[v].session \in open'
  BY <1>6, <1>7 DEF PoolOwns
<1>11. \A v \in Walkers, k \in Keys : Private(v)' => sessions'[k].session # walker'[v].session
  <2>1. \A v \in Walkers : Private(v)' => walker[v].session # x
    BY <1>7 DEF PoolOwns, x
  <2>2. \A v \in Walkers, k \in Keys : Private(v) => sessions[k].session # walker[v].session
    BY DEF PoolOwns
  <2>3. \A v \in Walkers, k \in Keys : Private(v)' => sessions'[k].session # walker[v].session
    BY ONLY <1>4, <1>5, <1>7, <2>1, <2>2, SMTT(30)
  <2> QED
    BY ONLY <1>6, <2>3, SMTT(30)
<1>12. \A u, v \in Walkers : Private(v)' /\ u # v => walker'[u].session # walker'[v].session
  <2>1. \A u, v \in Walkers : Private(v) /\ u # v => walker[u].session # walker[v].session
    BY DEF PoolOwns
  <2> QED
    BY ONLY <1>6, <1>7, <2>1, SMTT(30)
<1>13. \A s \in Session : (\E k \in Keys : sessions[k].session = s)
                              => \E k \in Keys : sessions'[k].session = s
  <2>1. sessions[key].session = 0 /\ 0 \notin Session
    BY <1>1, PooledIs, KeysAreFinite DEF key
  <2> QED
    BY <1>4, <2>1
<1>14. \A v \in Walkers : walker'[v].pc = "use" /\ walker'[v].session \in open' =>
                             \E k \in Keys : sessions'[k].session = walker'[v].session
  <2> SUFFICES ASSUME NEW v \in Walkers, walker'[v].pc = "use", walker'[v].session \in open'
               PROVE  \E k \in Keys : sessions'[k].session = walker'[v].session
    OBVIOUS
  <2>1. CASE v = w
    BY <1>1, <1>5, <1>6, <2>1 DEF x
  <2>2. CASE v # w
    <3>1. walker'[v] = walker[v] /\ walker[v].pc = "use" /\ walker[v].session \in open
      BY <1>3, <2>2
    <3>2. walker[v].session \in Session
      BY <3>1 DEF Holds
    <3>3. \E k \in Keys : sessions[k].session = walker[v].session
      BY <3>1 DEF PoolOwns
    <3>4. \E k \in Keys : sessions'[k].session = walker[v].session
      BY ONLY <1>13, <3>2, <3>3, SMTT(30)
    <3> QED
      BY ONLY <3>1, <3>4, SMTT(30)
  <2> QED
    BY <2>1, <2>2
<1>15. SocketsOwned'
  <2>1. open' = open /\ open \subseteq Session /\ SocketsOwned
    BY DEF PoolOwns, PoolTypeOK
  <2> QED
    BY ONLY <1>6, <1>13, <2>1, SMTT(30) DEF SocketsOwned
<1> QED
  BY <1>8, <1>9, <1>10, <1>11, <1>12, <1>14, <1>15 DEF PoolOwns

\* Every step leaves every socket with its one owner.
LEMMA PoolOwnsStep == PoolInv /\ [PoolNext]_poolVars => PoolOwns'
<1> SUFFICES ASSUME PoolInv, [PoolNext]_poolVars PROVE PoolOwns'
  OBVIOUS
<1>0. PoolShape'
  BY PoolShapeStep
<1> USE DEF PoolInv, PoolShape
<1>1. ASSUME NEW w \in Walkers, NEW r, walker' = [walker EXCEPT ![w] = r],
             \/ UNCHANGED sessions
             \/ \E k \in Keys, b \in BOOLEAN :
                  sessions' = [sessions EXCEPT ![k] = [session |-> @.session, inUse |-> b]]
      PROVE  OneWalker(w, r)
  <2>1. \A v \in Walkers : walker'[v] = IF v = w THEN r ELSE walker[v]
    BY <1>1 DEF PoolTypeOK
  <2>2. \A k \in Keys : sessions'[k].session = sessions[k].session
    BY <1>1, SMTT(30) DEF PoolTypeOK
  <2> QED
    BY <2>1, <2>2 DEF OneWalker
<1>2. ASSUME NEW w \in Walkers, NEW k \in Keys, AcquireSession(w, k) PROVE PoolOwns'
  <2>1. ~Private(w) /\ UNCHANGED open
    BY <1>2 DEF AcquireSession, Private
  <2>2. CASE CheckOut(w, k)
    <3> DEFINE r == [pc |-> "use", key |-> k, session |-> sessions[k].session]
    <3>1. OneWalker(w, r)
      BY <1>1, <2>2 DEF CheckOut, PoolAt
    <3>2. ~Private(w)'
      BY <3>1, SMTT(30) DEF OneWalker, Private
    <3> QED
      BY <1>0, <2>1, <3>1, <3>2, TurnOwns
  <2>3. ASSUME NEW p \in {"dialTransient", "dial"}, PoolAt(w, p, k, 0), UNCHANGED sessions
        PROVE  PoolOwns'
    <3> DEFINE r == [pc |-> p, key |-> k, session |-> 0]
    <3>1. OneWalker(w, r)
      BY <1>1, <2>3 DEF PoolAt
    <3>2. ~Private(w)'
      BY <3>1, SMTT(30) DEF OneWalker, Private
    <3> QED
      BY <1>0, <2>1, <3>1, <3>2, TurnOwns
  <2> QED
    BY <1>2, <2>2, <2>3 DEF AcquireSession
<1>3. ASSUME NEW w \in Walkers, Dial(w) PROVE PoolOwns'
  <2>1. ~Private(w) /\ ~Holds(w) /\ UNCHANGED sessions
    BY <1>3 DEF Dial, Private, Holds
  <2>2. CASE walker' = [walker EXCEPT ![w] = Idle] /\ UNCHANGED open
    <3>1. OneWalker(w, Idle)
      BY <1>1, <2>1, <2>2
    <3>2. ~Private(w)' /\ Idle.session = 0
      BY <3>1, SMTT(20) DEF OneWalker, Private, Idle
    <3> QED
      BY <1>0, <2>1, <2>2, <3>1, <3>2, TurnOwns
  <2>3. CASE /\ open' = open \cup {Fresh}
             /\ PoolAt(w, IF walker[w].pc = "dial" THEN "store" ELSE "useTransient", walker[w].key, Fresh)
    <3>1. PICK p \in {"store", "useTransient"} : PoolAt(w, p, walker[w].key, Fresh)
      BY <2>3
    <3> DEFINE r == [pc |-> p, key |-> walker[w].key, session |-> Fresh]
    <3>2. OneWalker(w, r)
      BY <1>1, <2>1, <3>1 DEF PoolAt
    <3>3. Private(w)'
      BY <3>2, SMTT(30) DEF OneWalker, Private
    <3>4. Fresh \in Session /\ Fresh \notin open /\ \A v \in Walkers : walker[v].session # Fresh
      BY <2>1, FreshIsNew
    <3>5. \A k \in Keys : sessions[k].session # Fresh
      <4>1. \A k \in Keys : Pooled(k) => sessions[k].session \in open
        BY DEF PoolOwns
      <4>2. \A k \in Keys : ~Pooled(k) => sessions[k].session = 0
        BY PooledIs
      <4>3. Fresh # 0
        BY <3>4, KeysAreFinite
      <4> QED
        BY ONLY <3>4, <4>1, <4>2, <4>3, SMTT(30)
    <3>6. r.session = Fresh
      BY ONLY SMTT(30)
    <3> HIDE DEF r
    <3> QED
      BY <1>0, <2>1, <2>3, <3>2, <3>3, <3>4, <3>5, <3>6, PrivateOwns
  <2> QED
    BY <1>3, <2>2, <2>3 DEF Dial
<1>4. ASSUME NEW w \in Walkers, Store(w) PROVE PoolOwns'
  <2> DEFINE key == walker[w].key
             x == walker[w].session
  <2>1. key \in Keys /\ x \in Session /\ x \in open /\ Private(w) /\ walker[w].pc = "store"
    BY <1>4 DEF Store, Holds, Private, PoolOwns
  <2>2. CASE PoolAt(w, "useTransient", key, x) /\ UNCHANGED <<sessions, open>>
    <3> DEFINE r == [pc |-> "useTransient", key |-> key, session |-> x]
    <3>1. OneWalker(w, r)
      BY <1>1, <2>2 DEF PoolAt
    <3>2. Private(w)'
      <4>1. walker'[w] = r
        BY <3>1 DEF OneWalker
      <4>2. r.pc = "useTransient"
        BY ONLY SMT
      <4> QED
        BY <4>1, <4>2 DEF Private
    <3>3. /\ \A k \in Keys : sessions[k].session # x
          /\ \A v \in Walkers : v # w => walker[v].session # x
          /\ open' = open \cup {x}
      BY <2>1, <2>2 DEF PoolOwns
    <3>4. r.session = x
      BY ONLY SMT
    <3> HIDE DEF r
    <3> QED
      BY <1>0, <2>1, <3>1, <3>2, <3>3, <3>4, PrivateOwns
  <2>3. CASE CheckOut(w, key) /\ open' = open \ {x}
    <3> DEFINE r == [pc |-> "use", key |-> key, session |-> sessions[key].session]
    <3>1. OneWalker(w, r)
      BY <1>1, <2>1, <2>3 DEF CheckOut, PoolAt
    <3>2. ~Private(w)'
      BY <3>1, SMTT(30) DEF OneWalker, Private
    <3> QED
      BY <1>0, <2>1, <2>3, <3>1, <3>2, TurnOwns
  <2>4. CASE /\ ~Pooled(key) /\ sessions' = [sessions EXCEPT ![key] = [session |-> x, inUse |-> TRUE]]
             /\ PoolAt(w, "use", key, x) /\ UNCHANGED open
    BY <1>0, <2>1, <2>4, StoringOwns
  <2> QED
    BY <1>4, <2>2, <2>3, <2>4 DEF Store
<1>5. ASSUME NEW w \in Walkers, ReleaseTransient(w) \/ Return(w) PROVE PoolOwns'
  <2>1. OneWalker(w, Idle)
    <3>1. walker' = [walker EXCEPT ![w] = Idle] /\ walker[w].key \in Keys
      BY <1>5 DEF ReleaseTransient, Return
    <3>2. \/ UNCHANGED sessions
          \/ \E k \in Keys, b \in BOOLEAN :
               sessions' = [sessions EXCEPT ![k] = [session |-> @.session, inUse |-> b]]
      BY <1>5, <3>1 DEF ReleaseTransient, Return, ReturnKey
    <3> QED
      BY <1>1, <3>1, <3>2
  <2>2. ~Private(w)' /\ Idle.session = 0
    BY <2>1, SMTT(20) DEF OneWalker, Private, Idle
  <2>3. open' = IF Private(w) THEN open \ {walker[w].session} ELSE open
    BY <1>5 DEF ReleaseTransient, Return, Private
  <2> QED
    BY <1>0, <2>1, <2>2, <2>3, TurnOwns
<1>6. ASSUME NEW w \in Walkers, EvictKey(w) PROVE PoolOwns'
  <2>1. \A v \in Walkers : walker'[v] = walker[v] \/ (walker'[v] = Idle /\ walker[v].pc = "use")
    BY <1>6 DEF EvictKey, PoolTypeOK
  <2>2. {walker[w].key} \in SUBSET Keys /\ CloseEntries({walker[w].key})
    BY <1>6 DEF EvictKey
  <2> QED
    BY <1>0, <2>1, <2>2, RemovalOwns
<1>7. ASSUME NEW ks \in SUBSET Keys, CloseEntries(ks), UNCHANGED walker PROVE PoolOwns'
  BY <1>0, <1>7, RemovalOwns
<1>8. ASSUME EvictSession \/ (\E p \in Profiles : InvalidateProfile(p)) \/ Close
      PROVE  \E ks \in SUBSET Keys : CloseEntries(ks) /\ UNCHANGED walker
  BY <1>8 DEF EvictSession, InvalidateProfile, Close, Expired
<1>9. CASE UNCHANGED poolVars
  BY <1>9 DEF poolVars, PoolOwns, Pooled, Private, SocketsOwned
<1> QED
  BY <1>2, <1>3, <1>4, <1>5, <1>6, <1>7, <1>8, <1>9 DEF PoolNext

-----------------------------------------------------------------------------
(* and every entry in use with its one user                                *)

\* An unused entry is checked out: before shutdown every other user has another one.
LEMMA CheckOutUses ==
    ASSUME PoolInv, NEW w \in Walkers, walker[w].pc # "use", NEW k \in Keys,
           ~closed, MayReuse(k), CheckOut(w, k), UNCHANGED <<closed, pulled>>
    PROVE  PoolUses'
<1> USE DEF PoolInv, PoolShape
<1>1. \A j \in Keys : sessions'[j] = IF j = k THEN [session |-> sessions[k].session, inUse |-> TRUE]
                                              ELSE sessions[j]
  BY DEF CheckOut, PoolTypeOK
<1>2. \A v \in Walkers : walker'[v] = IF v = w THEN [pc |-> "use", key |-> k,
                                                     session |-> sessions[k].session]
                                              ELSE walker[v]
  BY DEF CheckOut, PoolAt, PoolTypeOK
<1> SUFFICES ASSUME ~pulled' PROVE PoolUses'
  BY DEF PoolUses
<1>3. \A v \in Walkers : walker[v].pc = "use" =>
                            walker[v].key # k /\ walker[v].session # sessions[k].session
  <2>1. ~sessions[k].inUse /\ Pooled(k)
    BY DEF MayReuse
  <2>2. \A v \in Walkers : walker[v].pc = "use" =>
          /\ walker[v].key \in Keys /\ Pooled(walker[v].key) /\ sessions[walker[v].key].inUse
          /\ sessions[walker[v].key].session = walker[v].session
    BY DEF PoolUses
  <2>3. \A i, j \in Keys : Pooled(i) /\ Pooled(j) /\ i # j => sessions[i].session # sessions[j].session
    BY DEF PoolOwns
  <2>4. \A v \in Walkers : walker[v].pc = "use" => walker[v].key # k
    BY ONLY <2>1, <2>2, SMTT(30)
  <2>5. k \in Keys
    OBVIOUS
  <2> QED
    BY ONLY <2>1, <2>2, <2>3, <2>4, <2>5, SMTT(20)
<1>4. \A u, v \in Walkers : walker'[u].pc = "use" /\ walker'[v].pc = "use" /\ u # v =>
                               walker'[u].session # walker'[v].session
  <2> SUFFICES ASSUME NEW u \in Walkers, NEW v \in Walkers, u # v,
                      walker'[u].pc = "use", walker'[v].pc = "use"
               PROVE  walker'[u].session # walker'[v].session
    OBVIOUS
  <2>1. CASE u = w
    BY <1>2, <1>3, <2>1, SMTT(20)
  <2>2. CASE v = w
    BY <1>2, <1>3, <2>2, SMTT(20)
  <2>3. CASE u # w /\ v # w
    <3>1. walker'[u] = walker[u] /\ walker'[v] = walker[v]
      BY <1>2, <2>3
    <3>2. walker[u].pc = "use" /\ walker[v].pc = "use"
      BY <3>1
    <3>3. walker[u].session # walker[v].session
      BY <3>2 DEF PoolUses
    <3> QED
      BY <3>1, <3>3
  <2> QED
    BY <2>1, <2>2, <2>3
<1>5. \A v \in Walkers : walker'[v].pc = "use" =>
                            /\ sessions'[walker'[v].key] # NoSession
                            /\ sessions'[walker'[v].key].inUse
                            /\ sessions'[walker'[v].key].session = walker'[v].session
  <2> SUFFICES ASSUME NEW v \in Walkers, walker'[v].pc = "use"
               PROVE  /\ sessions'[walker'[v].key] # NoSession
                      /\ sessions'[walker'[v].key].inUse
                      /\ sessions'[walker'[v].key].session = walker'[v].session
    OBVIOUS
  <2>1. CASE v = w
    <3>1. walker'[v].key = k /\ walker'[v].session = sessions[k].session
      <4>1. walker'[v] = [pc |-> "use", key |-> k, session |-> sessions[k].session]
        BY <1>2, <2>1
      <4> QED
        BY ONLY <4>1, SMTT(30)
    <3>2. sessions'[k].inUse /\ sessions'[k].session = sessions[k].session
      <4>1. sessions'[k] = [session |-> sessions[k].session, inUse |-> TRUE]
        BY <1>1
      <4> QED
        BY ONLY <4>1, SMTT(30)
    <3>3. sessions'[k] # NoSession
      BY <3>2, EntryIs DEF NoSession
    <3> QED
      BY <3>1, <3>2, <3>3
  <2>2. CASE v # w
    <3>1. walker'[v] = walker[v] /\ walker[v].key # k /\ walker[v].key \in Keys
      BY <1>2, <1>3, <2>2
    <3>2. sessions'[walker[v].key] = sessions[walker[v].key]
      BY <1>1, <3>1
    <3>3. /\ sessions[walker[v].key] # NoSession /\ sessions[walker[v].key].inUse
          /\ sessions[walker[v].key].session = walker[v].session
      BY <3>1 DEF PoolUses, Pooled
    <3> QED
      BY <3>1, <3>2, <3>3
  <2> QED
    BY <2>1, <2>2
<1>6. \A j \in Keys : sessions'[j].inUse =>
        \E v \in Walkers : walker'[v].pc = "use" /\ walker'[v].key = j
                            /\ walker'[v].session = sessions'[j].session
  <2> SUFFICES ASSUME NEW j \in Keys, sessions'[j].inUse
               PROVE  \E v \in Walkers : walker'[v].pc = "use" /\ walker'[v].key = j
                                          /\ walker'[v].session = sessions'[j].session
    OBVIOUS
  <2>1. CASE j = k
    <3>1. walker'[w] = [pc |-> "use", key |-> k, session |-> sessions[k].session]
      BY <1>2
    <3>2. sessions'[j] = [session |-> sessions[k].session, inUse |-> TRUE]
      BY <1>1, <2>1
    <3>3. walker'[w].pc = "use" /\ walker'[w].key = j /\ walker'[w].session = sessions'[j].session
      BY ONLY <2>1, <3>1, <3>2, SMTT(30)
    <3> QED
      BY <3>3
  <2>2. CASE j # k
    <3>1. PICK v \in Walkers : walker[v].pc = "use" /\ walker[v].key = j
                                /\ walker[v].session = sessions[j].session
      BY <1>1, <2>2 DEF PoolUses
    <3> QED
      BY <1>1, <1>2, <2>2, <3>1
  <2> QED
    BY <2>1, <2>2
<1> QED
  BY <1>4, <1>5, <1>6 DEF PoolUses, Pooled

\* The users, their entries and the entries in use stay as they are.
LEMMA SameUses ==
    ASSUME PoolInv, pulled' = FALSE => pulled = FALSE, pulled' \in BOOLEAN, closed' = closed,
           \A v \in Walkers : walker[v].pc = "use" => walker'[v] = walker[v],
           \A v \in Walkers : walker'[v].pc = "use" => walker'[v] = walker[v],
           \A k \in Keys : ~pulled' /\ (sessions[k].inUse \/ sessions'[k].inUse) =>
                             sessions'[k] = sessions[k]
    PROVE  PoolUses'
<1> SUFFICES ASSUME ~pulled' PROVE PoolUses'
  BY DEF PoolUses
<1>1. ~pulled
  OBVIOUS
<1>2. \A u, v \in Walkers : walker'[u].pc = "use" /\ walker'[v].pc = "use" /\ u # v =>
                               walker'[u].session # walker'[v].session
  BY <1>1, SMTT(30) DEF PoolInv, PoolUses
<1>3. ~closed' => \A v \in Walkers : walker'[v].pc = "use" =>
                    /\ sessions'[walker'[v].key] # NoSession /\ sessions'[walker'[v].key].inUse
                    /\ sessions'[walker'[v].key].session = walker'[v].session
  <2> SUFFICES ASSUME ~closed, NEW v \in Walkers, walker'[v].pc = "use"
               PROVE  /\ sessions'[walker[v].key] # NoSession /\ sessions'[walker[v].key].inUse
                      /\ sessions'[walker[v].key].session = walker[v].session
    OBVIOUS
  <2>1. walker[v].pc = "use" /\ walker[v].key \in Keys
    BY DEF PoolInv, PoolShape
  <2>2. /\ Pooled(walker[v].key) /\ sessions[walker[v].key].inUse
        /\ sessions[walker[v].key].session = walker[v].session
    BY <1>1, <2>1 DEF PoolInv, PoolUses
  <2> QED
    BY <2>1, <2>2 DEF Pooled
<1>4. \A k \in Keys : sessions'[k].inUse =>
        \E v \in Walkers : walker'[v].pc = "use" /\ walker'[v].key = k
                            /\ walker'[v].session = sessions'[k].session
  BY <1>1, SMTT(30) DEF PoolInv, PoolUses
<1> QED
  BY <1>2, <1>3, <1>4 DEF PoolUses, Pooled

\* A user lets go of its session, and the entry of its key is unused or gone.
LEMMA LetGoUses ==
    ASSUME PoolInv, NEW w \in Walkers, walker[w].pc = "use", walker' = [walker EXCEPT ![w] = Idle],
           UNCHANGED <<closed, pulled>>, ~sessions'[walker[w].key].inUse,
           \A k \in Keys : k # walker[w].key => sessions'[k] = sessions[k]
    PROVE  PoolUses'
<1> USE DEF PoolInv, PoolShape
<1> SUFFICES ASSUME ~pulled' PROVE PoolUses'
  BY DEF PoolUses
<1>1. \A v \in Walkers : walker'[v] = IF v = w THEN Idle ELSE walker[v]
  BY DEF PoolTypeOK
<1>2. \A v \in Walkers : walker'[v].pc = "use" => v # w /\ walker'[v] = walker[v]
  BY <1>1, SMTT(20) DEF Idle
<1>3. \A u, v \in Walkers : walker'[u].pc = "use" /\ walker'[v].pc = "use" /\ u # v =>
                               walker'[u].session # walker'[v].session
  <2>1. \A u, v \in Walkers : walker[u].pc = "use" /\ walker[v].pc = "use" /\ u # v =>
                                 walker[u].session # walker[v].session
    BY DEF PoolUses
  <2> QED
    BY ONLY <1>2, <2>1, SMTT(30)
<1>4. ~closed' => \A v \in Walkers : walker'[v].pc = "use" =>
                    /\ sessions'[walker'[v].key] # NoSession /\ sessions'[walker'[v].key].inUse
                    /\ sessions'[walker'[v].key].session = walker'[v].session
  <2> SUFFICES ASSUME ~closed, NEW v \in Walkers, walker'[v].pc = "use"
               PROVE  /\ sessions'[walker[v].key] # NoSession /\ sessions'[walker[v].key].inUse
                      /\ sessions'[walker[v].key].session = walker[v].session
    BY <1>2
  <2>1. v # w /\ walker[v].pc = "use" /\ walker[v].key \in Keys
    BY <1>2
  <2>2. walker[v].key # walker[w].key
    <3>1. sessions[walker[v].key].session = walker[v].session /\ sessions[walker[w].key].session = walker[w].session
      BY <2>1 DEF PoolUses
    <3>2. walker[v].session # walker[w].session
      BY <2>1 DEF PoolUses
    <3> QED
      BY <3>1, <3>2
  <2>3. sessions'[walker[v].key] = sessions[walker[v].key]
    BY <2>1, <2>2
  <2>4. /\ sessions[walker[v].key] # NoSession /\ sessions[walker[v].key].inUse
        /\ sessions[walker[v].key].session = walker[v].session
    BY <2>1 DEF PoolUses, Pooled
  <2> QED
    BY <2>3, <2>4
<1>5. \A k \in Keys : sessions'[k].inUse =>
        \E v \in Walkers : walker'[v].pc = "use" /\ walker'[v].key = k
                            /\ walker'[v].session = sessions'[k].session
  <2> SUFFICES ASSUME NEW k \in Keys, sessions'[k].inUse
               PROVE  \E v \in Walkers : walker'[v].pc = "use" /\ walker'[v].key = k
                                         /\ walker'[v].session = sessions'[k].session
    OBVIOUS
  <2>1. k # walker[w].key /\ sessions'[k] = sessions[k]
    OBVIOUS
  <2>2. PICK v \in Walkers : walker[v].pc = "use" /\ walker[v].key = k
                               /\ walker[v].session = sessions[k].session
    BY <2>1 DEF PoolUses
  <2>3. v # w
    BY <2>1, <2>2
  <2>4. walker'[v] = walker[v]
    BY <1>1, <2>3
  <2> QED
    BY <2>1, <2>2, <2>4
<1> QED
  BY <1>3, <1>4, <1>5 DEF PoolUses, Pooled

\* A walker becomes the user of the entry it has just made.
LEMMA StoringUses ==
    ASSUME PoolInv, NEW w \in Walkers, walker[w].pc = "store", ~Pooled(walker[w].key), ~closed,
           sessions' = [sessions EXCEPT ![walker[w].key] =
                          [session |-> walker[w].session, inUse |-> TRUE]],
           PoolAt(w, "use", walker[w].key, walker[w].session), UNCHANGED <<closed, pulled>>
    PROVE  PoolUses'
<1> USE DEF PoolInv, PoolShape
<1> DEFINE key == walker[w].key
           x == walker[w].session
<1>1. key \in Keys /\ x \in Session /\ x # 0 /\ Private(w)
  BY KeysAreFinite DEF Private, Holds
<1>2. \A k \in Keys : sessions'[k] = IF k = key THEN [session |-> x, inUse |-> TRUE] ELSE sessions[k]
  BY DEF PoolTypeOK
<1>3. \A v \in Walkers : walker'[v] = IF v = w THEN [pc |-> "use", key |-> key, session |-> x]
                                              ELSE walker[v]
  BY DEF PoolTypeOK, PoolAt
<1> SUFFICES ASSUME ~pulled' PROVE PoolUses'
  BY DEF PoolUses
<1>4. \A v \in Walkers : walker[v].pc = "use" => walker[v].key # key /\ walker[v].session # x
  BY <1>1 DEF PoolUses, PoolOwns
<1> HIDE DEF key, x
<1>5. \A u, v \in Walkers : walker'[u].pc = "use" /\ walker'[v].pc = "use" /\ u # v =>
                               walker'[u].session # walker'[v].session
  <2>1. \A u, v \in Walkers : walker[u].pc = "use" /\ walker[v].pc = "use" /\ u # v =>
                                 walker[u].session # walker[v].session
    BY DEF PoolUses
  <2>2. \A v \in Walkers : v = w => walker'[v].session = x
    BY ONLY <1>3, SMTT(30)
  <2>3. \A v \in Walkers : v # w => walker'[v] = walker[v]
    BY ONLY <1>3, SMTT(30)
  <2> QED
    BY ONLY <1>4, <2>1, <2>2, <2>3, SMTT(30)
<1>6. \A v \in Walkers : walker'[v].pc = "use" =>
                            /\ sessions'[walker'[v].key] # NoSession
                            /\ sessions'[walker'[v].key].inUse
                            /\ sessions'[walker'[v].key].session = walker'[v].session
  <2> SUFFICES ASSUME NEW v \in Walkers, walker'[v].pc = "use"
               PROVE  /\ sessions'[walker'[v].key] # NoSession
                      /\ sessions'[walker'[v].key].inUse
                      /\ sessions'[walker'[v].key].session = walker'[v].session
    OBVIOUS
  <2>1. CASE v = w
    <3>1. walker'[v].key = key /\ walker'[v].session = x
      <4>1. walker'[v] = [pc |-> "use", key |-> key, session |-> x]
        BY <1>3, <2>1
      <4> QED
        BY ONLY <4>1, SMTT(30)
    <3>2. sessions'[key] = [session |-> x, inUse |-> TRUE]
      BY <1>1, <1>2
    <3>3. sessions'[key].inUse /\ sessions'[key].session = x
      BY ONLY <3>2, SMTT(30)
    <3>4. NoSession.session = 0
      BY ONLY SMT DEF NoSession
    <3>5. sessions'[key] # NoSession
      BY <1>1, <3>3, <3>4
    <3> QED
      BY <3>1, <3>3, <3>5
  <2>2. CASE v # w
    <3>1. walker'[v] = walker[v] /\ walker[v].key # key /\ walker[v].key \in Keys
      BY <1>3, <1>4, <2>2
    <3>2. sessions'[walker[v].key] = sessions[walker[v].key]
      BY <1>2, <3>1
    <3>3. walker[v].pc = "use" /\ ~pulled
      BY <3>1
    <3>4. /\ sessions[walker[v].key] # NoSession /\ sessions[walker[v].key].inUse
          /\ sessions[walker[v].key].session = walker[v].session
      BY <3>3 DEF PoolUses, Pooled
    <3> QED
      BY <3>1, <3>2, <3>4
  <2> QED
    BY <2>1, <2>2
<1>7. \A j \in Keys : sessions'[j].inUse =>
        \E v \in Walkers : walker'[v].pc = "use" /\ walker'[v].key = j
                            /\ walker'[v].session = sessions'[j].session
  <2> SUFFICES ASSUME NEW j \in Keys, sessions'[j].inUse
               PROVE  \E v \in Walkers : walker'[v].pc = "use" /\ walker'[v].key = j
                                          /\ walker'[v].session = sessions'[j].session
    OBVIOUS
  <2>1. CASE j = key
    <3>1. walker'[w] = [pc |-> "use", key |-> key, session |-> x]
      BY <1>3
    <3>2. sessions'[j] = [session |-> x, inUse |-> TRUE]
      BY <1>2, <2>1
    <3>3. walker'[w].pc = "use" /\ walker'[w].key = j /\ walker'[w].session = sessions'[j].session
      BY ONLY <2>1, <3>1, <3>2, SMT
    <3> QED
      BY <3>3
  <2>2. CASE j # key
    <3>1. PICK v \in Walkers : walker[v].pc = "use" /\ walker[v].key = j
                                /\ walker[v].session = sessions[j].session
      <4>1. sessions'[j] = sessions[j]
        BY <1>2, <2>2
      <4> QED
        BY <4>1 DEF PoolUses
    <3> QED
      BY <1>2, <1>3, <2>2, <3>1
  <2> QED
    BY <2>1, <2>2
<1> QED
  BY <1>5, <1>6, <1>7 DEF PoolUses, Pooled

\* Every step keeps users apart, until a rotation pulls an entry in use.
LEMMA PoolUsesStep == PoolInv /\ [PoolNext]_poolVars => PoolUses'
<1> SUFFICES ASSUME PoolInv, [PoolNext]_poolVars PROVE PoolUses'
  OBVIOUS
<1> USE DEF PoolInv, PoolShape
<1>1. ASSUME NEW w \in Walkers, NEW r, walker' = [walker EXCEPT ![w] = r], r.pc # "use",
             walker[w].pc # "use", UNCHANGED <<sessions, closed, pulled>>
      PROVE  PoolUses'
  <2>1. \A v \in Walkers : walker'[v] = IF v = w THEN r ELSE walker[v]
    BY <1>1 DEF PoolTypeOK
  <2>2. pulled' \in BOOLEAN /\ pulled' = pulled /\ closed' = closed
    BY <1>1 DEF PoolTypeOK
  <2>3. \A v \in Walkers : walker[v].pc = "use" => walker'[v] = walker[v]
    BY <1>1, <2>1
  <2>4. \A v \in Walkers : walker'[v].pc = "use" => walker'[v] = walker[v]
    BY <1>1, <2>1
  <2> QED
    BY <1>1, <2>2, <2>3, <2>4, SameUses
<1>2. ASSUME NEW w \in Walkers, NEW k \in Keys, AcquireSession(w, k) PROVE PoolUses'
  <2>1. walker[w].pc # "use" /\ UNCHANGED <<closed, pulled>>
    BY <1>2 DEF AcquireSession
  <2>2. CASE ~closed /\ MayReuse(k) /\ CheckOut(w, k)
    BY <2>1, <2>2, CheckOutUses
  <2>3. CASE UNCHANGED sessions /\ (PoolAt(w, "dialTransient", k, 0) \/ PoolAt(w, "dial", k, 0))
    BY <1>1, <2>1, <2>3, SMTT(30) DEF PoolAt
  <2> QED
    BY <1>2, <2>2, <2>3 DEF AcquireSession
<1>3. ASSUME NEW w \in Walkers, Dial(w) PROVE PoolUses'
  <2>1. walker[w].pc # "use" /\ UNCHANGED <<sessions, closed, pulled>>
    BY <1>3 DEF Dial
  <2>2. \E r : walker' = [walker EXCEPT ![w] = r] /\ r.pc # "use"
    <3>1. CASE walker' = [walker EXCEPT ![w] = Idle]
      <4>1. Idle.pc # "use"
        BY DEF Idle
      <4> QED
        BY <3>1, <4>1
    <3>2. CASE walker' # [walker EXCEPT ![w] = Idle]
      <4>1. PICK q \in {"store", "useTransient"} : PoolAt(w, q, walker[w].key, Fresh)
        BY <1>3, <3>2 DEF Dial
      <4> DEFINE r == [pc |-> q, key |-> walker[w].key, session |-> Fresh]
      <4>2. walker' = [walker EXCEPT ![w] = r] /\ r.pc # "use"
        BY <4>1 DEF PoolAt
      <4> QED
        BY <4>2
    <3> QED
      BY <3>1, <3>2
  <2> QED
    BY <1>1, <2>1, <2>2
<1>4. ASSUME NEW w \in Walkers, Store(w) PROVE PoolUses'
  <2> DEFINE key == walker[w].key
             x == walker[w].session
  <2>1. key \in Keys /\ walker[w].pc = "store" /\ UNCHANGED <<closed, pulled>>
    BY <1>4 DEF Store
  <2>2. CASE PoolAt(w, "useTransient", key, x) /\ UNCHANGED sessions
    <3> DEFINE r == [pc |-> "useTransient", key |-> key, session |-> x]
    <3>1. walker' = [walker EXCEPT ![w] = r] /\ r.pc # "use" /\ walker[w].pc # "use"
      BY <2>1, <2>2 DEF PoolAt
    <3> HIDE DEF r
    <3> QED
      BY <1>1, <2>1, <2>2, <3>1
  <2>3. CASE ~closed /\ MayReuse(key) /\ CheckOut(w, key)
    BY <2>1, <2>3, CheckOutUses
  <2>4. CASE /\ ~closed /\ ~Pooled(key) /\ PoolAt(w, "use", key, x)
             /\ sessions' = [sessions EXCEPT ![key] = [session |-> x, inUse |-> TRUE]]
    BY <2>1, <2>4, StoringUses
  <2> QED
    BY <1>4, <2>2, <2>3, <2>4 DEF Store
<1>5. ASSUME NEW w \in Walkers, ReleaseTransient(w) PROVE PoolUses'
  <2>1. Idle.pc # "use"
    BY DEF Idle
  <2> QED
    BY <1>1, <1>5, <2>1 DEF ReleaseTransient
<1>6. ASSUME NEW w \in Walkers, Return(w) PROVE PoolUses'
  <2>1. walker[w].pc = "use" /\ walker[w].key \in Keys /\ UNCHANGED <<closed, pulled>>
        /\ walker' = [walker EXCEPT ![w] = Idle]
    BY <1>6 DEF Return
  <2>2. ~sessions'[walker[w].key].inUse
    <3>1. CASE Pooled(walker[w].key)
      BY <1>6, <2>1, <3>1 DEF Return, ReturnKey, PoolTypeOK
    <3>2. CASE ~Pooled(walker[w].key)
      BY <1>6, <2>1, <3>2, PooledIs DEF Return, ReturnKey
    <3> QED
      BY <3>1, <3>2
  <2>3. \A k \in Keys : k # walker[w].key => sessions'[k] = sessions[k]
    BY <1>6 DEF Return, ReturnKey, PoolTypeOK
  <2> QED
    BY <2>1, <2>2, <2>3, LetGoUses
<1>7. ASSUME NEW w \in Walkers, EvictKey(w) PROVE PoolUses'
  <2>1. walker[w].pc = "use" /\ walker[w].key \in Keys /\ UNCHANGED <<closed, pulled>>
        /\ walker' = [walker EXCEPT ![w] = Idle]
    BY <1>7 DEF EvictKey
  <2>2. ~sessions'[walker[w].key].inUse
    BY <1>7, <2>1 DEF EvictKey, CloseEntries, NoSession
  <2>3. \A k \in Keys : k # walker[w].key => sessions'[k] = sessions[k]
    BY <1>7 DEF EvictKey, CloseEntries
  <2> QED
    BY <2>1, <2>2, <2>3, LetGoUses
<1>8. ASSUME NEW ks \in SUBSET Keys, CloseEntries(ks), UNCHANGED <<walker, closed>>, pulled' \in BOOLEAN,
             ~pulled' => ~pulled /\ \A k \in ks : ~sessions[k].inUse
      PROVE  PoolUses'
  <2>1. \A k \in Keys : sessions'[k] = IF k \in ks THEN NoSession ELSE sessions[k]
    BY <1>8 DEF CloseEntries
  <2>2. \A k \in Keys : ~pulled' /\ (sessions[k].inUse \/ sessions'[k].inUse) =>
                          sessions'[k] = sessions[k]
    BY <1>8, <2>1, SMTT(30) DEF NoSession
  <2>3. pulled' = FALSE => pulled = FALSE
    BY <1>8 DEF PoolTypeOK
  <2> QED
    BY <1>8, <2>2, <2>3, SameUses
<1>9. ASSUME EvictSession PROVE PoolUses'
  <2>1. PICK ks \in SUBSET Expired : CloseEntries(ks)
    BY <1>9 DEF EvictSession
  <2>2. ks \in SUBSET Keys /\ \A k \in ks : ~sessions[k].inUse
    BY DEF Expired
  <2> QED
    BY <1>8, <1>9, <2>1, <2>2 DEF EvictSession, PoolTypeOK
<1>10. ASSUME NEW p \in Profiles, InvalidateProfile(p) PROVE PoolUses'
  <2> DEFINE ks == {k \in Keys : k[2] = p /\ Pooled(k)}
  <2>1. CloseEntries(ks) /\ UNCHANGED <<walker, closed>>
        /\ pulled' = (pulled \/ \E k \in ks : sessions[k].inUse)
    BY <1>10 DEF InvalidateProfile
  <2>2. ks \in SUBSET Keys
    OBVIOUS
  <2> HIDE DEF ks
  <2>3. ~pulled' => ~pulled /\ \A k \in ks : ~sessions[k].inUse
    BY <2>1
  <2>4. pulled' \in BOOLEAN
    BY <2>1
  <2> QED
    BY <1>8, <2>1, <2>2, <2>3, <2>4
<1>11. ASSUME Close PROVE PoolUses'
  <2>1. \A k \in Keys : ~sessions'[k].inUse
    BY <1>11 DEF Close, CloseEntries, NoSession
  <2> QED
    BY <1>11, <2>1 DEF Close, PoolUses
<1>12. CASE UNCHANGED poolVars
  <2>1. pulled' = FALSE => pulled = FALSE
    BY <1>12 DEF poolVars
  <2> QED
    BY <1>12, <2>1, SameUses DEF poolVars, PoolTypeOK
<1> QED
  BY <1>2, <1>3, <1>4, <1>5, <1>6, <1>7, <1>9, <1>10, <1>11, <1>12 DEF PoolNext

-----------------------------------------------------------------------------
(* The theorems                                                            *)

\* Every reachable state of the pool satisfies the inductive invariant.
THEOREM PoolInvariant == PoolSpec => []PoolInv
<1>1. PoolInit => PoolInv
  BY PoolStart
<1>2. PoolInv /\ [PoolNext]_poolVars => PoolInv'
  BY PoolShapeStep, PoolOwnsStep, PoolUsesStep DEF PoolInv
<1> QED
  BY <1>1, <1>2, PTL DEF PoolSpec

\* The types of the pool's map and of its walkers (pool.go's sessionPool and poolEntry).
THEOREM PoolTypeCorrect == PoolSpec => []PoolTypeOK
<1>1. PoolInv => PoolTypeOK
  BY DEF PoolInv, PoolShape
<1> QED
  BY <1>1, PoolInvariant, PTL

\* acquire and release never put one session in the hands of two walkers, as long as no
\* rotation has removed an entry in use.
THEOREM SessionsAreExclusive == PoolSpec => []NeverAliased
<1>1. PoolInv => NeverAliased
  BY DEF PoolInv, PoolOwns, PoolUses, NeverAliased, Using, Private
<1> QED
  BY <1>1, PoolInvariant, PTL

\* No interleaving of acquire, release, evictSession, InvalidateProfile and Close leaves a
\* socket open that nobody can close.
THEOREM NoSocketLeaks == PoolSpec => []SocketsOwned
<1>1. PoolInv => SocketsOwned
  BY DEF PoolInv, PoolOwns
<1> QED
  BY <1>1, PoolInvariant, PTL

\* Before shutdown, and without a rotation, a walker's socket stays open under it.
THEOREM SocketsStayOpen == PoolSpec => []UsedIsOpen
<1>1. PoolInv => UsedIsOpen
  <2> SUFFICES ASSUME PoolInv, ~closed, ~pulled, NEW w \in Walkers, Using(w)
               PROVE  walker[w].session \in open
    BY DEF UsedIsOpen
  <2>1. CASE Private(w)
    BY <2>1 DEF PoolInv, PoolOwns
  <2>2. CASE walker[w].pc = "use"
    <3>1. walker[w].key \in Keys /\ Pooled(walker[w].key)
          /\ sessions[walker[w].key].session = walker[w].session
      BY <2>2 DEF PoolInv, PoolShape, PoolUses
    <3> QED
      BY <3>1 DEF PoolInv, PoolOwns
  <2> QED
    BY <2>1, <2>2 DEF Using, Private
<1> QED
  BY <1>1, PoolInvariant, PTL

\* An entry marked in use has the walker that will return or evict it.
THEOREM EntriesAreReturned == PoolSpec => []InUseHasUser
<1>1. PoolInv => InUseHasUser
  BY DEF PoolInv, PoolUses, InUseHasUser
<1> QED
  BY <1>1, PoolInvariant, PTL

-----------------------------------------------------------------------------
(* SnmpWalk                                                                *)

\* Where the caller is when its goroutine is reading, has sent, or is not there; and
\* how many requests began after the end of the context by then: none until one is
\* under way, and none at all while the context lives.
WalkInv ==
    /\ call.pc \in {"idle", "limited", "start", "select", "join", "recheck", "returned"}
    /\ fetch.pc \in {"none", "reading", "sent"}
    /\ late \in 0..1
    /\ call.pc \in {"select", "join"} => fetch.pc \in {"reading", "sent"}
    /\ fetch.pc \in {"reading", "sent"} => call.pc \in {"select", "join"}
    /\ call.pc \in {"limited", "start"} => late = 0
    /\ ~ended /\ call.pc # "idle" /\ call.pc # "returned" => late = 0

\* The initial state satisfies the invariant.
LEMMA WalkStart == WalkInit => WalkInv
BY SMT DEF WalkInit, WalkInv, NoFetch

\* Every step keeps the invariant.
LEMMA WalkStep == WalkInv /\ [WalkNext]_walkVars => WalkInv'
<1> SUFFICES ASSUME WalkInv, [WalkNext]_walkVars PROVE WalkInv'
  OBVIOUS
<1> USE DEF WalkInv, CallAt, CallGoes, CallBecomes, Returns, NoFetch
<1>1. CASE WalkContextEnds
  BY <1>1 DEF WalkContextEnds
<1>2. CASE BeginGet
  BY <1>2, SMTT(30) DEF BeginGet
<1>3. CASE BeginBulk
  BY <1>3, SMTT(20) DEF BeginBulk
<1>4. CASE RateLimited
  BY <1>4, SMTT(20) DEF RateLimited
<1>5. CASE Start
  BY <1>5, SMTT(20) DEF Start, StartRequest, Reading
<1>6. CASE Transport
  BY <1>6, SMTT(20) DEF Transport
<1>7. CASE ReceiveReply
  BY <1>7, SMTT(30) DEF ReceiveReply
<1>8. CASE Interrupt
  BY <1>8 DEF Interrupt
<1>9. CASE Join
  BY <1>9 DEF Join
<1>10. CASE Recheck
  BY <1>10, SMTT(30) DEF Recheck
<1>11. CASE Release
  BY <1>11 DEF Release
<1>12. CASE UNCHANGED walkVars
  BY <1>12 DEF walkVars
<1> QED
  BY <1>1, <1>2, <1>3, <1>4, <1>5, <1>6, <1>7, <1>8, <1>9, <1>10, <1>11, <1>12
  DEF WalkNext, WalkSteps, Elsewhere

\* When Walk or BulkWalk has returned, no goroutine of it still reads the session.
THEOREM SessionIsFree == WalkSpec => []NobodyReadsAfterReturn
<1>1. WalkInv => NobodyReadsAfterReturn
  BY DEF WalkInv, NobodyReadsAfterReturn
<1> QED
  BY <1>1, WalkStart, WalkStep, PTL DEF WalkSpec

\* BulkWalk sends at most one request after the end of its context.
THEOREM DeviceIsLeftAlone == WalkSpec => []OneRequestAfterEnd
<1>1. WalkInv => OneRequestAfterEnd
  BY SMT DEF WalkInv, OneRequestAfterEnd
<1> QED
  BY <1>1, WalkStart, WalkStep, PTL DEF WalkSpec

-----------------------------------------------------------------------------
(* BgpWalk                                                                 *)

\* Octets read at the place of an address are the address.
LEMMA OctetsReadBack ==
    ASSUME NEW parts \in Seq(Nat), NEW ip, IsAddress(ip), NEW at \in Nat, at + Len(ip) <= Len(parts),
           \A i \in 1..Len(ip) : parts[at + i] = ip[i]
    PROVE  OctetsAt(parts, at + 1, Len(ip)) = [ok |-> TRUE, ip |-> ip, next |-> at + 1 + Len(ip)]
<1>1. ip \in Seq(0..255) /\ Len(ip) \in {4, 16}
  BY DEF IsAddress
<1>2. Len(ip) \in {4, 16}
  BY <1>1
<1>3. Len(ip) \in Nat /\ Len(ip) > 0
  BY ONLY <1>2, SMTT(30)
<1>4. ip \in Seq(0..255) /\ Len(ip) \in {4, 16} /\ Len(parts) \in Nat
  BY <1>1, SMTT(30)
<1>5. \A i \in (at + 1)..(at + Len(ip)) : parts[i] \in 0..255
  <2> SUFFICES ASSUME NEW i \in (at + 1)..(at + Len(ip)) PROVE parts[i] \in 0..255
    OBVIOUS
  <2> DEFINE j == i - at
  <2>1. j \in 1..Len(ip) /\ at + j = i
    <3>1. at \in Nat /\ Len(ip) \in Nat /\ i \in (at + 1)..(at + Len(ip))
      BY <1>3
    <3> QED
      BY ONLY <3>1, SMTT(30)
  <2> HIDE DEF j
  <2>2. ip[j] \in 0..255
    BY <1>4, <2>1, ElementOfSeq
  <2>3. parts[at + j] = ip[j]
    BY <2>1
  <2> QED
    BY <2>1, <2>2, <2>3
<1>6. SubSeq(parts, at + 1, at + Len(ip)) = ip
  <2> DEFINE lo == at + 1
             hi == at + Len(ip)
             sub == SubSeq(parts, lo, hi)
  <2>1. lo \in Int /\ hi \in Int /\ lo <= hi
    BY <1>3, SMTT(30)
  <2>2. hi - lo + 1 = Len(ip) /\ \A i \in 1..Len(ip) : lo + i - 1 = at + i
    BY <1>4, SMTT(30)
  <2>3. \A i \in lo..hi : parts[i] \in 0..255
    BY <1>5
  <2> HIDE DEF lo, hi
  <2>4. sub \in Seq(0..255) /\ Len(sub) = Len(ip) /\ \A i \in 1..Len(ip) : sub[i] = parts[lo + i - 1]
    <3>1. sub \in Seq(0..255) /\ Len(sub) = hi - lo + 1 /\ \A i \in 1..(hi - lo + 1) : sub[i] = parts[lo + i - 1]
      <4>1. sub \in Seq(0..255) /\ Len(sub) = (IF lo <= hi THEN hi - lo + 1 ELSE 0)
            /\ \A i \in 1..(hi - lo + 1) : sub[i] = parts[lo + i - 1]
        <5> HIDE DEF sub
        <5>1. sub = SubSeq(parts, lo, hi)
          BY DEF sub
        <5> QED
          BY ONLY <2>1, <2>3, <5>1, SubSeqProperties, SMTT(20)
      <4> QED
        BY <2>1, <4>1
    <3> QED
      BY <2>2, <3>1
  <2> HIDE DEF sub
  <2>5. Len(sub) = Len(ip) /\ \A i \in 1..Len(sub) : sub[i] = ip[i]
    BY <2>2, <2>4
  <2>6. ip \in Seq(0..255) /\ sub \in Seq(0..255)
    BY <1>1, <2>4
  <2>7. sub = ip
    BY <2>5, <2>6, SeqEqual
  <2> QED
    BY <2>7 DEF sub, lo, hi
<1>7. at + 1 + Len(ip) - 1 = at + Len(ip)
  BY <1>4, SMT
<1>8. ~(at + 1 + Len(ip) - 1 > Len(parts) \/ \E i \in (at + 1)..(at + 1 + Len(ip) - 1) : parts[i] \notin 0..255)
  <2>1. ~(at + Len(ip) > Len(parts))
    BY <1>4, SMTT(30)
  <2> QED
    BY <1>5, <1>7, <2>1
<1> QED
  BY <1>6, <1>7, <1>8 DEF OctetsAt

\* The same with the family and the length before it.
LEMMA AddressReadsBack ==
    ASSUME NEW parts \in Seq(Nat), NEW ip, IsAddress(ip), NEW pos \in Nat \ {0}, EndsWith(parts, pos, ip)
    PROVE  readInetAddrAt(parts, pos).ok /\ readInetAddrAt(parts, pos).ip = ip
<1>1. Len(ip) \in {4, 16} /\ Len(parts) \in Nat
  BY SMTT(20) DEF IsAddress
<1>2. /\ parts[pos] = Family(ip) /\ parts[pos + 1] = Len(ip) /\ \A i \in 1..Len(ip) : parts[pos + 1 + i] = ip[i]
      /\ pos + 1 \in Nat /\ pos + 1 + Len(ip) <= Len(parts) /\ ~(pos + 1 > Len(parts)) /\ pos + 1 + 1 = pos + 2
  <2>1. Len(parts) = pos + 1 + Len(ip)
    BY DEF EndsWith
  <2>2. pos + 1 \in Nat /\ pos + 1 + Len(ip) <= Len(parts) /\ ~(pos + 1 > Len(parts)) /\ pos + 1 + 1 = pos + 2
    BY <1>1, <2>1, SMTT(30)
  <2> QED
    BY <2>2 DEF EndsWith
<1>3. Want(Family(ip)) = Len(ip)
  BY <1>1 DEF Want, Family
<1>4. OctetsAt(parts, pos + 1 + 1, Len(ip)) = [ok |-> TRUE, ip |-> ip, next |-> pos + 1 + 1 + Len(ip)]
  BY <1>2, OctetsReadBack
<1>5. readInetAddrAt(parts, pos) = OctetsAt(parts, pos + 2, Len(ip))
  BY <1>2, <1>3 DEF readInetAddrAt
<1>6. readInetAddrAt(parts, pos) = [ok |-> TRUE, ip |-> ip, next |-> pos + 1 + 1 + Len(ip)]
  <2>1. pos + 1 + 1 = pos + 2
    BY <1>2
  <2> QED
    BY <1>4, <1>5, <2>1
<1> QED
  BY <1>6, SMTT(30)

\* The same with the family only.
LEMMA ImplicitReadsBack ==
    ASSUME NEW parts \in Seq(Nat), NEW ip, IsAddress(ip), NEW pos \in Nat \ {0}, pos + Len(ip) <= Len(parts),
           parts[pos] = Family(ip), \A i \in 1..Len(ip) : parts[pos + i] = ip[i]
    PROVE  readInetAddrImplicitAt(parts, pos) = [ok |-> TRUE, ip |-> ip, next |-> pos + 1 + Len(ip)]
<1>1. Len(ip) \in {4, 16} /\ Len(parts) \in Nat
  BY SMTT(30) DEF IsAddress
<1>2. Want(Family(ip)) = Len(ip)
  BY <1>1, SMTT(30) DEF Want, Family
<1>3. OctetsAt(parts, pos + 1, Len(ip)) = [ok |-> TRUE, ip |-> ip, next |-> pos + 1 + Len(ip)]
  BY OctetsReadBack
<1>4. ~(pos > Len(parts)) /\ Len(ip) # -1
  BY <1>1, SMTT(30)
<1> QED
  BY <1>2, <1>3, <1>4 DEF readInetAddrImplicitAt

\* Every vendor's decoder finds the peer in its index.
LEMMA IndexReadsBack ==
    ASSUME NEW vendor, NEW ip, NEW index, IsAddress(ip), IsIndexOf(vendor, ip, index)
    PROVE  decodeIndex(vendor, index).ok /\ decodeIndex(vendor, index).ip = ip
<1>1. index \in Seq(Nat) /\ Len(index) \in Nat /\ Len(ip) \in {4, 16}
  BY SMTT(30) DEF IsIndexOf, IsAddress
<1>2. CASE vendor = "cisco" /\ EndsWith(index, 1, ip)
  <2>1. readInetAddrAt(index, 1).ok /\ readInetAddrAt(index, 1).ip = ip
    BY <1>1, <1>2, AddressReadsBack, SMTT(20)
  <2> QED
    BY <1>2, <2>1 DEF decodeIndex
<1>3. ASSUME vendor = "juniper", NEW n \in {4, 16}, EndsBoth(index, n, ip)
      PROVE  decodeIndex(vendor, index).ok /\ decodeIndex(vendor, index).ip = ip
  <2> DEFINE own == [i \in 1..n |-> index[2 + i]]
  <2>1. /\ Len(index) = n + 3 + Len(ip) /\ index[n + 3] = Family(ip) /\ \A i \in 1..Len(ip) : index[n + 3 + i] = ip[i]
        /\ index[2] = (IF n = 4 THEN 1 ELSE 2) /\ \A i \in 3..(n + 2) : index[i] \in 0..255
    BY <1>3 DEF EndsBoth
  <2>2. IsAddress(own) /\ Len(own) = n /\ \A i \in 1..n : own[i] = index[2 + i]
    <3>1. \A i \in 1..n : 2 + i \in 3..(n + 2)
      BY <1>3, SMTT(20)
    <3>2. own \in [1..n -> 0..255] /\ n \in Nat
      BY <1>3, <2>1, <3>1, SMTT(60)
    <3>3. own \in Seq(0..255) /\ Len(own) = n
      BY <3>2, SMTT(30)
    <3> QED
      BY <3>3 DEF IsAddress
  <2> HIDE DEF own
  <2>3. readInetAddrImplicitAt(index, 2) = [ok |-> TRUE, ip |-> own, next |-> 2 + 1 + Len(own)]
    <3>1. index[2] = Family(own)
      BY <1>3, <2>1, <2>2 DEF Family
    <3>2. \A i \in 1..Len(own) : index[2 + i] = own[i]
      BY <2>2
    <3>3. 2 + n <= n + 3 + Len(ip)
      BY <1>1, <1>3, SMTT(20)
    <3>4. 2 + Len(own) <= Len(index) /\ 2 \in Nat \ {0}
      BY <2>1, <2>2, <3>3, SMTT(20)
    <3> QED
      BY <1>1, <2>2, <3>1, <3>4, <3>2, ImplicitReadsBack
  <2>4. readInetAddrImplicitAt(index, n + 3) = [ok |-> TRUE, ip |-> ip, next |-> n + 3 + 1 + Len(ip)]
    <3>1. n + 3 + Len(ip) <= Len(index) /\ n + 3 \in Nat \ {0}
      BY <1>1, <1>3, <2>1, SMTT(60)
    <3> QED
      BY <1>1, <2>1, <3>1, ImplicitReadsBack
  <2>5. readInetAddrImplicitAt(index, 2).ok /\ readInetAddrImplicitAt(index, 2).next = n + 3
    BY <1>3, <2>2, <2>3, SMTT(20)
  <2>6. decodeIndex(vendor, index) = readInetAddrImplicitAt(index, n + 3)
    BY <1>3, <2>5 DEF decodeIndex
  <2> QED
    BY <2>4, <2>6, SMTT(20)
<1>4. CASE vendor \notin {"cisco", "juniper"} /\ EndsWith(index, 2, ip)
  <2>1. readInetAddrAt(index, 2).ok /\ readInetAddrAt(index, 2).ip = ip
    BY <1>1, <1>4, AddressReadsBack, SMTT(20)
  <2> QED
    BY <1>4, <2>1 DEF decodeIndex
<1> QED
  BY <1>2, <1>3, <1>4 DEF IsIndexOf

-----------------------------------------------------------------------------
Routable(p) == p.state = Established /\ ~Unspecified(p.ip) /\ ~LinkLocal(p.ip)
ReportedIps == bgpResult.edges \cup bgpResult.oos

\* Where the walk is, and what it has reported by then.
BgpInv ==
    /\ speaker \in Speakers /\ bgpPc \in {"start", "fallback", "returned", "failed"}
    /\ bgpPc # "returned" => bgpResult = NoPeers
    /\ PeersAreExact

\* What is built of some peers is the addresses of those in use.
LEMMA BuiltOf ==
    ASSUME NEW peers
    PROVE  buildPeerEdges(peers).edges \cup buildPeerEdges(peers).oos = {p.ip : p \in {x \in peers : Routable(x)}}
BY DEF buildPeerEdges, Routable

\* Nothing is reported before the walk returns.
LEMMA NothingReported ==
    ASSUME bgpResult = NoPeers, bgpPc # "returned"
    PROVE  PeersAreExact
BY DEF NoPeers, PeersAreExact

\* The vendor's table is used alone: its rows are peers, and every peer has one unless one
\* does not decode.
LEMMA VendorIsExact ==
    ASSUME BgpInv, VendorWalk, bgpPc' = "returned"
    PROVE  PeersAreExact'
<1> DEFINE peers == {[ip |-> Decoded(r).ip, state |-> r.state] : r \in {x \in speaker.vendorRows : Decoded(x).ok}}
<1>1. /\ peers # {} /\ bgpResult' = buildPeerEdges(peers) /\ UNCHANGED speaker
      /\ Malformed \subseteq outcomes'
  BY DEF VendorWalk
<1>2. speaker \in Speakers
  BY DEF BgpInv
<1>3. \A p \in speaker.peers : IsAddress(p.ip)
  BY <1>2, SpeakerAssumption
<1>4. \A r \in speaker.vendorRows, p \in speaker.peers :
         IsIndexOf(speaker.vendor, p.ip, r.index) => Decoded(r).ok /\ Decoded(r).ip = p.ip
  BY <1>3, IndexReadsBack, SMTT(30) DEF Decoded
<1>5. ASSUME NEW r \in speaker.vendorRows, Decoded(r).ok
      PROVE  \E p \in speaker.peers : p.ip = Decoded(r).ip /\ p.state = r.state
  <2>1. PICK p \in speaker.peers : r.state = p.state /\ IsIndexOf(speaker.vendor, p.ip, r.index)
    BY <1>2, <1>5, SpeakerAssumption DEF Decoded
  <2> QED
    BY <1>4, <2>1
<1>6. ReportedIps' = {p.ip : p \in {x \in peers : Routable(x)}}
  BY <1>1, BuiltOf DEF ReportedIps
<1>7. ASSUME NEW ip \in ReportedIps' PROVE \E p \in speaker.peers : p.ip = ip /\ p.state = Established
  <2>1. PICK r \in speaker.vendorRows : Decoded(r).ok /\ Decoded(r).ip = ip /\ r.state = Established
    BY <1>6, <1>7, SMTT(30) DEF Routable
  <2> QED
    BY <1>5, <2>1
<1>8. ASSUME NEW p \in speaker.peers, Routable(p), "malformed_index" \notin outcomes' PROVE p.ip \in ReportedIps'
  <2>1. \A r \in speaker.vendorRows : Decoded(r).ok
    BY <1>1, <1>8 DEF Malformed
  <2>2. speaker.vendorRows # {}
    BY <1>1
  <2>3. PICK r \in speaker.vendorRows : r.state = p.state /\ IsIndexOf(speaker.vendor, p.ip, r.index)
    BY <1>2, <2>1, <2>2, SpeakerAssumption DEF Decoded
  <2>4. Decoded(r).ok /\ Decoded(r).ip = p.ip
    BY <1>4, <2>3
  <2> DEFINE q == [ip |-> Decoded(r).ip, state |-> r.state]
  <2>5. q \in peers /\ q.ip = p.ip /\ q.state = p.state
    BY <2>3, <2>4
  <2> HIDE DEF q, peers
  <2> QED
    BY <1>6, <1>8, <2>5 DEF Routable
<1> QED
  BY <1>1, <1>7, <1>8 DEF PeersAreExact, ReportedIps, Routable

\* bgpPeerTable holds peers only, and what it does not hold is counted.
LEMMA FallbackIsExact ==
    ASSUME BgpInv, FallbackWalk
    PROVE  PeersAreExact'
<1>1. /\ bgpResult' = buildPeerEdges(speaker.rfc) /\ UNCHANGED speaker
      /\ outcomes' \cap {"edges", "no_peers", "mib_unimplemented"} # {}
  BY DEF FallbackWalk
<1>2. speaker.rfc \subseteq speaker.peers
  BY SpeakerAssumption DEF BgpInv
<1>3. ReportedIps' = {p.ip : p \in {x \in speaker.rfc : Routable(x)}}
  BY <1>1, BuiltOf DEF ReportedIps
<1>4. ASSUME NEW ip \in ReportedIps' PROVE \E p \in speaker.peers : p.ip = ip /\ p.state = Established
  BY <1>2, <1>3, <1>4 DEF Routable
<1>5. ASSUME NEW p \in speaker.peers, Routable(p), p \in speaker.rfc PROVE p.ip \in ReportedIps'
  BY <1>3, <1>5
<1> QED
  BY <1>1, <1>4, <1>5 DEF PeersAreExact, ReportedIps, Routable

\* Every step keeps the invariant.
LEMMA BgpStep == BgpInv /\ [BgpNext]_bgpVars => BgpInv'
<1> SUFFICES ASSUME BgpInv, [BgpNext]_bgpVars PROVE BgpInv'
  OBVIOUS
<1>1. ASSUME speaker' \in Speakers, bgpPc' \in {"start", "fallback", "failed"}, bgpResult' = NoPeers PROVE BgpInv'
  <2>1. PeersAreExact'
    BY <1>1 DEF NoPeers, PeersAreExact
  <2> QED
    BY <1>1, <2>1 DEF BgpInv
<1>2. CASE NoVendorTable \/ VendorWalkErrs \/ FallbackErrs
  BY <1>1, <1>2 DEF NoVendorTable, VendorWalkErrs, FallbackErrs, BgpInv
<1>3. CASE NextSpeaker
  BY <1>1, <1>3 DEF NextSpeaker
<1>4. CASE VendorWalk
  <2>1. speaker' \in Speakers /\ ((bgpPc' = "fallback" /\ bgpResult' = NoPeers) \/ bgpPc' = "returned")
    BY <1>4 DEF VendorWalk, BgpInv
  <2> QED
    BY <1>1, <1>4, <2>1, VendorIsExact DEF BgpInv
<1>5. CASE FallbackWalk
  BY <1>5, FallbackIsExact DEF FallbackWalk, BgpInv
<1>6. CASE UNCHANGED bgpVars
  BY <1>6 DEF bgpVars, BgpInv, PeersAreExact
<1> QED
  BY <1>2, <1>3, <1>4, <1>5, <1>6 DEF BgpNext

\* The BGP walker reports exactly the established peers, for every device whose tables
\* have the form of their MIB, with addresses of both families and any instance.
THEOREM BgpIsExact == BgpSpec => []PeersAreExact
<1>1. BgpInit => BgpInv
  <2> SUFFICES ASSUME BgpInit PROVE BgpInv
    OBVIOUS
  <2> QED
    BY NothingReported DEF BgpInit, BgpInv
<1>2. BgpInv => PeersAreExact
  BY DEF BgpInv
<1> QED
  BY <1>1, <1>2, BgpStep, PTL DEF BgpSpec
=============================================================================
