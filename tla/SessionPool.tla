---------------------------- MODULE SessionPool ----------------------------
(***************************************************************************)
(* The SNMP session pool of internal/discovery/snmp/pool.go: walkers       *)
(* acquire a session for a key, use it and release it, while the evictor,  *)
(* credential rotation and shutdown remove entries.                        *)
(*                                                                         *)
(* A session is a number; open is the set of sessions whose socket is      *)
(* open.  Idle times are abstracted: any unused entry may have expired.    *)
(***************************************************************************)
EXTENDS Naturals, FiniteSets

CONSTANTS Ips, Profiles,  \* the two halves of a poolKey
          Walkers         \* goroutines that walk a target

ASSUME PoolAssumption ==
    IsFiniteSet(Ips) /\ IsFiniteSet(Profiles) /\ IsFiniteSet(Walkers)

VARIABLES sessions,  \* pl.sessions: per key its entry, NoSession if there is none
          walker,    \* per walker: where it is, its key and its session
          open,
          closed,    \* pl.closed
          pulled     \* history: InvalidateProfile has removed an entry in use

poolVars == <<sessions, walker, open, closed, pulled>>

Keys == Ips \X Profiles

\* Enough numbers for one entry per key and one session per walker.
Session == 1..(Cardinality(Keys) + Cardinality(Walkers))

NoSession == [session |-> 0, inUse |-> FALSE]
Idle   == [pc |-> "idle", key |-> <<>>, session |-> 0]
Pooled(k) == sessions[k] # NoSession

PoolInit ==
    /\ sessions = [k \in Keys |-> NoSession]
    /\ walker = [w \in Walkers |-> Idle]
    /\ open = {}
    /\ closed = FALSE
    /\ pulled = FALSE

\* pc "use" holds a pooled session, "useTransient" one whose release closes it.
PoolAt(w, pc, k, s) == walker' = [walker EXCEPT ![w] = [pc |-> pc, key |-> k, session |-> s]]
Using(w) == walker[w].pc \in {"use", "useTransient"}

\* A socket nobody refers to any more.
Fresh == CHOOSE s \in Session \ open : \A w \in Walkers : walker[w].session # s

-----------------------------------------------------------------------------
(* acquire                                                                 *)

MayReuseAny(k) == Pooled(k)
MayReuse(k) == Pooled(k) /\ ~sessions[k].inUse

CheckOut(w, k) ==
    /\ sessions' = [sessions EXCEPT ![k] = [session |-> @.session, inUse |-> TRUE]]
    /\ PoolAt(w, "use", k, sessions[k].session)

\* The first critical section: reuse the entry, or dial.
AcquireSession(w, k) ==
    /\ walker[w].pc = "idle"
    /\ \/ /\ ~closed /\ MayReuse(k)
          /\ CheckOut(w, k)
       \/ /\ closed \/ (Pooled(k) /\ ~MayReuse(k))
          /\ PoolAt(w, "dialTransient", k, 0)
          /\ UNCHANGED sessions
       \/ /\ ~closed /\ ~Pooled(k)
          /\ PoolAt(w, "dial", k, 0)
          /\ UNCHANGED sessions
    /\ UNCHANGED <<open, closed, pulled>>

\* Open, outside the lock: it fails, or there is a new socket.
Dial(w) ==
    /\ walker[w].pc \in {"dial", "dialTransient"}
    /\ \/ /\ walker' = [walker EXCEPT ![w] = Idle]
          /\ UNCHANGED open
       \/ /\ open' = open \cup {Fresh}
          /\ PoolAt(w, IF walker[w].pc = "dial" THEN "store" ELSE "useTransient",
                walker[w].key, Fresh)
    /\ UNCHANGED <<sessions, closed, pulled>>

\* The second critical section re-checks the key.
Store(w) ==
    /\ walker[w].pc = "store"
    /\ LET k == walker[w].key
           s == walker[w].session
       IN \/ /\ closed \/ (Pooled(k) /\ ~MayReuse(k))
             /\ PoolAt(w, "useTransient", k, s)
             /\ UNCHANGED <<sessions, open>>
          \/ /\ ~closed /\ MayReuse(k)
             /\ CheckOut(w, k)
             /\ open' = open \ {s}
          \/ /\ ~closed /\ ~Pooled(k)
             /\ sessions' = [sessions EXCEPT ![k] = [session |-> s, inUse |-> TRUE]]
             /\ PoolAt(w, "use", k, s)
             /\ UNCHANGED open
    /\ UNCHANGED <<closed, pulled>>

-----------------------------------------------------------------------------
(* release                                                                 *)

\* returnKey: whatever entry the key has now is marked unused.
ReturnKey(k) ==
    sessions' = IF Pooled(k)
                THEN [sessions EXCEPT ![k] = [session |-> @.session, inUse |-> FALSE]]
                ELSE sessions

\* Entries are removed and their sockets closed.
CloseEntries(ks) ==
    /\ open' = open \ {sessions[k].session : k \in ks}
    /\ sessions' = [k \in Keys |-> IF k \in ks THEN NoSession ELSE sessions[k]]

ReleaseTransient(w) ==
    /\ walker[w].pc = "useTransient"
    /\ open' = open \ {walker[w].session}
    /\ walker' = [walker EXCEPT ![w] = Idle]
    /\ UNCHANGED <<sessions, closed, pulled>>

\* The walk ended without a connection-level error.
Return(w) ==
    /\ walker[w].pc = "use"
    /\ ReturnKey(walker[w].key)
    /\ walker' = [walker EXCEPT ![w] = Idle]
    /\ UNCHANGED <<open, closed, pulled>>

\* It ended with one: evictKey.
EvictKey(w) ==
    /\ walker[w].pc = "use"
    /\ CloseEntries({walker[w].key})
    /\ walker' = [walker EXCEPT ![w] = Idle]
    /\ UNCHANGED <<closed, pulled>>

-----------------------------------------------------------------------------
(* Removal of entries from outside.                                        *)

\* Entries the sweep may find idle for longer than maxIdle.
Expired == {k \in Keys : Pooled(k) /\ ~sessions[k].inUse}

EvictSession ==
    /\ ~closed
    /\ \E ks \in SUBSET Expired \ {{}} : CloseEntries(ks)
    /\ UNCHANGED <<walker, closed, pulled>>

InvalidateProfile(p) ==
    /\ LET ks == {k \in Keys : k[2] = p /\ Pooled(k)} IN
       /\ CloseEntries(ks)
       /\ pulled' = (pulled \/ \E k \in ks : sessions[k].inUse)
    /\ UNCHANGED <<walker, closed>>

Close ==
    /\ ~closed
    /\ closed' = TRUE
    /\ CloseEntries(Keys)
    /\ UNCHANGED <<walker, pulled>>

PoolNext ==
    \/ \E w \in Walkers :
         \/ \E k \in Keys : AcquireSession(w, k)
         \/ Dial(w) \/ Store(w) \/ ReleaseTransient(w) \/ Return(w) \/ EvictKey(w)
    \/ EvictSession
    \/ \E p \in Profiles : InvalidateProfile(p)
    \/ Close

PoolSpec == PoolInit /\ [][PoolNext]_poolVars

-----------------------------------------------------------------------------
(* Properties.                                                             *)

\* Every variable has its type.
PoolTypeOK ==
    /\ sessions \in [Keys -> [session : Session, inUse : BOOLEAN] \cup {NoSession}]
    /\ walker \in [Walkers -> [pc : {"idle", "dial", "dialTransient", "store", "use",
                                     "useTransient"},
                               key : Keys \cup {<<>>}, session : Session \cup {0}]]
    /\ open \subseteq Session
    /\ closed \in BOOLEAN /\ pulled \in BOOLEAN

\* pool.go:82-86: a live session is never in the hands of two walkers, unless a
\* rotation has removed an entry in use (whose release then frees its successor).
NeverAliased ==
    ~pulled => \A v, w \in Walkers :
                 v # w /\ Using(v) /\ Using(w) => walker[v].session # walker[w].session

\* No socket leaks, whatever is invalidated when: an open socket is in the pool or
\* in the hands of a walker.
SocketsOwned ==
    \A s \in open : \/ \E k \in Keys : sessions[k].session = s
                    \/ \E w \in Walkers : walker[w].session = s

\* No socket is closed under a walker before shutdown: eviction spares the
\* entries in use, and a walker only evicts its own.
UsedIsOpen ==
    ~closed /\ ~pulled => \A w \in Walkers : Using(w) => walker[w].session \in open

\* An entry in use has its user, so it is returned, or evicted, one day.
InUseHasUser ==
    ~pulled => \A k \in Keys : sessions[k].inUse =>
      \E w \in Walkers : walker[w].pc = "use" /\ walker[w].key = k
                         /\ walker[w].session = sessions[k].session
=============================================================================
