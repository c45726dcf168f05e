----------------------------- MODULE LogLimiter -----------------------------
(***************************************************************************)
(* internal/loglimit/loglimit.go: the suppression of repeated warnings.    *)
(* Several goroutines call Warn; each reads the clock before it takes the  *)
(* lock, so the one that gets the lock later may hold the earlier time.    *)
(***************************************************************************)
EXTENDS Integers, FiniteSets

CONSTANTS WarnKeys, Callers,
          Cooldown,     \* ticks between two warnings of a key
          MaxKeys,      \* l.maxKeys
          MaxTicks      \* bound on the clock

ASSUME LimiterAssumption == Cooldown \in Nat \ {0} /\ MaxKeys \in Nat \ {0} /\ MaxTicks \in Nat

VARIABLES ticks,     \* the clock
          caller,    \* per goroutine: where it is, its key and the time it read
          lastEmit,  \* l.seen: per key, lastEmit, or NotSeen
          emitted,   \* per key: the time of the last warning let through, or NotSeen
          early      \* the last warning let through came before its key's cooldown, and
                     \* the number of other keys let through from the one before it on

limitVars == <<ticks, caller, lastEmit, emitted, early>>

NotSeen == -1
LimitIdle == [pc |-> "idle"]
Tracked == {k \in WarnKeys : lastEmit[k] # NotSeen}

LimitInit ==
    /\ ticks = 0
    /\ caller = [c \in Callers |-> LimitIdle]
    /\ lastEmit = [k \in WarnKeys |-> NotSeen]
    /\ emitted = [k \in WarnKeys |-> NotSeen]
    /\ early = [is |-> FALSE, others |-> 0]

TimePasses ==
    /\ ticks < MaxTicks
    /\ ticks' = ticks + 1
    /\ UNCHANGED <<caller, lastEmit, emitted, early>>

Warn(c, k) ==
    /\ caller[c] = LimitIdle
    /\ caller' = [caller EXCEPT ![c] = [pc |-> "warn", key |-> k, now |-> ticks]]
    /\ UNCHANGED <<ticks, lastEmit, emitted, early>>

\* The maps without the entry of the smallest lastEmit, one for each way a tie falls.
evictOldestLocked(s) ==
    {[s EXCEPT ![k] = NotSeen] :
        k \in {x \in Tracked : \A y \in Tracked : s[x] <= s[y]}}

\* The map as a new entry for k finds it.
Room(k) ==
    IF lastEmit[k] = NotSeen /\ Cardinality(Tracked) >= MaxKeys
    THEN evictOldestLocked(lastEmit) ELSE {lastEmit}

\* Mutated form: a boundary that lets the last tick of the window through.
AllowedAtOnce(k, now) == lastEmit[k] = NotSeen \/ now - lastEmit[k] >= Cooldown - 1

Allowed(k, now) == lastEmit[k] = NotSeen \/ now - lastEmit[k] >= Cooldown

\* warnEvery: the decision and the update under the lock, the emission after it.
Decide(c) ==
    /\ caller[c].pc = "warn"
    /\ LET k == caller[c].key
           now == caller[c].now
       IN  /\ Allowed(k, now)
           /\ \E s \in Room(k) : lastEmit' = [s EXCEPT ![k] = now]
           /\ emitted' = [emitted EXCEPT ![k] = now]
           /\ early' = [is |-> emitted[k] # NotSeen /\ now - emitted[k] < Cooldown,
                        others |-> Cardinality({x \in WarnKeys \ {k} : emitted[x] >= emitted[k]})]
    /\ caller' = [caller EXCEPT ![c] = LimitIdle]
    /\ UNCHANGED ticks

Suppressed(c) ==
    /\ caller[c].pc = "warn" /\ ~Allowed(caller[c].key, caller[c].now)
    /\ caller' = [caller EXCEPT ![c] = LimitIdle]
    /\ UNCHANGED <<ticks, lastEmit, emitted, early>>

\* The bound of the clock is reached and nobody is calling.
LimitDone == ticks = MaxTicks /\ UNCHANGED limitVars

LimitNext ==
    \/ TimePasses \/ LimitDone
    \/ \E c \in Callers : Decide(c) \/ Suppressed(c) \/ \E k \in WarnKeys : Warn(c, k)

LimitSpec == LimitInit /\ [][LimitNext]_limitVars

-----------------------------------------------------------------------------
\* A warning repeats within its cooldown only when so many other keys were let
\* through from the first of the two on that the map was full of them: as long as
\* fewer problems are reported, each is reported once per window, also when the
\* callers take the lock out of the order of their readings of the clock.
CooldownHolds == early.is => early.others >= MaxKeys - 1
=============================================================================
