---------------------------- MODULE CycleFanout ----------------------------
(***************************************************************************)
(* One discovery cycle (app.RunCycle): a goroutine per target waits for a  *)
(* slot, finds the target's credentials (probeTarget,                      *)
(* WalkSystemWithCredentials, credentials.Resolver) and walks the modules, *)
(* while the cycle's budget may run out.  wg.Wait, then the counts, the    *)
(* device list and the module gauge.                                       *)
(*                                                                         *)
(* A target is its index in the configuration.  What devices answer is     *)
(* any of the outcomes the code tells apart.                               *)
(***************************************************************************)
EXTENDS Integers, Sequences, FiniteSetsExt, Places

CONSTANTS Targets,      \* indices of cfg.Targets
          IpOf, IdOf,   \* per target the address it resolves to and the device that answers there
          ProfilesFor,  \* Resolver.Resolve: per address the profile names in the order to try
          UsableProfiles,  \* the profiles whose environment variables are set
          Limits,       \* values of discovery.parallelism
          TrialRate,
          ModulesFor,   \* per address the modules enabled and in scope
          MayPanicProbe,
          MaxRounds     \* bound on cycles

ASSUME FanoutAssumption ==
    /\ IsFiniteSet(Targets) /\ Targets \subseteq Nat \ {0}
    /\ Limits \subseteq Nat \ {0} /\ TrialRate \in Nat \ {0} /\ MaxRounds \in Nat
    /\ UsableProfiles \subseteq Nat /\ \A t \in Targets : ProfilesFor[IpOf[t]] \in Seq(Nat)

VARIABLES
    probe,    \* per target its goroutine
    limit,    \* cap(sem)
    slots,    \* len(sem)
    budget,   \* cycleCtx: "alive", past its "deadline", or "cancelled" from outside
    secrets,  \* per target the candidates whose secret bytes are not zeroized
    cache,    \* Resolver.cache: per address a profile, or none, and whether it is past cacheTTL
    tokens,   \* of the trial limiter
    results,  \* the targets that succeeded, in the order in which they took mu
    fails,    \* failByReason
    counts,   \* what the cycle reported: {} while it runs
    statusGauge,  \* ModuleLastStatus, None for a module that has no series
    rounds    \* cycles so far

fanVars == <<limit, probe, slots, budget, secrets, cache, tokens, results, fails, counts, statusGauge, rounds>>

None == -1
Hosts == {IpOf[t] : t \in Targets}
Modules == UNION {ModulesFor[a] : a \in Hosts}
Reasons == {"budget", "dns", "scope", "timeout", "auth", "panic"}
NoEntry == [profile |-> None, stale |-> FALSE]

TargetAt(pc, list, n, rejected, status) ==
    [pc |-> pc, list |-> list, n |-> n, rejected |-> rejected, status |-> status]
NoStatus == [m \in {} |-> 0]
Spawned == TargetAt("spawned", <<>>, 0, FALSE, NoStatus)
ProbeOver(ok, status) == TargetAt(IF ok THEN "ok" ELSE "failed", <<>>, 0, FALSE, status)

FanInit ==
    /\ limit \in Limits
    /\ probe = [t \in Targets |-> Spawned]
    /\ slots = 0
    /\ budget = "alive"
    /\ secrets = [t \in Targets |-> {}]
    /\ results = <<>>
    /\ fails = [r \in Reasons |-> 0]
    /\ counts = {}
    /\ cache \in [Hosts -> {NoEntry} \cup [profile : UsableProfiles, stale : {FALSE}]]
    /\ tokens = TrialRate
    /\ statusGauge = [m \in Modules |-> None]
    /\ rounds = 1

-----------------------------------------------------------------------------
(* A probe ends                                                            *)

\* Mutated form: the candidates that were not tried keep their secrets.
FailKeepsSecrets(t, reason) ==
    /\ probe' = [probe EXCEPT ![t] = ProbeOver(FALSE, NoStatus)]
    /\ secrets' = [secrets EXCEPT ![t] = @ \ {probe[t].n}]
    /\ fails' = [fails EXCEPT ![reason] = @ + 1]
    /\ slots' = slots - 1

\* probeTarget returns a reason, after zeroizing what is left; the goroutine counts it
\* and its deferred receive frees the slot.
Fail(t, reason) ==
    /\ probe' = [probe EXCEPT ![t] = ProbeOver(FALSE, NoStatus)]
    /\ secrets' = [secrets EXCEPT ![t] = {}]
    /\ fails' = [fails EXCEPT ![reason] = @ + 1]
    /\ slots' = slots - 1

-----------------------------------------------------------------------------
(* Admission                                                               *)

\* The select of the goroutine: a slot, or the end of the budget; either if both.
AdmitTarget(t) ==
    /\ probe[t].pc = "spawned"
    /\ slots < limit
    /\ slots' = slots + 1
    /\ probe' = [probe EXCEPT ![t].pc = "resolve"]
    /\ UNCHANGED <<budget, secrets, cache, tokens, results, fails, counts, statusGauge, rounds, limit>>

Skip(t) ==
    /\ probe[t].pc = "spawned"
    /\ budget # "alive"
    /\ probe' = [probe EXCEPT ![t] = ProbeOver(FALSE, NoStatus)]
    /\ fails' = [fails EXCEPT !["budget"] = @ + 1]
    /\ UNCHANGED <<slots, budget, secrets, cache, tokens, results, counts, statusGauge, rounds, limit>>

-----------------------------------------------------------------------------
(* CredentialCandidates                                                    *)

\* The cached profile, then the others that resolve for the address; those that
\* cannot be built are left out.
CredentialCandidates(a, cached) ==
    LET first == IF cached = None THEN <<>> ELSE <<cached>>
        all   == first \o ProfilesFor[a]
    IN  Kept(all, {i \in DOMAIN all : all[i] \in UsableProfiles /\ (i <= Len(first) \/ all[i] # cached)})

\* The candidates are built with their secrets, or there is none to try.
Try(t, list) ==
    \/ /\ list = <<>>
       /\ Fail(t, "auth")
    \/ /\ list # <<>>
       /\ probe' = [probe EXCEPT ![t] = TargetAt("trial", list, 1, FALSE, NoStatus)]
       /\ secrets' = [secrets EXCEPT ![t] = DOMAIN list]
       /\ UNCHANGED <<slots, fails>>

\* The host does not resolve, its address is outside the allow list, or CachedProfile
\* reads the entry of the address under the read lock.
Resolve(t) ==
    /\ probe[t].pc = "resolve"
    /\ LET entry == cache[IpOf[t]]
       IN  \/ Fail(t, "dns")
           \/ Fail(t, "scope")
           \/ /\ ~entry.stale
              /\ Try(t, CredentialCandidates(IpOf[t], entry.profile))
           \/ /\ entry.stale
              /\ probe' = [probe EXCEPT ![t].pc = "evict"]
              /\ UNCHANGED <<slots, secrets, fails>>
    /\ UNCHANGED <<budget, cache, tokens, results, counts, statusGauge, rounds, limit>>

\* Mutated form: the entry is not looked at again under the write lock.
EvictUnchecked(t) ==
    /\ probe[t].pc = "evict"
    /\ cache' = [cache EXCEPT ![IpOf[t]] = NoEntry]
    /\ Try(t, CredentialCandidates(IpOf[t], None))
    /\ UNCHANGED <<budget, tokens, results, counts, statusGauge, rounds, limit>>

\* CachedProfile takes the write lock and deletes the entry if it is still stale.
EvictEntry(t) ==
    /\ probe[t].pc = "evict"
    /\ cache' = [cache EXCEPT ![IpOf[t]] = IF @.stale THEN NoEntry ELSE @]
    /\ Try(t, CredentialCandidates(IpOf[t], None))
    /\ UNCHANGED <<budget, tokens, results, counts, statusGauge, rounds, limit>>

-----------------------------------------------------------------------------
(* WalkSystemWithCredentials                                               *)

\* The error a done context gives: only a deadline counts as a timeout.
ContextReason == IF budget = "deadline" THEN "timeout" ELSE "auth"

\* AcquireTrial: a token if there is one, whatever the context; else wait for one, or
\* for the context.
AcquireTrial(t) ==
    /\ probe[t].pc = "trial"
    /\ \/ /\ tokens > 0
          /\ tokens' = tokens - 1
          /\ probe' = [probe EXCEPT ![t].pc = "walk"]
          /\ UNCHANGED <<slots, secrets, fails>>
       \/ /\ tokens = 0 /\ budget # "alive"
          /\ Fail(t, ContextReason)
          /\ UNCHANGED tokens
    /\ UNCHANGED <<budget, cache, results, counts, statusGauge, rounds, limit>>

\* The system group answers: the other candidates are zeroized.
WalkSucceeds(t) ==
    /\ probe[t].pc = "walk"
    /\ probe' = [probe EXCEPT ![t].pc = "won"]
    /\ secrets' = [secrets EXCEPT ![t] = {probe[t].n}]
    /\ UNCHANGED <<slots, budget, cache, tokens, results, fails, counts, statusGauge, rounds, limit>>

\* RecordFailure, unless every candidate timed out.
Forget(t, rejected) ==
    cache' = IF rejected THEN [cache EXCEPT ![IpOf[t]] = NoEntry] ELSE cache

\* The trial fails, by a timeout or not: give up if the context is done, try the next
\* candidate, or fail with the last error.
WalkFails(t) ==
    /\ probe[t].pc = "walk"
    /\ \E timedOut \in BOOLEAN :
         LET rejected == probe[t].rejected \/ ~timedOut
             last     == probe[t].n = Len(probe[t].list)
         IN  \/ /\ budget # "alive"
                /\ Fail(t, ContextReason)
                /\ UNCHANGED cache
             \/ /\ budget = "alive" /\ ~last
                /\ probe' = [probe EXCEPT ![t].pc = "trial", ![t].n = @ + 1, ![t].rejected = rejected]
                /\ secrets' = [secrets EXCEPT ![t] = @ \ {probe[t].n}]
                /\ UNCHANGED <<slots, fails, cache>>
             \/ /\ budget = "alive" /\ last
                /\ Fail(t, IF timedOut THEN "timeout" ELSE "auth")
                /\ Forget(t, rejected)
    /\ UNCHANGED <<budget, tokens, results, counts, statusGauge, rounds, limit>>

RecordSuccess(t) ==
    /\ probe[t].pc = "won"
    /\ cache' = [cache EXCEPT ![IpOf[t]] = [profile |-> probe[t].list[probe[t].n], stale |-> FALSE]]
    /\ probe' = [probe EXCEPT ![t].pc = "modules"]
    /\ UNCHANGED <<slots, budget, secrets, tokens, results, fails, counts, statusGauge, rounds, limit>>

-----------------------------------------------------------------------------
(* walkModules, and what the goroutine does with the result                *)

\* Every module in scope is walked: ok, degraded or failed.  probeTarget zeroizes the
\* winning secret when it returns.
WalkModules(t) ==
    /\ probe[t].pc = "modules"
    /\ \E status \in [ModulesFor[IpOf[t]] -> 0..2] :
         probe' = [probe EXCEPT ![t] = TargetAt("collect", <<>>, 0, FALSE, status)]
    /\ secrets' = [secrets EXCEPT ![t] = {}]
    /\ UNCHANGED <<slots, budget, cache, tokens, results, fails, counts, statusGauge, rounds, limit>>

\* Under mu the result joins the others; the slot is free.
Collect(t) ==
    /\ probe[t].pc = "collect"
    /\ results' = Append(results, t)
    /\ probe' = [probe EXCEPT ![t] = ProbeOver(TRUE, @.status)]
    /\ slots' = slots - 1
    /\ UNCHANGED <<budget, secrets, cache, tokens, fails, counts, statusGauge, rounds, limit>>

\* Mutated form: the deferred recover does not count.
PanicUncounted(t) ==
    /\ MayPanicProbe
    /\ probe[t].pc = "modules"
    /\ probe' = [probe EXCEPT ![t] = ProbeOver(FALSE, NoStatus)]
    /\ secrets' = [secrets EXCEPT ![t] = {}]
    /\ slots' = slots - 1
    /\ UNCHANGED <<budget, cache, tokens, results, fails, counts, statusGauge, rounds, limit>>

\* A walker panics: the deferred calls zeroize and free the slot, the recover counts.
Panic(t) ==
    /\ MayPanicProbe
    /\ probe[t].pc = "modules"
    /\ Fail(t, "panic")
    /\ UNCHANGED <<budget, cache, tokens, results, counts, statusGauge, rounds, limit>>

-----------------------------------------------------------------------------
(* The end of the cycle                                                    *)

\* SortStableFunc by the index of the target.
SortResults(ts) == Kept([t \in Targets |-> t], Range(ts))

\* DeduplicateDevices: of the targets that are one device, the first.
Devices(ts) == SelectSeq(ts, LAMBDA t :
    \A i \in DOMAIN ts : IdOf[ts[i]] = IdOf[t] => \E j \in 1..i : ts[j] = t)

\* worstStatus: a module absent from the map reads as 0.
Worst(m) == Max({0} \cup {probe[t].status[m] : t \in {x \in Range(results) : m \in DOMAIN probe[x].status}})

\* The sum over failByReason.
FailCount == fails["budget"] + fails["dns"] + fails["scope"] + fails["timeout"] + fails["auth"] + fails["panic"]

\* wg.Wait returns: the devices and failures are counted, and the gauge is set for the
\* modules that have an entry in worstStatus.
FinishCycle ==
    /\ counts = {}
    /\ \A t \in Targets : probe[t].pc \in {"ok", "failed"}
    /\ counts' = {[ok      |-> Len(results),
                   failed  |-> FailCount,
                   devices |-> Devices(SortResults(results))]}
    /\ statusGauge' = [m \in Modules |-> IF Worst(m) > 0 THEN Worst(m) ELSE statusGauge[m]]
    /\ UNCHANGED <<probe, slots, budget, secrets, cache, tokens, results, fails, rounds, limit>>

\* The next tick of the loop.
NextCycle ==
    /\ counts # {}
    /\ rounds < MaxRounds
    /\ rounds' = rounds + 1
    /\ probe' = [t \in Targets |-> Spawned]
    /\ slots' = 0
    /\ budget' = "alive"
    /\ secrets' = [t \in Targets |-> {}]
    /\ results' = <<>>
    /\ fails' = [r \in Reasons |-> 0]
    /\ counts' = {}
    /\ UNCHANGED <<cache, tokens, statusGauge, limit>>

-----------------------------------------------------------------------------
(* Time                                                                    *)

BudgetEnds ==
    /\ counts = {} /\ budget = "alive"
    /\ budget' \in {"deadline", "cancelled"}
    /\ UNCHANGED <<probe, slots, secrets, cache, tokens, results, fails, counts, statusGauge, rounds, limit>>

\* Mutated form: an empty bucket stays empty.
RefillNotFromEmpty ==
    /\ tokens \in 1..(TrialRate - 1)
    /\ tokens' = tokens + 1
    /\ UNCHANGED <<probe, slots, budget, secrets, cache, results, fails, counts, statusGauge, rounds, limit>>

\* refillLocked: up to a burst of TrialRate.
Refill ==
    /\ tokens < TrialRate
    /\ tokens' = tokens + 1
    /\ UNCHANGED <<probe, slots, budget, secrets, cache, results, fails, counts, statusGauge, rounds, limit>>

EntryAges(a) ==
    /\ cache[a] # NoEntry /\ ~cache[a].stale
    /\ cache' = [cache EXCEPT ![a].stale = TRUE]
    /\ UNCHANGED <<probe, slots, budget, secrets, tokens, results, fails, counts, statusGauge, rounds, limit>>

Probe(t) ==
    \/ AdmitTarget(t) \/ Skip(t) \/ Resolve(t) \/ EvictEntry(t) \/ AcquireTrial(t) \/ WalkSucceeds(t)
    \/ WalkFails(t) \/ RecordSuccess(t) \/ WalkModules(t) \/ Collect(t) \/ Panic(t)

CyclesOver == counts # {} /\ rounds = MaxRounds /\ UNCHANGED fanVars

FanNext ==
    \/ \E t \in Targets : Probe(t)
    \/ FinishCycle \/ NextCycle \/ BudgetEnds \/ Refill \/ CyclesOver
    \/ \E a \in Hosts : EntryAges(a)

FanSpec == FanInit /\ [][FanNext]_fanVars

\* Goroutines are scheduled, every walk ends by its timeout, and tokens come back.
FanFairness == WF_fanVars(FinishCycle) /\ WF_fanVars(Refill) /\ \A t \in Targets : WF_fanVars(Probe(t))
FairFanSpec == FanSpec /\ FanFairness

-----------------------------------------------------------------------------
(* Properties                                                              *)

\* WalkSystemWithCredentials leaves no secret behind but the winner's, and probeTarget
\* leaves none, by whatever return or panic it ends.
SecretsWiped ==
    \A t \in Targets :
        secrets[t] = CASE probe[t].pc \in {"trial", "walk"}  -> probe[t].n..Len(probe[t].list)
                       [] probe[t].pc \in {"won", "modules"} -> {probe[t].n}
                       [] OTHER                              -> {}

\* A cached profile that is not stale is dropped only by a probe of its address that
\* a device answered with a rejection: not by the eviction of the entry it replaced
\* (CachedProfile), and not by timeouts (WalkSystemWithCredentials).
ProfileKeptUnlessRejected ==
    [][\A a \in Hosts :
         cache[a] # NoEntry /\ ~cache[a].stale /\ cache'[a] = NoEntry =>
           \E t \in Targets : /\ IpOf[t] = a /\ probe[t].pc = "walk" /\ probe'[t].pc = "failed"
                              /\ probe[t].rejected \/ fails'["auth"] > fails["auth"]]_fanVars

\* A cycle that has admitted a target, or whose budget has ended, comes to its end:
\* RunCycle's wg.Wait returns.
CycleCompletes == (slots > 0 \/ budget # "alive") ~> (counts # {})

\* A cycle implements the abstract sweep over its targets: one final verdict each, and
\* a report that counts all of them.
Promise == INSTANCE Sweep WITH
    verdict <- [t \in Targets |-> IF probe[t].pc \in {"ok", "failed"} THEN probe[t].pc ELSE "pending"],
    report  <- {[ok |-> c.ok, failed |-> c.failed] : c \in counts}
ImplementsSweep == Promise!Spec

\* The documentation of network_topology_module_last_status (docs/metrics.md:49): the
\* status of each module in the most recent cycle, where 0 is ok.
StatusIsCurrent ==
    counts # {} => \A t \in Range(results) : \A m \in DOMAIN probe[t].status : statusGauge[m] \in {None, Worst(m)}
=============================================================================
