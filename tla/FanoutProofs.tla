---------------------------- MODULE FanoutProofs ----------------------------
(***************************************************************************)
(* The fan-out of a cycle, for any targets, profiles, limits and rates:    *)
(* secrets, cached profiles, and the sweep that the cycle implements.      *)
(***************************************************************************)
EXTENDS CycleFanout, SeqProofs

\* A leaf that names no prover is for Zenon; SMT has those with numbers or sequences.
USE ZenonT(60)

-----------------------------------------------------------------------------
(* The invariant                                                           *)

StatusMaps == UNION {[ms -> 0..2] : ms \in SUBSET Modules}
Entries == [profile : {None} \cup UsableProfiles, stale : BOOLEAN]
ProbeStates ==
    [pc : {"spawned", "resolve", "evict", "trial", "walk", "won", "modules", "collect", "ok", "failed"},
     list : Seq(UsableProfiles), n : Nat, rejected : BOOLEAN, status : StatusMaps]

\* The secrets that are left while a probe is in state q.
Left(q) == CASE q.pc \in {"trial", "walk"}  -> q.n..Len(q.list)
             [] q.pc \in {"won", "modules"} -> {q.n}
             [] OTHER                       -> {}

\* A candidate is tried only if there is one.
InList(q) == q.pc \in {"trial", "walk", "won", "modules"} => q.n \in 1..Len(q.list)

Ended(v) == {t \in Targets : probe[t].pc = v}

\* The types of the probes and of what they share.
FanTypeOK ==
    /\ probe \in [Targets -> ProbeStates] /\ \A t \in Targets : InList(probe[t])
    /\ secrets \in [Targets -> SUBSET Nat]
    /\ cache \in [Hosts -> Entries]
    /\ results \in Seq(Targets) /\ fails \in [Reasons -> Nat]

\* Every probe that ended is counted once.
ProbesCounted == Len(results) = Cardinality(Ended("ok")) /\ FailCount = Cardinality(Ended("failed"))

FanInv == FanTypeOK /\ SecretsWiped /\ ProbesCounted

-----------------------------------------------------------------------------
(* The candidates                                                          *)

\* CredentialCandidates returns profiles that can be built.
LEMMA CandidatesAreUsable ==
    ASSUME NEW t \in Targets, NEW cached \in {None} \cup UsableProfiles
    PROVE  CredentialCandidates(IpOf[t], cached) \in Seq(UsableProfiles)
<1> DEFINE first == IF cached = None THEN <<>> ELSE <<cached>>
           all == first \o ProfilesFor[IpOf[t]]
           at == {i \in DOMAIN all : all[i] \in UsableProfiles /\ (i <= Len(first) \/ all[i] # cached)}
<1>1. first \in Seq(Nat)
  <2>1. CASE cached = None
    BY <2>1, SMTT(30)
  <2>2. CASE cached # None
    <3>1. cached \in Nat
      BY <2>2, FanoutAssumption
    <3> QED
      BY <2>2, <3>1, SMTT(30)
  <2> QED
    BY <2>1, <2>2
<1>2. all \in Seq(Nat)
  BY <1>1, FanoutAssumption, ConcatProperties
<1>3. CredentialCandidates(IpOf[t], cached) = Kept(all, at)
  BY DEF CredentialCandidates
<1>4. at \in SUBSET (DOMAIN all) /\ \A i \in at : all[i] \in UsableProfiles
  OBVIOUS
<1> HIDE DEF at, all
<1> QED
  BY <1>2, <1>3, <1>4, KeptIsSeq

-----------------------------------------------------------------------------
(* The probes                                                              *)

Running(t) == probe[t].pc \notin {"ok", "failed"}

\* The probe of t is in state q next, with the secrets of q, and the others stay.
MovesTo(t, q) ==
    /\ probe' = [probe EXCEPT ![t] = q]
    /\ secrets' \in [Targets -> SUBSET Nat] /\ secrets'[t] = Left(q)
    /\ \A u \in Targets \ {t} : secrets'[u] = secrets[u]

\* One more failure is one more in the sum.
LEMMA FailIsCounted ==
    ASSUME fails \in [Reasons -> Nat], NEW r \in Reasons, fails' = [fails EXCEPT ![r] = @ + 1]
    PROVE  fails' \in [Reasons -> Nat] /\ FailCount \in Nat /\ FailCount' = FailCount + 1
<1> DEFINE a == fails["budget"]
           b == fails["dns"]
           c == fails["scope"]
           d == fails["timeout"]
           e == fails["auth"]
           f == fails["panic"]
<1>1. a \in Nat /\ b \in Nat /\ c \in Nat /\ d \in Nat /\ e \in Nat /\ f \in Nat
  BY DEF Reasons
<1>2. FailCount = a + b + c + d + e + f
  BY DEF FailCount
<1>3. FailCount' = fails'["budget"] + fails'["dns"] + fails'["scope"] + fails'["timeout"] + fails'["auth"]
                     + fails'["panic"]
  BY DEF FailCount
<1>4. /\ fails'["budget"] = IF r = "budget" THEN a + 1 ELSE a
      /\ fails'["dns"] = IF r = "dns" THEN b + 1 ELSE b
      /\ fails'["scope"] = IF r = "scope" THEN c + 1 ELSE c
      /\ fails'["timeout"] = IF r = "timeout" THEN d + 1 ELSE d
      /\ fails'["auth"] = IF r = "auth" THEN e + 1 ELSE e
      /\ fails'["panic"] = IF r = "panic" THEN f + 1 ELSE f
  BY DEF Reasons
<1>5. fails' \in [Reasons -> Nat]
  BY SMT
<1>6. r \in {"budget", "dns", "scope", "timeout", "auth", "panic"}
  BY DEF Reasons
<1> HIDE DEF a, b, c, d, e, f
<1>7. FailCount' = a + b + c + d + e + f + 1
  <2>1. CASE r = "budget"
    BY <1>1, <1>3, <1>4, <2>1, SMTT(30)
  <2>2. CASE r = "dns"
    BY <1>1, <1>3, <1>4, <2>2, SMTT(30)
  <2>3. CASE r = "scope"
    BY <1>1, <1>3, <1>4, <2>3, SMTT(30)
  <2>4. CASE r = "timeout"
    BY <1>1, <1>3, <1>4, <2>4, SMTT(30)
  <2>5. CASE r = "auth"
    BY <1>1, <1>3, <1>4, <2>5, SMTT(20)
  <2>6. CASE r = "panic"
    <3>1. /\ fails'["budget"] = a /\ fails'["dns"] = b /\ fails'["scope"] = c
          /\ fails'["timeout"] = d /\ fails'["auth"] = e /\ fails'["panic"] = f + 1
      BY <1>4, <2>6
    <3> QED
      BY <1>1, <1>3, <3>1, SMTT(30)
  <2> QED
    BY <1>6, <2>1, <2>2, <2>3, <2>4, <2>5, <2>6
<1> QED
  BY <1>1, <1>2, <1>5, <1>7, SMTT(30)

\* The targets that ended with a verdict, after a step of one that runs.
LEMMA EndedSet ==
    ASSUME FanTypeOK, NEW t \in Targets, Running(t), NEW q \in ProbeStates,
           probe' = [probe EXCEPT ![t] = q], NEW v \in {"ok", "failed"}
    PROVE  /\ Cardinality(Ended(v)) \in Nat
           /\ Cardinality(Ended(v)') = IF q.pc = v THEN Cardinality(Ended(v)) + 1 ELSE Cardinality(Ended(v))
<1>1. IsFiniteSet(Ended(v)) /\ Cardinality(Ended(v)) \in Nat
  BY FanoutAssumption, FS_Subset, FS_CardinalityType DEF Ended
<1>2. t \notin Ended(v)
  BY DEF Ended, Running
<1>3. Ended(v)' = IF q.pc = v THEN Ended(v) \cup {t} ELSE Ended(v)
  BY <1>2 DEF Ended, FanTypeOK
<1> QED
  BY <1>1, <1>2, <1>3, FS_AddElement

\* A probe moves on.
LEMMA ProbeGoesOn ==
    ASSUME FanInv, NEW t \in Targets, Running(t), NEW q \in ProbeStates, InList(q), MovesTo(t, q),
           q.pc \notin {"ok", "failed"}, UNCHANGED <<results, fails>>, cache' \in [Hosts -> Entries]
    PROVE  FanInv'
<1> USE DEF FanInv, MovesTo
<1>1. FanTypeOK'
  BY DEF FanTypeOK
<1>2. \A u \in Targets : probe'[u] = IF u = t THEN q ELSE probe[u]
  BY DEF FanTypeOK
<1>3. SecretsWiped'
  <2>1. \A u \in Targets : secrets'[u] = Left(probe'[u])
    <3>1. \A u \in Targets : secrets[u] = Left(probe[u])
      BY DEF SecretsWiped, Left
    <3> QED
      BY <1>2, <3>1
  <2> QED
    BY <2>1 DEF SecretsWiped, Left
<1>4. ProbesCounted'
  <2>1. Cardinality(Ended("ok")') = Cardinality(Ended("ok")) /\ Cardinality(Ended("failed")') = Cardinality(Ended("failed"))
    BY EndedSet
  <2> QED
    BY <2>1 DEF ProbesCounted, FailCount
<1> QED
  BY <1>1, <1>3, <1>4

\* A probe ends, and is counted.
LEMMA ProbeEnds ==
    ASSUME FanInv, NEW t \in Targets, Running(t), NEW q \in ProbeStates, MovesTo(t, q),
           \/ q.pc = "failed" /\ UNCHANGED results /\ \E r \in Reasons : fails' = [fails EXCEPT ![r] = @ + 1]
           \/ q.pc = "ok" /\ results' = Append(results, t) /\ UNCHANGED fails,
           cache' \in [Hosts -> Entries]
    PROVE  FanInv'
<1> USE DEF FanInv, MovesTo
<1>0. results \in Seq(Targets) /\ Len(results) \in Nat /\ fails \in [Reasons -> Nat]
  BY LenProperties DEF FanTypeOK
<1>1. results' \in Seq(Targets) /\ (q.pc = "ok" => Len(results') = Len(results) + 1)
  <2>1. CASE q.pc = "ok"
    <3>1. results' = Append(results, t)
      BY <2>1
    <3> QED
      BY <1>0, <3>1, AppendProperties
  <2>2. CASE q.pc = "failed"
    BY <1>0, <2>2
  <2> QED
    BY <2>1, <2>2
<1>2. fails' \in [Reasons -> Nat] /\ FailCount' = IF q.pc = "failed" THEN FailCount + 1 ELSE FailCount
  <2>1. CASE q.pc = "failed"
    BY <1>0, <2>1, FailIsCounted
  <2>2. CASE q.pc # "failed"
    BY <1>0, <2>2 DEF FailCount
  <2> QED
    BY <2>1, <2>2
<1>3. FanTypeOK'
  <2>1. InList(q)
    BY DEF InList
  <2> QED
    BY <1>1, <1>2, <2>1 DEF FanTypeOK
<1>4. \A u \in Targets : probe'[u] = IF u = t THEN q ELSE probe[u]
  BY DEF FanTypeOK
<1>5. SecretsWiped'
  <2>1. \A u \in Targets : secrets'[u] = Left(probe'[u])
    <3>1. \A u \in Targets : secrets[u] = Left(probe[u])
      BY DEF SecretsWiped, Left
    <3> QED
      BY <1>4, <3>1
  <2> QED
    BY <2>1 DEF SecretsWiped, Left
<1>6. ProbesCounted'
  <2>1. \A v \in {"ok", "failed"} :
          Cardinality(Ended(v)') = IF q.pc = v THEN Cardinality(Ended(v)) + 1 ELSE Cardinality(Ended(v))
    BY EndedSet
  <2>2. /\ Cardinality(Ended("ok")') = IF q.pc = "ok" THEN Cardinality(Ended("ok")) + 1 ELSE Cardinality(Ended("ok"))
        /\ Cardinality(Ended("failed")') =
             IF q.pc = "failed" THEN Cardinality(Ended("failed")) + 1 ELSE Cardinality(Ended("failed"))
    BY <2>1
  <2> QED
    BY <1>1, <1>2, <2>2 DEF ProbesCounted
<1> QED
  BY <1>3, <1>5, <1>6

\* The states of a probe are of their type.
LEMMA StateTypes ==
    /\ NoStatus \in StatusMaps /\ Spawned \in ProbeStates /\ Left(Spawned) = {} /\ InList(Spawned)
    /\ \A ok \in BOOLEAN, st \in StatusMaps :
         /\ ProbeOver(ok, st) \in ProbeStates /\ Left(ProbeOver(ok, st)) = {}
         /\ ProbeOver(ok, st).pc = IF ok THEN "ok" ELSE "failed"
<1>1. NoStatus \in StatusMaps
  <2>1. NoStatus \in [{} -> 0..2] /\ {} \in SUBSET Modules
    BY DEF NoStatus
  <2> QED
    BY <2>1 DEF StatusMaps
<1>2. Spawned \in ProbeStates /\ Spawned.pc = "spawned"
  BY <1>1, SMTT(30) DEF Spawned, TargetAt, ProbeStates
<1>3. ASSUME NEW ok \in BOOLEAN, NEW st \in StatusMaps
      PROVE  ProbeOver(ok, st) \in ProbeStates /\ ProbeOver(ok, st).pc = IF ok THEN "ok" ELSE "failed"
  BY SMT DEF ProbeOver, TargetAt, ProbeStates
<1>4. \A q : q.pc \notin {"trial", "walk", "won", "modules"} => Left(q) = {} /\ InList(q)
  BY DEF Left, InList
<1> QED
  BY <1>1, <1>2, <1>3, <1>4

\* probeTarget fails for a reason.
LEMMA FailStep ==
    ASSUME FanInv, NEW t \in Targets, Running(t), NEW r \in Reasons, Fail(t, r), UNCHANGED results,
           cache' \in [Hosts -> Entries]
    PROVE  FanInv'
<1> DEFINE q == ProbeOver(FALSE, NoStatus)
<1>1. q \in ProbeStates /\ q.pc = "failed" /\ Left(q) = {}
  BY StateTypes
<1>2. /\ probe' = [probe EXCEPT ![t] = q] /\ secrets' = [secrets EXCEPT ![t] = {}]
      /\ fails' = [fails EXCEPT ![r] = @ + 1]
  BY DEF Fail
<1> HIDE DEF q
<1>3. MovesTo(t, q)
  BY <1>1, <1>2 DEF MovesTo, FanInv, FanTypeOK
<1> QED
  BY <1>1, <1>2, <1>3, ProbeEnds

\* The candidates are built, or there is none.
LEMMA TryStep ==
    ASSUME FanInv, NEW t \in Targets, Running(t), NEW list \in Seq(UsableProfiles), Try(t, list),
           UNCHANGED results, cache' \in [Hosts -> Entries]
    PROVE  FanInv'
<1>1. CASE list = <<>>
  BY <1>1, FailStep DEF Try, Reasons
<1>2. CASE list # <<>>
  <2> DEFINE q == TargetAt("trial", list, 1, FALSE, NoStatus)
  <2>1. q \in ProbeStates /\ q.pc = "trial" /\ q.n = 1 /\ q.list = list
    BY StateTypes DEF TargetAt, ProbeStates
  <2>2. probe' = [probe EXCEPT ![t] = q] /\ secrets' = [secrets EXCEPT ![t] = DOMAIN list] /\ UNCHANGED fails
    BY <1>2 DEF Try
  <2> HIDE DEF q
  <2>3. Len(list) \in Nat \ {0} /\ DOMAIN list = 1..Len(list)
    BY <1>2, LenProperties, EmptySeq
  <2>4. Left(q) = DOMAIN list /\ InList(q)
    BY <2>1, <2>3, SMTT(30) DEF Left, InList
  <2>5. MovesTo(t, q)
    BY <2>2, <2>3, <2>4, SMTT(30) DEF MovesTo, FanInv, FanTypeOK
  <2> QED
    BY <2>1, <2>2, <2>4, <2>5, ProbeGoesOn
<1> QED
  BY <1>1, <1>2

\* Every step of a probe keeps the invariant.
LEMMA ProbeStep ==
    ASSUME FanInv, NEW t \in Targets, Probe(t)
    PROVE  FanInv'
<1>0. /\ probe \in [Targets -> ProbeStates] /\ probe[t] \in ProbeStates /\ InList(probe[t])
      /\ secrets \in [Targets -> SUBSET Nat] /\ cache \in [Hosts -> Entries] /\ IpOf[t] \in Hosts
  BY DEF FanInv, FanTypeOK, Hosts
<1>s. secrets[t] = Left(probe[t])
  BY DEF FanInv, SecretsWiped, Left
<1>l. Len(probe[t].list) \in Nat
  BY <1>0, LenProperties DEF ProbeStates
<1>1. CASE AdmitTarget(t)
  <2> DEFINE q == [probe[t] EXCEPT !.pc = "resolve"]
  <2>1. q \in ProbeStates /\ q.pc = "resolve" /\ probe[t].pc = "spawned"
    BY <1>0, <1>1 DEF ProbeStates, AdmitTarget
  <2>2. probe' = [probe EXCEPT ![t] = q] /\ UNCHANGED <<secrets, results, fails, cache>>
    BY <1>1 DEF AdmitTarget
  <2> HIDE DEF q
  <2>3. Left(q) = {} /\ Left(probe[t]) = {} /\ InList(q) /\ Running(t)
    BY <2>1 DEF Left, InList, Running
  <2>4. MovesTo(t, q)
    BY <1>0, <1>s, <2>2, <2>3 DEF MovesTo
  <2> QED
    BY <1>0, <2>1, <2>2, <2>3, <2>4, ProbeGoesOn
<1>2. CASE Skip(t)
  <2> DEFINE q == ProbeOver(FALSE, NoStatus)
  <2>1. q \in ProbeStates /\ q.pc = "failed" /\ Left(q) = {}
    BY StateTypes
  <2>2. /\ probe' = [probe EXCEPT ![t] = q] /\ UNCHANGED <<secrets, results, cache>> /\ probe[t].pc = "spawned"
        /\ fails' = [fails EXCEPT !["budget"] = @ + 1]
    BY <1>2 DEF Skip
  <2> HIDE DEF q
  <2>3. Left(probe[t]) = {} /\ Running(t) /\ "budget" \in Reasons
    BY <2>2 DEF Left, Running, Reasons
  <2>4. MovesTo(t, q)
    BY <1>0, <1>s, <2>1, <2>2, <2>3 DEF MovesTo
  <2> QED
    BY <1>0, <2>1, <2>2, <2>3, <2>4, ProbeEnds
<1>3. CASE Resolve(t)
  <2>1. UNCHANGED <<cache, results>> /\ probe[t].pc = "resolve"
    BY <1>3 DEF Resolve
  <2>2. Running(t)
    BY <2>1 DEF Running
  <2>3. CASE Fail(t, "dns") \/ Fail(t, "scope")
    BY <1>0, <2>1, <2>2, <2>3, FailStep DEF Reasons
  <2>4. CASE Try(t, CredentialCandidates(IpOf[t], cache[IpOf[t]].profile))
    <3>1. cache[IpOf[t]].profile \in {None} \cup UsableProfiles
      BY <1>0 DEF Entries
    <3> QED
      BY <1>0, <2>1, <2>2, <2>4, <3>1, CandidatesAreUsable, TryStep
  <2>5. CASE probe' = [probe EXCEPT ![t].pc = "evict"] /\ UNCHANGED <<slots, secrets, fails>>
    <3> DEFINE q == [probe[t] EXCEPT !.pc = "evict"]
    <3>1. q \in ProbeStates /\ q.pc = "evict"
      BY <1>0 DEF ProbeStates
    <3>2. probe' = [probe EXCEPT ![t] = q] /\ UNCHANGED <<secrets, fails>>
      BY <2>5
    <3> HIDE DEF q
    <3>3. Left(q) = {} /\ Left(probe[t]) = {} /\ InList(q)
      BY <2>1, <3>1 DEF Left, InList
    <3>4. MovesTo(t, q)
      BY <1>0, <1>s, <3>2, <3>3 DEF MovesTo
    <3> QED
      BY <1>0, <2>1, <2>2, <3>1, <3>2, <3>3, <3>4, ProbeGoesOn
  <2> QED
    BY <1>3, <2>3, <2>4, <2>5 DEF Resolve
<1>4. CASE EvictEntry(t)
  <2>1. UNCHANGED results /\ probe[t].pc = "evict" /\ Try(t, CredentialCandidates(IpOf[t], None))
    BY <1>4 DEF EvictEntry
  <2>2. Running(t)
    BY <2>1 DEF Running
  <2>3. cache' \in [Hosts -> Entries]
    BY <1>0, <1>4 DEF EvictEntry, Entries, NoEntry
  <2> QED
    BY <2>1, <2>2, <2>3, CandidatesAreUsable, TryStep
<1>5. CASE AcquireTrial(t)
  <2>1. UNCHANGED <<cache, results>> /\ probe[t].pc = "trial"
    BY <1>5 DEF AcquireTrial
  <2>2. Running(t)
    BY <2>1 DEF Running
  <2>3. CASE Fail(t, ContextReason)
    BY <1>0, <2>1, <2>2, <2>3, FailStep DEF Reasons, ContextReason
  <2>4. CASE probe' = [probe EXCEPT ![t].pc = "walk"] /\ UNCHANGED <<slots, secrets, fails>>
    <3> DEFINE q == [probe[t] EXCEPT !.pc = "walk"]
    <3>1. q \in ProbeStates /\ q.pc = "walk" /\ q.n = probe[t].n /\ q.list = probe[t].list
      BY <1>0 DEF ProbeStates
    <3>2. probe' = [probe EXCEPT ![t] = q] /\ UNCHANGED <<secrets, fails>>
      BY <2>4
    <3> HIDE DEF q
    <3>3. Left(q) = Left(probe[t]) /\ InList(q)
      BY <1>0, <2>1, <3>1 DEF Left, InList
    <3>4. MovesTo(t, q)
      BY <1>0, <1>s, <3>2, <3>3 DEF MovesTo
    <3> QED
      BY <1>0, <2>1, <2>2, <3>1, <3>2, <3>3, <3>4, ProbeGoesOn
  <2> QED
    BY <1>5, <2>3, <2>4 DEF AcquireTrial
<1>6. CASE WalkSucceeds(t)
  <2> DEFINE q == [probe[t] EXCEPT !.pc = "won"]
  <2>1. q \in ProbeStates /\ q.pc = "won" /\ q.n = probe[t].n /\ q.list = probe[t].list /\ probe[t].pc = "walk"
    BY <1>0, <1>6 DEF ProbeStates, WalkSucceeds
  <2>2. /\ probe' = [probe EXCEPT ![t] = q] /\ secrets' = [secrets EXCEPT ![t] = {probe[t].n}]
        /\ UNCHANGED <<results, fails, cache>>
    BY <1>6 DEF WalkSucceeds
  <2> HIDE DEF q
  <2>3. Left(q) = {probe[t].n} /\ InList(q) /\ Running(t) /\ probe[t].n \in Nat
    BY <1>0, <1>l, <2>1, SMTT(30) DEF Left, InList, Running
  <2>4. MovesTo(t, q)
    BY <1>0, <2>2, <2>3 DEF MovesTo
  <2> QED
    BY <1>0, <2>1, <2>2, <2>3, <2>4, ProbeGoesOn
<1>7. CASE WalkFails(t)
  <2>1. UNCHANGED results /\ probe[t].pc = "walk"
    BY <1>7 DEF WalkFails
  <2>2. Running(t)
    BY <2>1 DEF Running
  <2>3. PICK timedOut \in BOOLEAN :
          \/ budget # "alive" /\ Fail(t, ContextReason) /\ UNCHANGED cache
          \/ /\ budget = "alive" /\ probe[t].n # Len(probe[t].list)
             /\ probe' = [probe EXCEPT ![t].pc = "trial", ![t].n = @ + 1,
                                       ![t].rejected = probe[t].rejected \/ ~timedOut]
             /\ secrets' = [secrets EXCEPT ![t] = @ \ {probe[t].n}]
             /\ UNCHANGED <<slots, fails, cache>>
          \/ /\ budget = "alive" /\ Fail(t, IF timedOut THEN "timeout" ELSE "auth")
             /\ Forget(t, probe[t].rejected \/ ~timedOut)
    BY <1>7 DEF WalkFails
  <2>4. CASE Fail(t, ContextReason) /\ UNCHANGED cache
    BY <1>0, <2>1, <2>2, <2>4, FailStep DEF Reasons, ContextReason
  <2>5. CASE Fail(t, IF timedOut THEN "timeout" ELSE "auth") /\ Forget(t, probe[t].rejected \/ ~timedOut)
    <3>1. cache' \in [Hosts -> Entries]
      BY <1>0, <2>5 DEF Forget, Entries, NoEntry
    <3> QED
      BY <2>1, <2>2, <2>5, <3>1, FailStep DEF Reasons
  <2>6. CASE /\ probe[t].n # Len(probe[t].list)
             /\ probe' = [probe EXCEPT ![t].pc = "trial", ![t].n = @ + 1,
                                       ![t].rejected = probe[t].rejected \/ ~timedOut]
             /\ secrets' = [secrets EXCEPT ![t] = @ \ {probe[t].n}]
             /\ UNCHANGED <<slots, fails, cache>>
    <3> DEFINE rejected == probe[t].rejected \/ ~timedOut
               next == probe[t].n + 1
               q == [probe[t] EXCEPT !.pc = "trial", !.n = next, !.rejected = rejected]
    <3>0. rejected \in BOOLEAN /\ next \in Nat
      BY <1>0, SMTT(30) DEF ProbeStates
    <3>1. probe' = [probe EXCEPT ![t] = q] /\ next = probe[t].n + 1
      BY <2>6
    <3> HIDE DEF rejected, next
    <3>2. q \in ProbeStates /\ q.pc = "trial" /\ q.n = probe[t].n + 1 /\ q.list = probe[t].list
      <4>1. q \in ProbeStates /\ q.pc = "trial" /\ q.n = next /\ q.list = probe[t].list
        BY <1>0, <3>0 DEF ProbeStates
      <4> QED
        BY <3>1, <4>1
    <3> HIDE DEF q
    <3>3. probe[t].n \in 1..(Len(probe[t].list) - 1) /\ secrets[t] = probe[t].n..Len(probe[t].list)
      BY <1>0, <1>s, <1>l, <2>1, <2>6, SMTT(60) DEF InList, Left
    <3>4. Left(q) = secrets[t] \ {probe[t].n} /\ InList(q)
      BY <1>l, <3>2, <3>3, SMTT(20) DEF Left, InList
    <3>5. MovesTo(t, q)
      BY <1>0, <2>6, <3>1, <3>4 DEF MovesTo
    <3> QED
      BY <1>0, <2>1, <2>2, <2>6, <3>2, <3>4, <3>5, ProbeGoesOn
  <2> QED
    BY <2>3, <2>4, <2>5, <2>6
<1>8. CASE RecordSuccess(t)
  <2> DEFINE q == [probe[t] EXCEPT !.pc = "modules"]
  <2>1. q \in ProbeStates /\ q.pc = "modules" /\ q.n = probe[t].n /\ q.list = probe[t].list /\ probe[t].pc = "won"
    BY <1>0, <1>8 DEF ProbeStates, RecordSuccess
  <2>2. probe' = [probe EXCEPT ![t] = q] /\ UNCHANGED <<secrets, results, fails>>
    BY <1>8 DEF RecordSuccess
  <2> HIDE DEF q
  <2>3. Left(q) = Left(probe[t]) /\ InList(q) /\ Running(t)
    BY <1>0, <2>1 DEF Left, InList, Running
  <2>4. MovesTo(t, q)
    BY <1>0, <1>s, <2>2, <2>3 DEF MovesTo
  <2>5. cache' \in [Hosts -> Entries]
    <3>1. probe[t].n \in 1..Len(probe[t].list) /\ probe[t].list \in Seq(UsableProfiles)
      BY <1>0, <2>1 DEF InList, ProbeStates
    <3>2. probe[t].list[probe[t].n] \in UsableProfiles
      BY <3>1, ElementOfSeq
    <3> QED
      BY <1>0, <1>8, <3>2 DEF RecordSuccess, Entries
  <2> QED
    BY <2>1, <2>2, <2>3, <2>4, <2>5, ProbeGoesOn
<1>9. CASE WalkModules(t)
  <2>1. PICK status \in [ModulesFor[IpOf[t]] -> 0..2] :
          probe' = [probe EXCEPT ![t] = TargetAt("collect", <<>>, 0, FALSE, status)]
    BY <1>9 DEF WalkModules
  <2>2. status \in StatusMaps
    <3>1. ModulesFor[IpOf[t]] \in SUBSET Modules
      BY <1>0 DEF Modules
    <3> QED
      BY <3>1 DEF StatusMaps
  <2> DEFINE q == TargetAt("collect", <<>>, 0, FALSE, status)
  <2>3. q \in ProbeStates /\ q.pc = "collect"
    BY <2>2, SMTT(30) DEF ProbeStates, TargetAt
  <2>4. probe' = [probe EXCEPT ![t] = q]
    BY <2>1
  <2> HIDE DEF q
  <2>5. /\ secrets' = [secrets EXCEPT ![t] = {}] /\ UNCHANGED <<results, fails, cache>> /\ probe[t].pc = "modules"
    BY <1>9 DEF WalkModules
  <2>6. Left(q) = {} /\ InList(q) /\ Running(t)
    BY <2>3, <2>5 DEF Left, InList, Running
  <2>7. MovesTo(t, q)
    BY <1>0, <2>4, <2>5, <2>6 DEF MovesTo
  <2> QED
    BY <1>0, <2>3, <2>5, <2>6, <2>7, ProbeGoesOn
<1>10. CASE Collect(t)
  <2> DEFINE q == ProbeOver(TRUE, probe[t].status)
  <2>1. q \in ProbeStates /\ q.pc = "ok" /\ Left(q) = {}
    BY <1>0, StateTypes DEF ProbeStates
  <2>2. /\ probe' = [probe EXCEPT ![t] = q] /\ UNCHANGED <<secrets, fails, cache>> /\ probe[t].pc = "collect"
        /\ results' = Append(results, t)
    BY <1>10 DEF Collect
  <2> HIDE DEF q
  <2>3. Left(probe[t]) = {} /\ Running(t)
    BY <2>2 DEF Left, Running
  <2>4. MovesTo(t, q)
    BY <1>0, <1>s, <2>1, <2>2, <2>3 DEF MovesTo
  <2> QED
    BY <1>0, <2>1, <2>2, <2>3, <2>4, ProbeEnds
<1>11. CASE Panic(t)
  <2>1. Fail(t, "panic") /\ UNCHANGED <<cache, results>> /\ probe[t].pc = "modules"
    BY <1>11 DEF Panic
  <2>2. Running(t)
    BY <2>1 DEF Running
  <2> QED
    BY <1>0, <2>1, <2>2, FailStep DEF Reasons
<1> QED
  BY <1>1, <1>2, <1>3, <1>4, <1>5, <1>6, <1>7, <1>8, <1>9, <1>10, <1>11 DEF Probe

\* No probe has started.
LEMMA NothingStarted ==
    ASSUME probe = [t \in Targets |-> Spawned], secrets = [t \in Targets |-> {}], results = <<>>,
           fails = [r \in Reasons |-> 0], cache \in [Hosts -> Entries]
    PROVE  FanInv
<1>1. Spawned \in ProbeStates /\ InList(Spawned) /\ Left(Spawned) = {}
  BY StateTypes
<1>2. Spawned.pc = "spawned"
  BY DEF Spawned, TargetAt
<1>3. FanTypeOK
  BY <1>1, SMTT(30) DEF FanTypeOK
<1>4. SecretsWiped
  <2>1. \A t \in Targets : secrets[t] = Left(probe[t])
    BY <1>1
  <2> QED
    BY <2>1 DEF SecretsWiped, Left
<1>5. ProbesCounted
  <2>1. Ended("ok") = {} /\ Ended("failed") = {}
    BY <1>2 DEF Ended
  <2>2. FailCount = 0 /\ Len(results) = 0
    BY SMTT(30) DEF FailCount, Reasons
  <2> QED
    BY <2>1, <2>2, FS_EmptySet DEF ProbesCounted
<1> QED
  BY <1>3, <1>4, <1>5 DEF FanInv

\* A process with a warm or a cold cache starts with the invariant.
LEMMA FanStart == FanInit => FanInv
<1> SUFFICES ASSUME FanInit PROVE FanInv
  OBVIOUS
<1>1. cache \in [Hosts -> Entries]
  <2>1. {NoEntry} \cup [profile : UsableProfiles, stale : {FALSE}] \subseteq Entries
    <3>1. NoEntry \in Entries
      BY DEF Entries, NoEntry
    <3>2. ASSUME NEW e \in [profile : UsableProfiles, stale : {FALSE}] PROVE e \in Entries
      <4>1. e = [profile |-> e.profile, stale |-> e.stale] /\ e.profile \in UsableProfiles /\ e.stale = FALSE
        OBVIOUS
      <4>2. e.stale \in BOOLEAN
        BY <4>1
      <4> QED
        BY <4>1, <4>2 DEF Entries
    <3> QED
      BY <3>1, <3>2
  <2>2. cache \in [Hosts -> {NoEntry} \cup [profile : UsableProfiles, stale : {FALSE}]]
    BY DEF FanInit
  <2> HIDE DEF Entries
  <2> QED
    BY <2>1, <2>2
<1> QED
  BY <1>1, NothingStarted DEF FanInit

\* Every step of a cycle keeps the invariant.
LEMMA FanStep == FanInv /\ [FanNext]_fanVars => FanInv'
<1> SUFFICES ASSUME FanInv, [FanNext]_fanVars PROVE FanInv'
  OBVIOUS
<1>1. ASSUME NEW t \in Targets, Probe(t) PROVE FanInv'
  BY <1>1, ProbeStep
<1>2. ASSUME UNCHANGED <<probe, secrets, results, fails>>, cache' \in [Hosts -> Entries] PROVE FanInv'
  BY <1>2 DEF FanInv, FanTypeOK, SecretsWiped, ProbesCounted, FailCount, Ended
<1>3. cache \in [Hosts -> Entries]
  BY DEF FanInv, FanTypeOK
<1>4. CASE FinishCycle \/ BudgetEnds \/ Refill \/ UNCHANGED fanVars
  BY <1>2, <1>3, <1>4 DEF FinishCycle, BudgetEnds, Refill, fanVars
<1>5. CASE NextCycle
  <2>1. /\ probe' = [t \in Targets |-> Spawned] /\ secrets' = [t \in Targets |-> {}] /\ results' = <<>>
        /\ fails' = [r \in Reasons |-> 0] /\ cache' \in [Hosts -> Entries]
    BY <1>3, <1>5 DEF NextCycle
  <2>2. Spawned \in ProbeStates /\ InList(Spawned) /\ Left(Spawned) = {} /\ Spawned.pc = "spawned"
    BY StateTypes DEF Spawned, TargetAt
  <2>3. FanTypeOK'
    BY <2>1, <2>2, SMTT(30) DEF FanTypeOK
  <2>4. SecretsWiped'
    <3>1. \A t \in Targets : secrets'[t] = Left(probe'[t])
      BY <2>1, <2>2
    <3> QED
      BY <3>1 DEF SecretsWiped, Left
  <2>5. ProbesCounted'
    <3>1. Ended("ok")' = {} /\ Ended("failed")' = {}
      BY <2>1, <2>2 DEF Ended
    <3>2. FailCount' = 0 /\ Len(results') = 0
      BY <2>1, SMTT(30) DEF FailCount, Reasons
    <3> QED
      BY <3>1, <3>2, FS_EmptySet DEF ProbesCounted
  <2> QED
    BY <2>3, <2>4, <2>5 DEF FanInv
<1>6. ASSUME NEW a \in Hosts, EntryAges(a) PROVE FanInv'
  <2>1. cache' \in [Hosts -> Entries]
    BY <1>3, <1>6 DEF EntryAges, Entries
  <2> QED
    BY <1>2, <1>6, <2>1 DEF EntryAges
<1> QED
  BY <1>1, <1>4, <1>5, <1>6 DEF FanNext, CyclesOver

\* Every reachable state of the fan-out satisfies the invariant.
THEOREM FanInvariant == FanSpec => []FanInv
  BY FanStart, FanStep, PTL DEF FanSpec

\* No return, panic or end of the budget leaves the secret bytes of a candidate behind,
\* for any targets and profiles.
THEOREM SecretsAreWiped == FanSpec => []SecretsWiped
<1>1. FanInv => SecretsWiped
  BY DEF FanInv
<1> QED
  BY <1>1, FanInvariant, PTL

\* A fresh cache entry outlives the eviction of an older one and walks that time out,
\* whatever the other probes of its address do.
THEOREM ProfileIsKept == FanSpec => ProfileKeptUnlessRejected
<1> DEFINE Lost(a) == cache[a] # NoEntry /\ ~cache[a].stale /\ cache'[a] = NoEntry
           Refusal(a) == \E t \in Targets : /\ IpOf[t] = a /\ probe[t].pc = "walk" /\ probe'[t].pc = "failed"
                                            /\ probe[t].rejected \/ fails'["auth"] > fails["auth"]
<1>1. FanInv /\ [FanNext]_fanVars => [\A a \in Hosts : Lost(a) => Refusal(a)]_fanVars
  <2> SUFFICES ASSUME FanInv, [FanNext]_fanVars, NEW a \in Hosts, Lost(a) PROVE Refusal(a)
    OBVIOUS
  <2>0. cache \in [Hosts -> Entries] /\ probe \in [Targets -> ProbeStates] /\ fails \in [Reasons -> Nat]
    BY DEF FanInv, FanTypeOK
  <2>1. cache' # cache
    OBVIOUS
  <2>2. ASSUME NEW t \in Targets, WalkFails(t) PROVE Refusal(a)
    <3>1. PICK timedOut \in BOOLEAN :
            /\ Fail(t, IF timedOut THEN "timeout" ELSE "auth") /\ Forget(t, probe[t].rejected \/ ~timedOut)
            /\ probe[t].pc = "walk"
      BY <2>1, <2>2 DEF WalkFails
    <3>2. (probe[t].rejected \/ ~timedOut) /\ cache' = [cache EXCEPT ![IpOf[t]] = NoEntry]
      BY <2>1, <3>1 DEF Forget
    <3>3. IpOf[t] = a
      BY <2>0, <3>2
    <3>4. probe'[t].pc = "failed"
      BY <2>0, <3>1 DEF Fail, ProbeOver, TargetAt
    <3>5. ~timedOut => fails'["auth"] > fails["auth"]
      BY <2>0, <3>1, SMTT(30) DEF Fail, Reasons
    <3> QED
      BY <3>1, <3>2, <3>3, <3>4, <3>5
  <2>3. ASSUME NEW t \in Targets, EvictEntry(t) PROVE FALSE
    <3>1. cache' = [cache EXCEPT ![IpOf[t]] = IF @.stale THEN NoEntry ELSE @]
      BY <2>3 DEF EvictEntry
    <3> QED
      BY <2>0, <3>1
  <2>4. ASSUME NEW t \in Targets, RecordSuccess(t) PROVE FALSE
    <3> DEFINE won == probe[t].list[probe[t].n]
    <3>1. probe[t].pc = "won" /\ cache' = [cache EXCEPT ![IpOf[t]] = [profile |-> won, stale |-> FALSE]]
      BY <2>4 DEF RecordSuccess
    <3>2. probe[t].n \in 1..Len(probe[t].list) /\ probe[t].list \in Seq(UsableProfiles)
      BY <2>0, <3>1 DEF FanInv, FanTypeOK, InList, ProbeStates
    <3>3. won \in Nat
      <4>1. won \in UsableProfiles
        BY <3>2, ElementOfSeq
      <4> QED
        BY <4>1, FanoutAssumption
    <3> HIDE DEF won
    <3> QED
      BY <2>0, <3>1, <3>3, SMTT(30) DEF NoEntry, None
  <2>5. ASSUME NEW b \in Hosts, EntryAges(b) PROVE FALSE
    <3>1. cache' = [cache EXCEPT ![b].stale = TRUE]
      BY <2>5 DEF EntryAges
    <3> QED
      BY <2>0, <3>1 DEF NoEntry, Entries
  <2> QED
    BY <2>1, <2>2, <2>3, <2>4, <2>5
    DEF FanNext, fanVars, Probe, AdmitTarget, Skip, Resolve, AcquireTrial, WalkSucceeds, WalkModules,
        Collect, Panic, FinishCycle, NextCycle, BudgetEnds, Refill, CyclesOver
<1> QED
  BY <1>1, FanInvariant, PTL DEF ProfileKeptUnlessRejected, FanSpec

-----------------------------------------------------------------------------
(* The sweep                                                               *)

\* A step of a probe is one of a probe that has not ended, and leaves the others alone.
LEMMA OneProbeMoves ==
    ASSUME FanInv, NEW t \in Targets, Probe(t)
    PROVE  Running(t) /\ UNCHANGED counts /\ \A x \in Targets \ {t} : probe'[x] = probe[x]
<1> DEFINE Alone == \A x \in Targets \ {t} : probe'[x] = probe[x]
<1>1. probe \in [Targets -> ProbeStates]
  BY DEF FanInv, FanTypeOK
<1>2. \A r : Fail(t, r) => Alone
  BY <1>1 DEF Fail
<1>3. \A list : Try(t, list) => Alone
  BY <1>1, <1>2 DEF Try
<1>4. UNCHANGED counts
  BY DEF Probe, AdmitTarget, Skip, Resolve, EvictEntry, AcquireTrial, WalkSucceeds, WalkFails, RecordSuccess,
               WalkModules, Collect, Panic
<1>5. Running(t)
  BY DEF Running, Probe, AdmitTarget, Skip, Resolve, EvictEntry, AcquireTrial, WalkSucceeds, WalkFails,
         RecordSuccess, WalkModules, Collect, Panic
<1>6. CASE AdmitTarget(t) \/ Skip(t) \/ WalkSucceeds(t) \/ RecordSuccess(t) \/ WalkModules(t) \/ Collect(t)
  BY <1>1, <1>4, <1>5, <1>6 DEF AdmitTarget, Skip, WalkSucceeds, RecordSuccess, WalkModules, Collect
<1>7. CASE Resolve(t) \/ EvictEntry(t) \/ AcquireTrial(t) \/ WalkFails(t) \/ Panic(t)
  <2>1. Alone
    <3>1. CASE Resolve(t)
      BY <1>1, <1>2, <1>3, <3>1 DEF Resolve
    <3>2. CASE EvictEntry(t)
      BY <1>1, <1>3, <3>2 DEF EvictEntry
    <3>3. CASE AcquireTrial(t)
      BY <1>1, <1>2, <3>3 DEF AcquireTrial
    <3>4. CASE WalkFails(t)
      BY <1>1, <1>2, <3>4 DEF WalkFails
    <3>5. CASE Panic(t)
      BY <1>2, <3>5 DEF Panic
    <3> QED
      BY <1>7, <3>1, <3>2, <3>3, <3>4, <3>5
  <2> QED
    BY <1>4, <1>5, <2>1
<1> QED
  BY <1>6, <1>7 DEF Probe

\* RunCycle implements the abstract sweep: every target gets one final verdict, whatever
\* the order of slots, budget and panics, and the report counts all of them.
THEOREM SweepRefined == FanSpec => ImplementsSweep
<1> DEFINE Verdict(q) == IF q.pc \in {"ok", "failed"} THEN q.pc ELSE "pending"
           verdict == [t \in Targets |-> IF probe[t].pc \in {"ok", "failed"} THEN probe[t].pc ELSE "pending"]
           report  == {[ok |-> c.ok, failed |-> c.failed] : c \in counts}
<1>1. FanInit => Promise!Init
  <2> SUFFICES ASSUME FanInit PROVE Promise!Init
    OBVIOUS
  <2>1. \A t \in Targets : probe[t].pc = "spawned"
    BY DEF FanInit, Spawned, TargetAt
  <2>2. verdict = Promise!Fresh
    BY <2>1 DEF Promise!Fresh
  <2>3. report = {}
    BY DEF FanInit
  <2> QED
    BY <2>2, <2>3 DEF Promise!Init
<1>2. FanInv /\ [FanNext]_fanVars => [Promise!Next]_<<verdict, report>>
  <2> SUFFICES ASSUME FanInv, [FanNext]_fanVars PROVE [Promise!Next]_<<verdict, report>>
    OBVIOUS
  <2>0. probe \in [Targets -> ProbeStates]
    BY DEF FanInv, FanTypeOK
  <2>1. ASSUME NEW t \in Targets, Probe(t) PROVE [Promise!Next]_<<verdict, report>>
    <3> DEFINE q == probe'[t]
    <3>1. probe' = [probe EXCEPT ![t] = q]
      <4>1. \A x \in Targets \ {t} : probe'[x] = probe[x]
        BY <2>1, OneProbeMoves
      <4>2. probe' \in [Targets -> ProbeStates]
        BY FanStep DEF FanInv, FanTypeOK
      <4> QED
        BY <2>0, <4>1, <4>2
    <3>2. Running(t) /\ UNCHANGED counts
      BY <2>1, OneProbeMoves
    <3>3. UNCHANGED report
      BY <3>2
    <3>4. verdict[t] = "pending" /\ verdict' = [verdict EXCEPT ![t] = Verdict(q)]
      BY <2>0, <3>1, <3>2 DEF Running
    <3> HIDE DEF q
    <3>5. CASE q.pc \in {"ok", "failed"}
      <4>1. Promise!Settle(t)
        BY <3>3, <3>4, <3>5 DEF Promise!Settle
      <4> QED
        BY <4>1 DEF Promise!Next
    <3>6. CASE q.pc \notin {"ok", "failed"}
      <4>1. verdict' = verdict
        BY <3>4, <3>6
      <4> QED
        BY <3>3, <4>1
    <3> QED
      BY <3>5, <3>6
  <2>2. CASE FinishCycle
    <3>1. /\ counts = {} /\ UNCHANGED probe
          /\ \A t \in Targets : probe[t].pc \in {"ok", "failed"}
          /\ counts' = {[ok |-> Len(results), failed |-> FailCount, devices |-> Devices(SortResults(results))]}
      BY <2>2 DEF FinishCycle
    <3>2. report = {} /\ report' = {[ok |-> Len(results), failed |-> FailCount]}
      BY <3>1, SMTT(30)
    <3>3. \A t \in Targets : verdict[t] = probe[t].pc /\ verdict[t] # "pending"
      BY <3>1
    <3>4. Promise!Sum = [ok |-> Len(results), failed |-> FailCount]
      <4>1. /\ {t \in Targets : verdict[t] = "ok"} = Ended("ok")
            /\ {t \in Targets : verdict[t] = "failed"} = Ended("failed")
        BY <3>3 DEF Ended
      <4>2. Promise!Sum = [ok |-> Cardinality({t \in Targets : verdict[t] = "ok"}),
                           failed |-> Cardinality({t \in Targets : verdict[t] = "failed"})]
        BY DEF Promise!Sum, Promise!Cardinality, Cardinality, Promise!IsFiniteSet, IsFiniteSet
      <4> HIDE DEF verdict
      <4> QED
        BY <4>1, <4>2 DEF FanInv, ProbesCounted
    <3>5. UNCHANGED verdict
      BY <3>1
    <3>6. Promise!Close
      BY <3>2, <3>3, <3>4, <3>5 DEF Promise!Close
    <3> QED
      BY <3>6 DEF Promise!Next
  <2>3. CASE NextCycle
    <3>1. counts # {} /\ counts' = {} /\ probe' = [t \in Targets |-> Spawned]
      BY <2>3 DEF NextCycle
    <3>2. report # {} /\ report' = {}
      BY <3>1
    <3>3. verdict' = Promise!Fresh
      BY <3>1 DEF Promise!Fresh, Spawned, TargetAt
    <3> QED
      BY <3>2, <3>3 DEF Promise!Next, Promise!Again
  <2>4. CASE UNCHANGED <<probe, counts>>
    BY <2>4
  <2> QED
    BY <2>1, <2>2, <2>3, <2>4 DEF FanNext, BudgetEnds, Refill, CyclesOver, EntryAges, fanVars
<1> QED
  BY <1>1, <1>2, FanInvariant, PTL DEF ImplementsSweep, FanSpec, Promise!Spec
=============================================================================
