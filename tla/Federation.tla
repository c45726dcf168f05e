----------------------------- MODULE Federation -----------------------------
(***************************************************************************)
(* Spokes, hub replicas, the Lease and the push Service together: how a    *)
(* push finds the leader, and how a new leader becomes fresh.  The hub is  *)
(* reduced to what routing sees of it (the leader gate of handlePush,      *)
(* firstLive, IsReady); a spoke to its cycles, its attempts and its        *)
(* keep-alive connection.                                                  *)
(*                                                                         *)
(* Gated is how the deployment reaches the hubs.  TRUE: through the push   *)
(* Service of deploy/, whose endpoints are the pods that answer /readyz.   *)
(* FALSE: hub_url resolves to every running hub.                           *)
(***************************************************************************)
EXTENDS Naturals, FiniteSets

CONSTANTS Hubs, Spokes,
          HA,           \* federation.hub.ha.enabled
          Gated,        \* pushes go through the readiness-gated Service
          MaxAttempts,  \* attempts of one Spoke.Push
          MaxFlips      \* bound on lost leases and crashes

NoHub == "none"

ASSUME FederationAssumption ==
    /\ NoHub \notin Hubs
    /\ HA \in BOOLEAN /\ Gated \in BOOLEAN
    /\ MaxAttempts \in Nat \ {0} /\ MaxFlips \in Nat
    /\ ~HA => Cardinality(Hubs) = 1

VARIABLES
    process,    \* per hub: the process runs, drains after a cancel, or is down
    holder,     \* who holds the Lease
    isLeader,   \* per hub: h.isLeader
    firstLive,  \* per hub: h.firstLive
    fresh,      \* per hub: the spokes it has accepted a push from
    endpoints,  \* the push Service's ready endpoints
    attempt,    \* per spoke: the attempt of its Push, 0 between cycles
    conn,       \* per spoke: the hub its keep-alive connection goes to
    flips

vars == <<process, holder, isLeader, firstLive, fresh, endpoints, attempt, conn, flips>>

Init ==
    /\ process = [h \in Hubs |-> "up"]
    /\ holder = NoHub
    /\ isLeader = [h \in Hubs |-> ~HA]
    /\ firstLive = [h \in Hubs |-> FALSE]
    /\ fresh = [h \in Hubs |-> {}]
    /\ endpoints = {}
    /\ attempt = [s \in Spokes |-> 0]
    /\ conn = [s \in Spokes |-> NoHub]
    /\ flips = 0

Serves(h)  == process[h] # "down"
IsReady(h) == Serves(h) /\ firstLive[h] /\ isLeader[h]

-----------------------------------------------------------------------------
(* The Lease and the Service (external).                                   *)

\* A contending replica takes the free Lease, or finds that it still holds it
\* after a quick restart: OnStartedLeading.
Elect(h) ==
    /\ HA /\ process[h] = "up"
    /\ holder \in {NoHub, h} /\ ~isLeader[h]
    /\ holder' = h
    /\ isLeader' = [isLeader EXCEPT ![h] = TRUE]
    /\ UNCHANGED <<process, firstLive, fresh, endpoints, attempt, conn, flips>>

\* The holder fails to renew; it does not know yet.
LoseLease ==
    /\ holder # NoHub
    /\ flips < MaxFlips
    /\ flips' = flips + 1
    /\ holder' = NoHub
    /\ UNCHANGED <<process, isLeader, firstLive, fresh, endpoints, attempt, conn>>

\* The Lease of a dead holder runs out.
LeaseExpires ==
    /\ holder # NoHub /\ ~Serves(holder)
    /\ holder' = NoHub
    /\ UNCHANGED <<process, isLeader, firstLive, fresh, endpoints, attempt, conn, flips>>

\* A process ends: its memory and its connections are gone.
Exit(h) ==
    /\ process' = [process EXCEPT ![h] = "down"]
    /\ isLeader' = [isLeader EXCEPT ![h] = FALSE]
    /\ firstLive' = [firstLive EXCEPT ![h] = FALSE]
    /\ fresh' = [fresh EXCEPT ![h] = {}]
    /\ conn' = [s \in Spokes |-> IF conn[s] = h THEN NoHub ELSE conn[s]]

\* OnStoppedLeading: the hub answers pushes as a follower.  elector.Run goes on
\* contending, or it returns and its goroutine cancels the process.
StepDown(h) ==
    /\ HA /\ process[h] = "up" /\ isLeader[h] /\ holder # h
    /\ isLeader' = [isLeader EXCEPT ![h] = FALSE]
    /\ \E p \in {"up", "draining"} : process' = [process EXCEPT ![h] = p]
    /\ UNCHANGED <<holder, firstLive, fresh, endpoints, attempt, conn, flips>>

Drained(h) ==
    /\ process[h] = "draining"
    /\ Exit(h)
    /\ UNCHANGED <<holder, endpoints, attempt, flips>>

Crash(h) ==
    /\ process[h] = "up"
    /\ flips < MaxFlips
    /\ flips' = flips + 1
    /\ Exit(h)
    /\ UNCHANGED <<holder, endpoints, attempt>>

\* The orchestrator starts the process again; with HA it waits to be elected.
Restart(h) ==
    /\ ~Serves(h)
    /\ process' = [process EXCEPT ![h] = "up"]
    /\ isLeader' = [isLeader EXCEPT ![h] = ~HA]
    /\ UNCHANGED <<holder, firstLive, fresh, endpoints, attempt, conn, flips>>

\* The readiness probe of one pod reaches the endpoints.
Probe(h) ==
    /\ endpoints' = IF IsReady(h) THEN endpoints \cup {h} ELSE endpoints \ {h}
    /\ UNCHANGED <<process, holder, isLeader, firstLive, fresh, attempt, conn, flips>>

-----------------------------------------------------------------------------
(* The spokes.                                                             *)

\* A discovery cycle hands a payload to the pusher.
StartPush(s) ==
    /\ attempt[s] = 0
    /\ attempt' = [attempt EXCEPT ![s] = 1]
    /\ UNCHANGED <<process, holder, isLeader, firstLive, fresh, endpoints, conn, flips>>

Targets == IF Gated THEN endpoints ELSE Hubs

\* A retryable failure: the next attempt, or the next cycle.
Retry(s) == attempt' = [attempt EXCEPT ![s] = IF @ < MaxAttempts THEN @ + 1 ELSE 0]

\* A follower answers 503 with Connection: close, so the connection is gone.
AfterRefusalKeepAlive(s, h) == h
AfterRefusal(s, h) == NoHub

\* One POST over the open connection, or over a new one to some running target.
Post(s, h) ==
    /\ attempt[s] > 0
    /\ conn[s] = h \/ (conn[s] = NoHub /\ h \in Targets /\ Serves(h))
    /\ IF isLeader[h]
       THEN /\ firstLive' = [firstLive EXCEPT ![h] = TRUE]
            /\ fresh' = [fresh EXCEPT ![h] = @ \cup {s}]
            /\ attempt' = [attempt EXCEPT ![s] = 0]
            /\ conn' = [conn EXCEPT ![s] = h]
       ELSE /\ Retry(s)
            /\ conn' = [conn EXCEPT ![s] = AfterRefusal(s, h)]
            /\ UNCHANGED <<firstLive, fresh>>
    /\ UNCHANGED <<process, holder, isLeader, endpoints, flips>>

\* The target is down, or there is no endpoint behind the Service.
PostFails(s) ==
    /\ attempt[s] > 0 /\ conn[s] = NoHub
    /\ ~(Targets # {} /\ \A h \in Targets : Serves(h))
    /\ Retry(s)
    /\ UNCHANGED <<process, holder, isLeader, firstLive, fresh, endpoints, conn, flips>>

SpokeStep(s) == StartPush(s) \/ PostFails(s) \/ \E h \in Hubs : Post(s, h)

Next ==
    \/ LoseLease \/ LeaseExpires
    \/ \E h \in Hubs : Elect(h) \/ StepDown(h) \/ Drained(h) \/ Crash(h) \/ Restart(h) \/ Probe(h)
    \/ \E s \in Spokes : SpokeStep(s)

\* Electors contend and notice a lost Lease, probes run, discovery cycles and
\* their pushes go on, and a spoke that reconnects again and again is not sent to
\* the same target for ever.  No fairness on losing the Lease or on crashes.
Fairness ==
    /\ WF_vars(\E h \in Hubs : Elect(h)) /\ WF_vars(LeaseExpires)
    /\ \A h \in Hubs : WF_vars(StepDown(h)) /\ WF_vars(Drained(h))
                        /\ WF_vars(Restart(h)) /\ WF_vars(Probe(h))
    /\ \A s \in Spokes : WF_vars(SpokeStep(s)) /\ \A h \in Hubs : SF_vars(Post(s, h))

Spec == Init /\ [][Next]_vars /\ Fairness

-----------------------------------------------------------------------------
(* Properties.                                                             *)

\* The replica that leads: the holder of the Lease, or the only hub without HA.
Leads(h) == isLeader[h] /\ (HA => holder = h)

\* docs/operator/federation.md:354 and 379-382: a leader becomes fresh from
\* the spokes' pushes, after a start and after every failover.
LeaderBecomesFresh == []<>(\E h \in Hubs : Leads(h) /\ fresh[h] = Spokes)

\* A connection is kept only to a hub that serves and has accepted a push of that spoke
\* since it started, and a hub is live as soon as it has accepted one and not before.
ConnectedWasAccepted ==
    /\ \A s \in Spokes : conn[s] # NoHub => Serves(conn[s]) /\ s \in fresh[conn[s]]
    /\ \A h \in Hubs : firstLive[h] <=> fresh[h] # {}

\* Behind the readiness-gated Service no hub ever accepts a push.
GateStaysShut == Gated => \A h \in Hubs : fresh[h] = {}
=============================================================================
