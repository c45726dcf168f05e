--------------------------- MODULE OtlpPublisher ---------------------------
(***************************************************************************)
(* The OTLP output: publish hands the changes and the graph of a cycle to  *)
(* otlpPublisher.Push, which runs each push in a goroutine under a cap,    *)
(* the exporter keeps the latest graph for its observable gauges, and      *)
(* shutdown drains.  A graph is the number of the cycle that produced it.  *)
(***************************************************************************)
EXTENDS Integers, Sequences, FiniteSets, FiniteSetsExt

CONSTANTS Cap,              \* MaxOTLPPushConcurrency
          HeartbeatCycles,
          Port,             \* of the collector, as error messages quote it
          MaxGraphs         \* bound on cycles

\* classifyHTTPStatus takes the first three digits of 400..599 it finds for the status,
\* and error texts quote the endpoint: the port must not look like one.
ASSUME PublisherAssumption ==
    /\ Cap \in Nat \ {0} /\ HeartbeatCycles \in Nat \ {0} /\ MaxGraphs \in Nat
    /\ Port \in Nat \ (400..599)

VARIABLES
    step,       \* publish: where it is, and the graph of its cycle
    flights,    \* the push goroutines
    sem, wg,    \* len(p.sem) and the count of p.wg
    asked,      \* calls of Push so far
    tally,      \* OTLPPushTotal by status, and PanicsRecoveredTotal
    blamed,     \* the last fault met, with the reason it was counted under
    latest,     \* Exporter.latest, 0 for nil
    receiver,   \* the graph whose series the collector has
    newest,     \* history: the last graph a goroutine was started for
    delivered,  \* history: graphs whose push was counted as ok
    overtaken,  \* history: a graph was stored over a newer one
    stop,       \* shutdown: "no", waiting for the "workers", for "otlp", "exit"
    forced      \* a wait of the shutdown timed out

otlpVars == <<step, flights, sem, wg, asked, tally, blamed, latest, receiver, newest, delivered,
              overtaken, stop, forced>>

OtlpInit ==
    /\ step = [pc |-> "idle", graph |-> 0]
    /\ flights = {} /\ sem = 0 /\ wg = 0 /\ asked = 0
    /\ tally = [s \in {"ok", "error", "dropped", "panicked"} |-> 0]
    /\ blamed = {}
    /\ latest = 0 /\ receiver = 0 /\ newest = 0
    /\ delivered = {} /\ overtaken = FALSE
    /\ stop = "no" /\ forced = FALSE

-----------------------------------------------------------------------------
(* ClassifyPushError.  An error is a context deadline or a text, of which  *)
(* the telling words and the runs of digits matter.                        *)

Faults == {"refused", "deadline", "slow", "tls", "4xx", "5xx"}

\* What the transport says: the endpoint, then the status if there was an answer.
ErrorOf(fault) ==
    [deadline |-> fault = "deadline",
     words    |-> CASE fault = "tls" -> {"tls:"} [] fault = "slow" -> {"timeout"} [] OTHER -> {},
     numbers  |-> CASE fault = "4xx" -> <<Port, 404>> [] fault = "5xx" -> <<Port, 503>> [] OTHER -> <<Port>>]

\* The first run of three digits that could be a status decides.
classifyHTTPStatus(numbers) ==
    LET at == {i \in DOMAIN numbers : numbers[i] \in 400..599}
    IN  IF at = {} THEN "none" ELSE IF numbers[Min(at)] < 500 THEN "http_4xx" ELSE "http_5xx"

ClassifyPushError(err) ==
    CASE err.deadline -> "timeout"
      [] ~err.deadline /\ "tls:" \in err.words -> "tls_error"
      [] ~err.deadline /\ "tls:" \notin err.words /\ "timeout" \in err.words -> "timeout"
      [] OTHER -> IF classifyHTTPStatus(err.numbers) = "none" THEN "network"
                  ELSE classifyHTTPStatus(err.numbers)

-----------------------------------------------------------------------------
(* publish                                                                 *)

Count(status) == tally' = [tally EXCEPT ![status] = @ + 1]

\* A slot of the semaphore and a goroutine, or the push is dropped and counted.
PushOtlp(kind) ==
    /\ asked' = asked + 1
    /\ IF sem < Cap
       THEN /\ flights' = flights \cup {[id |-> asked, kind |-> kind, graph |-> step.graph, pc |-> "start"]}
            /\ sem' = sem + 1 /\ wg' = wg + 1
            /\ newest' = IF kind = "graph" THEN step.graph ELSE newest
            /\ UNCHANGED tally
       ELSE /\ Count("dropped")
            /\ UNCHANGED <<flights, sem, wg, newest>>

\* A cycle ends with the context alive: changes are pushed, and the graph with them or
\* on every HeartbeatCycles-th cycle.
PublishCycle ==
    /\ stop = "no" /\ step.pc = "idle" /\ step.graph < MaxGraphs
    /\ \E changed \in BOOLEAN :
         LET n == step.graph + 1
         IN  step' = [pc |-> CASE changed -> "changes"
                               [] ~changed /\ n % HeartbeatCycles = 0 -> "graph"
                               [] OTHER -> "idle",
                      graph |-> n]
    /\ blamed' = {}
    /\ UNCHANGED <<flights, sem, wg, asked, tally, latest, receiver, newest, delivered,
                   overtaken, stop, forced>>

HandOver ==
    /\ stop # "exit" /\ step.pc \in {"changes", "graph"}
    /\ PushOtlp(step.pc)
    /\ step' = [pc |-> IF step.pc = "changes" THEN "graph" ELSE "idle", graph |-> step.graph]
    /\ blamed' = {}
    /\ UNCHANGED <<latest, receiver, delivered, overtaken, stop, forced>>

-----------------------------------------------------------------------------
(* The goroutine of a push                                                 *)

Flushing(f) == [id |-> f.id, kind |-> f.kind, graph |-> f.graph, pc |-> "flush"]

\* Mutated form: the flush of a graph finds the previous one.
StoresLate(f) ==
    /\ flights' = (flights \ {f}) \cup {Flushing(f)}
    /\ UNCHANGED <<latest, overtaken>>

\* PushGraph stores its graph for the gauges; PushChanges emits its records.
Stores(f) ==
    /\ flights' = (flights \ {f}) \cup {Flushing(f)}
    /\ latest' = IF f.kind = "graph" THEN f.graph ELSE latest
    /\ overtaken' = (overtaken \/ (f.kind = "graph" /\ f.graph < latest))

Begin(f) ==
    /\ stop # "exit" /\ f.pc = "start"
    /\ Stores(f)
    /\ blamed' = {}
    /\ UNCHANGED <<step, sem, wg, asked, tally, receiver, newest, delivered, stop, forced>>

\* The deferred calls of every way out.
Land(f) == flights' = flights \ {f} /\ sem' = sem - 1 /\ wg' = wg - 1

\* ForceFlush: the reader collects the gauges and exports them.
FlushOK(f) ==
    /\ stop # "exit" /\ f.pc = "flush"
    /\ receiver' = IF f.kind = "graph" THEN latest ELSE receiver
    /\ delivered' = IF f.kind = "graph" THEN delivered \cup {f.graph} ELSE delivered
    /\ Count("ok")
    /\ Land(f)
    /\ blamed' = {}
    /\ UNCHANGED <<step, asked, latest, newest, overtaken, stop, forced>>

\* It fails, after the collector may have taken the data if no answer came.
FlushFails(f) ==
    /\ stop # "exit" /\ f.pc = "flush"
    /\ \E fault \in Faults :
         /\ blamed' = {<<fault, ClassifyPushError(ErrorOf(fault))>>}
         /\ receiver' \in {receiver} \cup (IF f.kind = "graph" /\ fault \in {"deadline", "slow"} THEN {latest} ELSE {})
    /\ Count("error")
    /\ Land(f)
    /\ UNCHANGED <<step, asked, latest, newest, delivered, overtaken, stop, forced>>

Panics(f) ==
    /\ stop # "exit" /\ f.pc = "flush"
    /\ Count("panicked")
    /\ Land(f)
    /\ blamed' = {}
    /\ UNCHANGED <<step, asked, latest, receiver, newest, delivered, overtaken, stop, forced>>

\* The reader also exports on its own interval.
PeriodicExport ==
    /\ stop # "exit" /\ receiver # latest
    /\ receiver' = latest
    /\ blamed' = {}
    /\ UNCHANGED <<step, flights, sem, wg, asked, tally, latest, newest, delivered, overtaken,
                   stop, forced>>

-----------------------------------------------------------------------------
(* Shutdown                                                                *)

StopSignal ==
    /\ stop = "no"
    /\ stop' = "workers"
    /\ blamed' = {}
    /\ UNCHANGED <<step, flights, sem, wg, asked, tally, latest, receiver, newest, delivered,
                   overtaken, forced>>

\* The discovery loop has returned, or the wait for it times out.
WorkersDone ==
    /\ stop = "workers" /\ step.pc = "idle"
    /\ stop' = "otlp"
    /\ blamed' = {}
    /\ UNCHANGED <<step, flights, sem, wg, asked, tally, latest, receiver, newest, delivered,
                   overtaken, forced>>

\* pub.Drain returns.
Drained ==
    /\ stop = "otlp" /\ wg = 0
    /\ stop' = "exit"
    /\ blamed' = {}
    /\ UNCHANGED <<step, flights, sem, wg, asked, tally, latest, receiver, newest, delivered,
                   overtaken, forced>>

DrainTimesOut ==
    /\ stop \in {"workers", "otlp"}
    /\ stop' = IF stop = "workers" THEN "otlp" ELSE "exit"
    /\ forced' = TRUE
    /\ blamed' = {}
    /\ UNCHANGED <<step, flights, sem, wg, asked, tally, latest, receiver, newest, delivered,
                   overtaken>>

Exited == stop = "exit" /\ UNCHANGED otlpVars

Flight == \E f \in flights : Begin(f) \/ FlushOK(f) \/ FlushFails(f) \/ Panics(f)

OtlpNext ==
    \/ PublishCycle \/ HandOver \/ Flight \/ PeriodicExport
    \/ StopSignal \/ WorkersDone \/ Drained \/ DrainTimesOut \/ Exited

OtlpSpec == OtlpInit /\ [][OtlpNext]_otlpVars

-----------------------------------------------------------------------------
(* Properties                                                              *)

\* The semaphore and the wait group count the goroutines under way, never more than
\* the cap, on every way out of a push.
FlightsMatch == sem = Cardinality(flights) /\ wg = Cardinality(flights) /\ sem <= Cap

\* Every push asked for is counted once: ok, error, dropped or a recovered panic.
EveryPushCounted ==
    asked = tally["ok"] + tally["error"] + tally["dropped"] + tally["panicked"] + Cardinality(flights)

\* Once the push of the last graph handed over has been counted as ok, the collector has
\* that graph and no removed edge of an older one, whatever pushes of older graphs are
\* still under way, fail or land.  The exception is a graph whose goroutine stored it
\* after a later cycle's.
ReceiverIsCurrent == newest \in delivered /\ ~overtaken => receiver = newest

\* A push that failed is counted under the reason that tells what happened:
\* ClassifyPushError reads no status out of an error that has none.
ReasonNamesTheFault ==
    \A b \in blamed : b[2] = CASE b[1] = "refused" -> "network"
                               [] b[1] \in {"deadline", "slow"} -> "timeout"
                               [] b[1] = "tls" -> "tls_error"
                               [] b[1] = "4xx" -> "http_4xx"
                               [] b[1] = "5xx" -> "http_5xx"

\* A shutdown that was not forced cuts no push short.
DrainedIsIdle == stop = "exit" /\ ~forced => flights = {}
=============================================================================
