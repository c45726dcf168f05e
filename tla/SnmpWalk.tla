------------------------------ MODULE SnmpWalk ------------------------------
(***************************************************************************)
(* The blocking calls of internal/discovery/snmp/snmp.go: Walk, which gets *)
(* the SYSTEM group on a session of its own, and BulkWalk, which tries     *)
(* BulkWalkAll and then WalkAll on the session its walker acquired.  Both  *)
(* hand the blocking call to a goroutine and wait for it or for the end of *)
(* the context, whichever they see first: when both are ready, either.     *)
(*                                                                         *)
(* The calls of one target, in any order, under contexts that may end at   *)
(* any time.                                                               *)
(***************************************************************************)
EXTENDS Naturals

CONSTANTS MaxCalls    \* bound on the calls of a target

ASSUME WalkAssumption == MaxCalls \in Nat \ {0}

VARIABLES call,     \* the caller: where it is, which operation, what it returned
          fetch,    \* the transport goroutine and what it found
          ended,    \* ctx.Done() is closed
          session,  \* the session the call uses: "none", "open" or "closed"
          late,     \* requests of this call begun after the context ended
          calls

walkVars == <<call, fetch, ended, session, late, calls>>

NoFetch == [pc |-> "none", found |-> "nothing"]
Reading == [pc |-> "reading", found |-> "nothing"]
CallAt(pc) == call.pc = pc
CallBecomes(pc, op) == call' = [pc |-> pc, op |-> op, result |-> call.result]
CallGoes(pc) == CallBecomes(pc, call.op)
Returns(what) == call' = [pc |-> "returned", op |-> call.op, result |-> what]

WalkInit ==
    /\ call = [pc |-> "idle", op |-> "get", result |-> "none"]
    /\ fetch = NoFetch /\ ended = FALSE /\ session = "none" /\ late = 0 /\ calls = 0

\* The per-target timeout, the end of the cycle or a shutdown.
WalkContextEnds ==
    /\ ~ended /\ ~CallAt("idle")
    /\ ended' = TRUE
    /\ UNCHANGED <<call, fetch, session, late, calls>>

\* go func() { ... }()
StartRequest ==
    /\ fetch' = Reading
    /\ late' = late + (IF ended THEN 1 ELSE 0)
    /\ CallGoes("select")

\* Walk opens a session of its own; a walker has acquired one before BulkWalk.
BeginGet ==
    /\ CallAt("idle") /\ calls < MaxCalls
    /\ calls' = calls + 1 /\ late' = 0 /\ fetch' = NoFetch
    /\ \/ /\ session' = "open"
          /\ call' = [pc |-> "start", op |-> "get", result |-> "none"]
       \/ /\ session' = "none"
          /\ call' = [pc |-> "returned", op |-> "get", result |-> "error"]
    /\ UNCHANGED ended

BeginBulk ==
    /\ CallAt("idle") /\ calls < MaxCalls
    /\ calls' = calls + 1 /\ late' = 0 /\ fetch' = NoFetch /\ session' = "open"
    /\ call' = [pc |-> "limited", op |-> "bulk", result |-> "none"]
    /\ UNCHANGED ended

\* ctx.Err() first, then rate.Limiter.Wait: a token, or an error when the context
\* ends or would end before there is one.
RateLimited ==
    /\ CallAt("limited")
    /\ \/ ~ended /\ CallGoes("start")
       \/ Returns("cancelled")
    /\ UNCHANGED <<fetch, ended, session, late, calls>>

Start == CallAt("start") /\ StartRequest /\ UNCHANGED <<ended, session, calls>>

\* Mutated form: the recovered panic is not sent to the caller.
TransportSilent ==
    /\ fetch.pc = "reading"
    /\ fetch' \in {[pc |-> "sent", found |-> "pdus"], [pc |-> "sent", found |-> "error"],
                   [pc |-> "gone", found |-> "nothing"]}
    /\ UNCHANGED <<call, ended, session, late, calls>>

\* The library returns rows or an error (a timeout, a rejected GetBulk, a deadline
\* in the past), or panics, which reportWalkPanic makes an error.
Transport ==
    /\ fetch.pc = "reading"
    /\ fetch' \in {[pc |-> "sent", found |-> "pdus"], [pc |-> "sent", found |-> "error"]}
    /\ UNCHANGED <<call, ended, session, late, calls>>

\* case r := <-ch: rows are returned; an error of BulkWalkAll leads to the fallback.
ReceiveReply ==
    /\ CallAt("select") /\ fetch.pc = "sent"
    /\ IF fetch.found = "error" /\ call.op = "bulk"
       THEN CallGoes("recheck")
       ELSE Returns(fetch.found)
    /\ fetch' = NoFetch
    /\ UNCHANGED <<ended, session, late, calls>>

\* Mutated form: the call returns without waiting for the goroutine.
InterruptAtOnce ==
    /\ CallAt("select") /\ ended
    /\ Returns("cancelled")
    /\ UNCHANGED <<fetch, ended, session, late, calls>>

\* case <-ctx.Done(): a deadline in the past interrupts the read.
Interrupt ==
    /\ CallAt("select") /\ ended
    /\ CallGoes("join")
    /\ UNCHANGED <<fetch, ended, session, late, calls>>

\* <-ch
Join ==
    /\ CallAt("join") /\ fetch.pc = "sent"
    /\ Returns("cancelled")
    /\ fetch' = NoFetch
    /\ UNCHANGED <<ended, session, late, calls>>

\* ctx.Err() between the two attempts.
Recheck ==
    /\ CallAt("recheck")
    /\ IF ended THEN Returns("cancelled") ELSE CallBecomes("start", "walk")
    /\ UNCHANGED <<fetch, ended, session, late, calls>>

\* Walk's deferred Close, or the release of the walker; the next call has a new context.
Release ==
    /\ CallAt("returned")
    /\ session' = IF session = "open" /\ call.op = "get" THEN "closed" ELSE session
    /\ CallGoes("idle")
    /\ ended' = FALSE
    /\ UNCHANGED <<fetch, late, calls>>

\* The rest of the process goes on while this target waits.
Elsewhere == call.pc \in {"idle", "select", "join"} /\ UNCHANGED walkVars

WalkSteps == RateLimited \/ Start \/ Transport \/ ReceiveReply \/ Interrupt \/ Join \/ Recheck \/ Release

WalkNext == WalkContextEnds \/ BeginGet \/ BeginBulk \/ WalkSteps \/ Elsewhere

WalkSpec == WalkInit /\ [][WalkNext]_walkVars

\* The library's own timeouts end a read, and goroutines are scheduled.
FairWalkSpec == WalkSpec /\ WF_walkVars(WalkSteps)

-----------------------------------------------------------------------------
\* When a call has returned no goroutine of it is still reading: the session, which
\* is not safe for two users, may be closed or handed to the next module.
NobodyReadsAfterReturn == call.pc \in {"idle", "returned"} => fetch.pc # "reading"

\* A device is asked at most once more after its context ended, however the end
\* races with the answers: BulkWalk does not fall back to WalkAll then.
OneRequestAfterEnd == late <= 1

\* Every call returns: rows, an error or a panic in the transport goroutine, and the
\* end of the context, each end the wait.
CallReturns == call.pc = "select" ~> call.pc = "returned"
=============================================================================
