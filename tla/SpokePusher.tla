---------------------------- MODULE SpokePusher ----------------------------
(***************************************************************************)
(* The spoke's asynchronous push: the discovery cycle leaves a payload in  *)
(* the latest-only mailbox (spokePusher.Enqueue), one goroutine takes it   *)
(* (run) and pushes it to the hub with retries (Spoke.Push), and shutdown  *)
(* makes one bounded last attempt (drainOnce).                             *)
(*                                                                         *)
(* A payload is the number of the cycle that produced it.  The hub's       *)
(* answer to a POST is any of: 204; a fatal 4xx; a retryable status or a   *)
(* transport error, after the hub may have accepted the payload.  Encoding *)
(* a payload is taken not to fail.                                         *)
(***************************************************************************)
EXTENDS Naturals, FiniteSets

CONSTANTS MaxAttempts,  \* maxAttempts of Spoke.Push
          MaxCycles,    \* bound on discovery cycles
          PushMayPanic  \* a push may panic

ASSUME PusherAssumption ==
    MaxAttempts \in Nat \ {0} /\ MaxCycles \in Nat /\ PushMayPanic \in BOOLEAN

VARIABLES
    ctxDone,     \* the loop's context is cancelled
    mailbox,     \* p.ch, capacity 1: {} or {payload}
    cycle,       \* the producer: where it is, and the payload of its cycle
    pusher,      \* run: where it is, the payload in hand and the attempt
    superseded,  \* payloads counted in PushDrops{superseded}
    abandoned,   \* payloads counted in PushDrops{shutdown}
    failures,    \* FederationSpokePushFailuresTotal
    accepted,    \* history: payloads the hub accepted
    failed       \* history: Push calls that were refused or ran out of attempts

pusherVars == <<ctxDone, mailbox, cycle, pusher, superseded, abandoned, failures, accepted, failed>>

Payload == 1..MaxCycles
NoPush  == [pc |-> "select", payload |-> 0, attempt |-> 0]
Stopped == [pc |-> "stopped", payload |-> 0, attempt |-> 0]
CycleGoes(pc) == cycle' = [pc |-> pc, payload |-> cycle.payload]

PusherInit ==
    /\ ctxDone = FALSE
    /\ mailbox = {}
    /\ cycle = [pc |-> "idle", payload |-> 0]
    /\ pusher = NoPush
    /\ superseded = {} /\ abandoned = {}
    /\ failures = 0
    /\ accepted = {} /\ failed = {}

-----------------------------------------------------------------------------
(* The discovery loop.                                                     *)

\* A cycle has ended with the context alive: publish will Enqueue its payload.
CycleEnds ==
    /\ ~ctxDone
    /\ cycle.pc = "idle"
    /\ cycle.payload < MaxCycles
    /\ cycle' = [pc |-> "offer", payload |-> cycle.payload + 1]
    /\ UNCHANGED <<ctxDone, mailbox, pusher, superseded, abandoned, failures, accepted, failed>>

\* Enqueue's first select: the slot is free, or it is not.
Offer ==
    /\ cycle.pc = "offer"
    /\ IF mailbox = {}
       THEN mailbox' = {cycle.payload} /\ CycleGoes("idle")
       ELSE CycleGoes("drop") /\ UNCHANGED mailbox
    /\ UNCHANGED <<ctxDone, pusher, superseded, abandoned, failures, accepted, failed>>

\* The second select: the older payload is taken out, if it is still there.
DropOlder ==
    /\ cycle.pc = "drop"
    /\ superseded' = superseded \cup mailbox
    /\ mailbox' = {}
    /\ CycleGoes("insert")
    /\ UNCHANGED <<ctxDone, pusher, abandoned, failures, accepted, failed>>

\* The third select: re-insert; a full slot would lose the newer payload.
Insert ==
    /\ cycle.pc = "insert"
    /\ mailbox' = IF mailbox = {} THEN {cycle.payload} ELSE mailbox
    /\ CycleGoes("idle")
    /\ UNCHANGED <<ctxDone, pusher, superseded, abandoned, failures, accepted, failed>>

Cancel ==
    /\ ~ctxDone
    /\ ctxDone' = TRUE
    /\ UNCHANGED <<mailbox, cycle, pusher, superseded, abandoned, failures, accepted, failed>>

-----------------------------------------------------------------------------
(* The pusher goroutine.  pc "try" is the head of the retry loop with run's *)
(* context, "wait" the backoff; "dtry" and "dwait" are the same under       *)
(* drainOnce's own context, which only its timeout ends.                    *)

\* A peek: the payload stays in the slot while it is pushed.
TakeLeaves ==
    /\ pusher.pc = "select"
    /\ \E n \in mailbox : pusher' = [pc |-> "try", payload |-> n, attempt |-> 1]
    /\ UNCHANGED <<ctxDone, mailbox, cycle, superseded, abandoned, failures, accepted, failed>>

\* run's select: with both cases ready Go picks either.
Take ==
    /\ pusher.pc = "select"
    /\ \E n \in mailbox : pusher' = [pc |-> "try", payload |-> n, attempt |-> 1]
    /\ mailbox' = {}
    /\ UNCHANGED <<ctxDone, cycle, superseded, abandoned, failures, accepted, failed>>

\* The drain begins: an empty mailbox is a no-op.
DrainOnce ==
    /\ pusher.pc = "select"
    /\ ctxDone
    /\ pusher' = IF mailbox = {} THEN Stopped
                 ELSE [pc |-> "dtry", payload |-> CHOOSE n \in mailbox : TRUE, attempt |-> 1]
    /\ mailbox' = {}
    /\ UNCHANGED <<ctxDone, cycle, superseded, abandoned, failures, accepted, failed>>

Draining == pusher.pc \in {"dtry", "dwait"}

\* Push returned nil.
Succeeds ==
    pusher' = IF Draining THEN Stopped ELSE NoPush

\* Push returned an error after counting it (or not: a dead context); doPush
\* counts a failure if run's context is alive, drainOnce counts a drop.
DoPushCount == IF Draining \/ ctxDone THEN 0 ELSE 1

Fails(counted) ==
    /\ failures' = failures + counted + DoPushCount
    /\ failed' = IF counted = 1 THEN failed \cup {pusher.payload} ELSE failed
    /\ abandoned' = IF Draining THEN abandoned \cup {pusher.payload} ELSE abandoned
    /\ pusher' = IF Draining THEN Stopped ELSE NoPush

\* post: the hub accepts and the 204 arrives.
PostOK ==
    /\ pusher.pc \in {"try", "dtry"}
    /\ pusher.pc = "try" => ~ctxDone
    /\ accepted' = accepted \cup {pusher.payload}
    /\ Succeeds
    /\ UNCHANGED <<ctxDone, mailbox, cycle, superseded, abandoned, failures, failed>>

\* post: a fatal status ends Push.
PostFatal ==
    /\ pusher.pc \in {"try", "dtry"}
    /\ pusher.pc = "try" => ~ctxDone
    /\ Fails(1)
    /\ UNCHANGED <<ctxDone, mailbox, cycle, superseded, accepted>>

\* post: a retryable answer or a transport error (the request may have been
\* served); back off, or give up after the last attempt.
LastAttempt == pusher.attempt = MaxAttempts
PostRetryable ==
    /\ pusher.pc \in {"try", "dtry"}
    /\ pusher.pc = "try" => ~ctxDone
    /\ accepted' \in {accepted, accepted \cup {pusher.payload}}
    /\ \/ /\ LastAttempt
          /\ Fails(1)
       \/ /\ ~LastAttempt
          /\ pusher' = [pc |-> IF Draining THEN "dwait" ELSE "wait", payload |-> pusher.payload,
                         attempt |-> pusher.attempt]
          /\ UNCHANGED <<failures, failed, abandoned>>
    /\ UNCHANGED <<ctxDone, mailbox, cycle, superseded>>

\* The backoff of a push under run's context has no timer case.
BackoffOnlyDraining ==
    /\ pusher.pc = "dwait"
    /\ pusher' = [pc |-> "dtry", payload |-> pusher.payload, attempt |-> pusher.attempt + 1]
    /\ UNCHANGED <<ctxDone, mailbox, cycle, superseded, abandoned, failures, accepted, failed>>

\* The backoff timer fires.
Backoff ==
    /\ pusher.pc \in {"wait", "dwait"}
    /\ pusher' = [pc |-> IF Draining THEN "dtry" ELSE "try", payload |-> pusher.payload,
                   attempt |-> pusher.attempt + 1]
    /\ UNCHANGED <<ctxDone, mailbox, cycle, superseded, abandoned, failures, accepted, failed>>

\* run's context is not the one the push is given.
ContextEndsOnlyDraining ==
    /\ Draining
    /\ accepted' \in {accepted, accepted \cup {pusher.payload}}
    /\ Fails(0)
    /\ UNCHANGED <<ctxDone, mailbox, cycle, superseded>>

\* The context of the push ends: at the head of the loop, in post (the hub may
\* have accepted) or in the backoff.
ContextEnds ==
    /\ (pusher.pc \in {"try", "wait"} /\ ctxDone) \/ Draining
    /\ accepted' \in {accepted, accepted \cup {pusher.payload}}
    /\ Fails(0)
    /\ UNCHANGED <<ctxDone, mailbox, cycle, superseded>>

\* recoverGoroutine: the pusher is gone, the loop goes on.
PushPanics ==
    /\ PushMayPanic
    /\ pusher.pc \in {"try", "dtry"}
    /\ pusher' = Stopped
    /\ UNCHANGED <<ctxDone, mailbox, cycle, superseded, abandoned, failures, accepted, failed>>

\* Enqueue of one payload is up to three selects.
Enqueue == Offer \/ DropOlder \/ Insert
Consume == Take \/ DrainOnce \/ PostOK \/ PostFatal \/ PostRetryable \/ Backoff \/ ContextEnds

\* Everything has stopped.
Terminated ==
    /\ ctxDone /\ cycle.pc = "idle" /\ pusher.pc = "stopped"
    /\ UNCHANGED pusherVars

PusherNext == CycleEnds \/ Enqueue \/ Consume \/ PushPanics \/ Cancel \/ Terminated

PusherSpec == PusherInit /\ [][PusherNext]_pusherVars

\* Goroutines are scheduled, timers fire, and a POST ends (client timeout).
FairPusherSpec == PusherSpec /\ WF_pusherVars(Enqueue) /\ WF_pusherVars(Consume)

-----------------------------------------------------------------------------
(* Properties.                                                             *)

\* Every variable has its Go type.
PusherTypeOK ==
    /\ ctxDone \in BOOLEAN
    /\ mailbox \in SUBSET Payload /\ Cardinality(mailbox) <= 1
    /\ cycle \in [pc : {"idle", "offer", "drop", "insert"}, payload : 0..MaxCycles]
    /\ pusher \in [pc : {"select", "try", "wait", "dtry", "dwait", "stopped"},
                   payload : 0..MaxCycles, attempt : 0..MaxAttempts]
    /\ superseded \cup abandoned \cup accepted \cup failed \subseteq Payload
    /\ failures \in Nat

\* Between two cycles the mailbox holds the newest payload or nothing, and never
\* one the pusher already has: Enqueue's drop and re-insert, racing the pusher's
\* receive, never lose the newer payload to the older (spoke_pusher.go:56-77).
FreshestIsQueued ==
    /\ cycle.pc = "idle" => \A n \in mailbox : n = cycle.payload
    /\ \A n \in mailbox : n > pusher.payload /\ \A k \in accepted : k < n

\* A payload counted as superseded was never sent: the count is of graphs nobody
\* saw, and each is followed by a newer one.
SupersededNeverSent ==
    \A n \in superseded : n \notin accepted /\ n # pusher.payload /\ n < cycle.payload

\* While the context lives and the pusher has not panicked, a payload handed over
\* is settled: accepted, refused after its attempts, or counted as superseded by a
\* newer one (Enqueue, run).
QueuedSettles ==
    \A n \in Payload :
      (n \in mailbox) ~> (ctxDone \/ pusher.pc = "stopped"
                            \/ n \in accepted \cup failed \cup superseded)

\* Shutdown never hangs on the pusher: run exits once the context is cancelled.
ShutdownReturns == ctxDone ~> pusher.pc = "stopped"

\* Enqueue's three selects, racing run's receive, implement the atomic latest-only
\* mailbox: between the drop and the re-insert the newer payload counts as waiting.
Slot == INSTANCE Mailbox WITH
    newest  <- IF cycle.pc \in {"offer", "drop"} THEN cycle.payload - 1 ELSE cycle.payload,
    waiting <- IF cycle.pc = "insert" THEN {cycle.payload} ELSE mailbox,
    inHand  <- pusher.payload
ImplementsMailbox == Slot!Spec
=============================================================================
