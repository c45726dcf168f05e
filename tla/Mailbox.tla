------------------------------ MODULE Mailbox ------------------------------
(***************************************************************************)
(* What the spoke's latest-only mailbox promises: the producer hands over  *)
(* payloads numbered in order, each replaces the one that waits, and the   *)
(* consumer takes the one that waits when it has none in hand.             *)
(***************************************************************************)
EXTENDS Naturals

VARIABLES newest,   \* the last payload handed over
          waiting,  \* {} or {newest}
          inHand    \* the payload the consumer works on, 0 for none

Init == newest = 0 /\ waiting = {} /\ inHand = 0

Put == newest' = newest + 1 /\ waiting' = {newest'} /\ UNCHANGED inHand

Get == waiting = {newest} /\ inHand = 0 /\ inHand' = newest /\ waiting' = {} /\ UNCHANGED newest

Release == inHand # 0 /\ inHand' = 0 /\ UNCHANGED <<newest, waiting>>

Next == Put \/ Get \/ Release
Spec == Init /\ [][Next]_<<newest, waiting, inHand>>
=============================================================================
