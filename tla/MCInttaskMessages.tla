-------------------------- MODULE MCInttaskMessages --------------------------
(* The device controller's mailbox with two senders: an interrupt handler    *)
(* that signals events and the power manager, the only sender of payloads,   *)
(* whom both the interrupt and the receiver preempt.  At most MaxSends sends *)
(* are begun, enough to go round the ring twice.                             *)
EXTENDS InttaskMessages, TLC

CONSTANTS isr, pm, dc, request, event, pwrdata, MaxSends

MCPrio    == isr :> 0 @@ dc :> 30 @@ pm :> 39
MCRingOf  == request :> pwrdata @@ event :> NoRing
MCMaySend == isr :> {event} @@ pm :> {request}

VARIABLE sends

MCInit == Init /\ sends = 0

Begins == \E s \in Senders : pc[s] = "idle" /\ pc'[s] # "idle"

MCNext == /\ Next
          /\ sends' = IF Begins THEN sends + 1 ELSE sends
          /\ sends' <= MaxSends

MCSpec == MCInit /\ [][MCNext]_<<vars, sends>>
==============================================================================
