---------------------------- MODULE MessageQueue -----------------------------
(* What a mailbox promises the tasks that use it: a message handed to a send  *)
(* is put at the end of a queue at one instant of the call, whole, and is     *)
(* taken from its front.  A call that finds another call open, or no room,    *)
(* may end the promise; it holds again once everybody is out of the mailbox.  *)
EXTENDS Naturals, Sequences

CONSTANTS
  Senders,
  Messages,  \* a type and the contents of a payload
  Blank,     \* not a message: what a sender has between its calls
  Capacity   \* messages unread or being handled

VARIABLES
  stage,    \* of each sender's call: "out", "begun", "posted"
  message,  \* the message it was given
  waiting,  \* the messages unread, oldest first
  hand,     \* the message being handled: a sequence of at most one
  broken    \* the promise is off

vars == <<stage, message, waiting, hand, broken>>

Full == Len(waiting) + Len(hand) >= Capacity

Init ==
  /\ stage = [s \in Senders |-> "out"]
  /\ message = [s \in Senders |-> Blank]
  /\ waiting = <<>>
  /\ hand = <<>>
  /\ broken = FALSE

Begin(s) ==
  /\ stage[s] = "out"
  /\ stage' = [stage EXCEPT ![s] = "begun"]
  /\ \E m \in Messages : message' = [message EXCEPT ![s] = m]
  /\ UNCHANGED <<waiting, hand>>

Deliver(s) ==
  /\ stage[s] = "begun"
  /\ ~Full
  /\ stage' = [stage EXCEPT ![s] = "posted"]
  /\ waiting' = Append(waiting, message[s])
  /\ UNCHANGED <<message, hand>>

Return(s) ==
  /\ stage[s] = "posted"
  /\ stage' = [stage EXCEPT ![s] = "out"]
  /\ message' = [message EXCEPT ![s] = Blank]
  /\ UNCHANGED <<waiting, hand>>

Take ==
  /\ waiting # <<>>
  /\ hand' = <<Head(waiting)>>
  /\ waiting' = Tail(waiting)
  /\ UNCHANGED <<stage, message>>

TakeNothing ==
  /\ waiting = <<>>
  /\ hand' = <<>>
  /\ UNCHANGED <<stage, message, waiting>>

Orderly ==
  \/ \E s \in Senders : Begin(s) \/ Deliver(s) \/ Return(s)
  \/ Take
  \/ TakeNothing

\* A call is open, and there is another one, or no room.
Crowded ==
  \E s \in Senders : /\ stage[s] # "out"
                     /\ Full \/ \E u \in Senders \ {s} : stage[u] # "out"

\* Everybody is out of the mailbox.
Deserted == waiting = <<>> /\ hand = <<>> /\ \A s \in Senders : stage[s] = "out"

\* While the promise is off the messages may be any, but no more than the
\* queue holds, and a step adds or takes one at most.
Disorder ==
  /\ Len(waiting') <= Capacity
  /\ Len(waiting') <= Len(waiting) + 1 /\ Len(waiting) <= Len(waiting') + 1
  /\ ~broken => Crowded'
  /\ ~broken' => Deserted'

Next == IF broken \/ broken' THEN Disorder ELSE Orderly

Spec == Init /\ [][Next]_vars
=============================================================================
